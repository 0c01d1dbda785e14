---------------------------- MODULE ReviewFigures ----------------------------
(* The review of a scan: what the screen shows of the assets while the user   *)
(* corrects them, what it sends when the user confirms, and what the server   *)
(* makes of it. Amounts and prices are whole, a share counts in hundredths.   *)
EXTENDS Readouts

\* What is not there is no action and no cost.
ASSUME AbsentAssumption == Nothing \notin {"remove"} \cup [value : Int, base : BOOLEAN]

(****************************** The server *********************************)

\* The value of an asset before the review: of a market price, else a value the user gave, else none.
ValueAt(price, amount, manual) == IF price # Nothing THEN price * amount ELSE IF Falsy(manual) THEN Nothing ELSE manual

\* The draft in dollars, and in the currency of the user.
Priced(a) == ValueAt(a.price, a.amount, Nothing)
PricedDisplay(a, d) == IF Priced(a) = Nothing THEN Nothing ELSE Priced(a) \div d.rate

\* The edits of the review applied, the values found again and the small ones left out.
Booked(a, edit, d) ==
    IF edit.action = "remove" THEN Nothing
    ELSE ValueAt(a.price, Either(edit.amount, a.amount), IF edit.manual = Nothing THEN Nothing ELSE edit.manual * d.rate)
CostBooked(a, edit, d) == IF edit.avg = Nothing THEN a.avg ELSE edit.avg * d.rate

(******************************* The draft *********************************)

\* The currency of the user counts as dollars while its rate is not known.
BaseFxRate(d) == IF d.fx = Nothing \/ d.fx <= 0 THEN 1 ELSE d.fx

Unpriced(a) == Priced(a) = Nothing

\* Mutated form: an amount that was typed does not change the value.
DraftValueUnscaled(a, d) ==
    IF a.removed THEN Nothing
    ELSE IF ParseNumber(a.manual) # Nothing THEN a.manual * BaseFxRate(d)
    ELSE Priced(a)

DraftValue(a, d) ==
    LET raw == IF Priced(a) = Nothing /\ PricedDisplay(a, d) # Nothing THEN PricedDisplay(a, d) * BaseFxRate(d) ELSE Priced(a)
        manual == ParseNumber(a.manual)
        amount == ParseNumber(a.text)
    IN IF a.removed THEN Nothing
       ELSE IF a.manual # Nothing THEN (IF manual = Nothing THEN raw ELSE manual * BaseFxRate(d))
       ELSE IF Nothing \in {amount, raw} \/ a.amount <= 0 THEN raw
       ELSE (raw * amount) \div a.amount

\* Mutated form: removed assets count.
DraftTotalAll(d) == TotalOf([i \in DOMAIN d.assets |-> Either(DraftValue([d.assets[i] EXCEPT !.removed = FALSE], d), 0)])

DraftTotal(d) == TotalOf([i \in DOMAIN d.assets |-> Either(DraftValue(d.assets[i], d), 0)])

\* In hundredths: an asset below one per cent of the draft.
LowValueThreshold(d) == IF DraftTotal(d) <= 0 THEN 0 ELSE DraftTotal(d)
Ignored(a, d) ==
    LET value == DraftValue(a, d)
    IN ~a.removed /\ LowValueThreshold(d) > 0 /\ value # Nothing /\ value > 0 /\ 100 * value < LowValueThreshold(d)

(******************************* The prompt ********************************)

Eligible(a) == ~Falsy(Priced(a)) /\ Priced(a) > 0 /\ a.type \in {"crypto", "stock"} /\ ~a.stable
HasCost(a) == (ParseNumber(a.cost) # Nothing /\ a.cost > 0) \/ ~Falsy(a.avg)

\* Mutated form: a holding is large when it is large in the whole portfolio.
AvgPricePromptOfAll(d) ==
    LET eligible == SelectSeq(d.assets, Eligible)
        total == TotalOf([i \in DOMAIN d.assets |-> Either(Priced(d.assets[i]), 0)])
        top == Take(SortSeq(eligible, LAMBDA a, b : Priced(a) > Priced(b)), 3)
    IN \E i \in DOMAIN top : 10 * Priced(top[i]) >= total /\ ~HasCost(top[i])

\* The three largest holdings of a tenth or more are asked for what they cost.
AvgPricePrompt(d) ==
    LET eligible == SelectSeq(d.assets, Eligible)
        total == TotalOf([i \in DOMAIN eligible |-> Priced(eligible[i])])
        top == Take(SortSeq(eligible, LAMBDA a, b : Priced(a) > Priced(b)), 3)
    IN \E i \in DOMAIN top : 10 * Priced(top[i]) >= total /\ ~HasCost(top[i])

(******************************** The card *********************************)

\* Mutated form: the exchange says nothing.
AssetIdentityBySuffix(a) ==
    LET symbol == NormalizeHKSymbol(a.symbol)
        hongKong == a.type = "stock" /\ a.symbol.market = "hk"
    IN [title |-> IF a.name = Nothing THEN <<symbol>> ELSE IF hongKong THEN <<a.name, symbol>> ELSE <<a.name>>,
        chip |-> a.name # Nothing /\ ~hongKong, hongKong |-> hongKong]

AssetIdentity(a) ==
    LET symbol == NormalizeHKSymbol(a.symbol)
        hongKong == a.type = "stock" /\ (a.mic = "XHKG" \/ a.symbol.market = "hk")
    IN [title |-> IF a.name = Nothing THEN <<symbol>> ELSE IF hongKong THEN <<a.name, symbol>> ELSE <<a.name>>,
        chip |-> a.name # Nothing /\ ~hongKong, hongKong |-> hongKong]

\* What the asset cost: as typed, else in the currency of the user, else in dollars.
CostShown(a, d) ==
    LET display == IF a.cost = Nothing THEN (IF a.avg = Nothing THEN Nothing ELSE a.avg \div d.rate) ELSE ParseNumber(a.cost)
        value == Either(display, a.avg)
    IN IF value = Nothing \/ value <= 0 THEN Nothing ELSE [value |-> value, base |-> display # Nothing]

AssetCard(a, d) ==
    [identity |-> AssetIdentity(a), cost |-> CostShown(a, d), ignored |-> Ignored(a, d),
     draft |-> IF Unpriced(a) THEN Nothing ELSE [value |-> Either(PricedDisplay(a, d), Priced(a)), base |-> PricedDisplay(a, d) # Nothing],
     badges |-> (IF Unpriced(a) THEN {"unpriced"} ELSE {}) \cup (IF Ignored(a, d) THEN {"ignored"} ELSE {}),
     manualField |-> Unpriced(a), editable |-> ~a.removed, note |-> a.manual # Nothing]

\* A scan that is read while it is not waiting for the review leads away.
ReviewScreenOf(d) ==
    CASE d.status = Nothing -> [state |-> "loading"]
      [] d.status = "failed" -> [state |-> "failed", opens |-> "upload",
             text |-> IF d.error \in {"INVALID_IMAGE", "UNSUPPORTED_ASSET_VIEW", "EXTRACTION_FAILURE"} THEN d.error ELSE "generic"]
      [] d.status \notin {Nothing, "failed", "needs_review"} -> [state |-> "processing", opens |-> "processing-ocr"]
      [] OTHER -> [state |-> "review", prompt |-> AvgPricePrompt(d), unpriced |-> \E i \in DOMAIN d.assets : Unpriced(d.assets[i]),
                   cards |-> [i \in DOMAIN d.assets |-> AssetCard(d.assets[i], d)]]

(***************************** What is sent ********************************)

\* The removal of an asset, or the numbers that were typed: an amount that is a change, a cost and a value that are not negative.
EditOf(a) ==
    LET Typed(text, ok(_)) == IF ParseNumber(text) = Nothing THEN Nothing ELSE IF ok(text) THEN text ELSE Nothing
        NotNegative(n) == n >= 0
    IN IF a.removed THEN [action |-> "remove", amount |-> Nothing, avg |-> Nothing, manual |-> Nothing]
       ELSE [action |-> Nothing, amount |-> Typed(a.text, LAMBDA n : n > 0 /\ n # a.amount),
             avg |-> Typed(a.cost, NotNegative), manual |-> Typed(a.manual, NotNegative)]

(******************************** The data *********************************)

\* The numbers of an asset on the screen: it has an amount, a value is typed only where
\* there is no price, and what it cost is whole in the user's currency.
Reviewable(a, d) ==
    /\ a.removed \in BOOLEAN
    /\ a.amount \in Nat \ {0}
    /\ a.price \in Int \cup {Nothing}
    /\ {a.text, a.cost, a.manual} \subseteq Int \cup {Nothing, Garbage}
    /\ a.price # Nothing => a.manual = Nothing
    /\ a.avg # Nothing => a.avg \in Nat /\ \E n \in 0..a.avg : a.avg = n * d.rate

\* A review: its assets, and a rate that the app knows or takes for one.
ReviewData(d) ==
    /\ DOMAIN d.assets = 1..Len(d.assets) /\ Len(d.assets) \in Nat
    /\ d.rate \in Nat \ {0} /\ BaseFxRate(d) = d.rate
    /\ \A i \in DOMAIN d.assets : Reviewable(d.assets[i], d)

(******************************** Properties *******************************)

\* A typed amount of zero, or a negative number, changes what is shown and is not sent.
Sensible(a) == \A text \in {a.text, a.cost, a.manual} : text \in {Nothing, Garbage} \/ text > 0
Reviewed == Drawn("review") /\ ReviewScreenOf(shown).state = "review" /\ \A i \in DOMAIN shown.assets : Sensible(shown.assets[i])

(* What the user sees is what the server will book: the value of every asset  *)
(* in the draft is its value after the edits that are sent, and the cost on   *)
(* its card is the cost after them, each in its currency. Holds for numbers   *)
(* above zero.                                                                *)
DraftMatchesSent ==
    Reviewed =>
        \A i \in DOMAIN shown.assets :
           LET a == shown.assets[i]
               edit == EditOf(a)
               cost == CostShown(a, shown)
           IN /\ DraftValue(a, shown) = Booked(a, edit, shown)
              /\ ~a.removed => IF cost = Nothing THEN Falsy(CostBooked(a, edit, shown))
                               ELSE CostBooked(a, edit, shown) = (IF cost.base THEN cost.value * shown.rate ELSE cost.value)

(* The assets that are marked as ignored are those that the server leaves out *)
(* of the portfolio for being worth less than one per cent of it, whatever    *)
(* was typed and removed before.                                              *)
IgnoredIsLeftOut ==
    Reviewed =>
        LET Value(i) == Booked(shown.assets[i], EditOf(shown.assets[i]), shown)
            total == TotalOf([i \in DOMAIN shown.assets |-> Either(Value(i), 0)])
        IN \A i \in DOMAIN shown.assets :
              Value(i) # Nothing /\ Value(i) > 0 => Ignored(shown.assets[i], shown) = (100 * Value(i) < total)

(* The user is asked for a cost when, and only when, one of the three largest *)
(* holdings that can have one lacks it and makes up a tenth of them.          *)
PromptAsksForTop ==
    Drawn("review") /\ ReviewScreenOf(shown).state = "review" =>
        LET eligible == {i \in DOMAIN shown.assets : Eligible(shown.assets[i])}
            Value(i) == Priced(shown.assets[i])
            total == TotalOf([i \in DOMAIN shown.assets |-> IF i \in eligible THEN Value(i) ELSE 0])
            large == {i \in eligible : 10 * Value(i) >= total /\ ~HasCost(shown.assets[i])}
        IN IF AvgPricePrompt(shown) THEN \E i \in large : Cardinality({j \in eligible : Value(j) > Value(i)}) < 3
           ELSE \A i \in large : Cardinality({j \in eligible \ {i} : Value(j) >= Value(i)}) >= 3

(* A stock of Hong Kong has the same name in the review and in the list of    *)
(* the holdings, and no other asset has its symbol in the title.              *)
NamesAgree ==
    Drawn("review") =>
        \A i \in DOMAIN shown.assets :
           LET a == shown.assets[i]
               label == HoldingLabel([symbol |-> a.symbol, name |-> a.name, asset_type |-> a.type, mic |-> a.mic])
           IN Len(label) = 2 \/ Len(AssetIdentity(a).title) = 2 => label = AssetIdentity(a).title

(* What the review shows while the user corrects it is what the server makes  *)
(* of the corrections, and asks for.                                          *)
ReviewShowsOutcome == DraftMatchesSent /\ IgnoredIsLeftOut /\ PromptAsksForTop /\ NamesAgree
=============================================================================
