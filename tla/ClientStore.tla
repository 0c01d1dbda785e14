------------------------------ MODULE ClientStore ------------------------------
(* Buying a subscription: IAPProvider, which owns the connection to the app  *)
(* store and the promise of the purchase under way, and the paywall, which   *)
(* waits for it, for a restore, or, in the browser, for the webhook of a     *)
(* checkout. The store and the billing service are external.                 *)
EXTENDS Naturals, FiniteSets

CONSTANTS
    Products, NoProduct,
    MaxAttempts,    \* polls after a checkout, 45 in the code
    MaxTroubles     \* bound on failed calls, new access tokens, deferred purchases
                    \* and entitlements that lapse

ASSUME ProductAssumption == NoProduct \notin Products
ASSUME AttemptsAssumption == MaxAttempts \in Nat \ {0}
ASSUME TroubleAssumption == MaxTroubles \in Nat

VARIABLES
    platform,   \* native, with IAPProvider.tsx, or web, with IAPProvider.web.tsx
    entitled,   \* server: the entitlement is active
    granted,    \* server, history: products some entitlement was granted for
    webhook,    \* the payment service has yet to report a payment
    store,      \* the transaction the store has for each product
    sheet,      \* the product whose payment sheet is open
    link,       \* the connect effect, connectedRef, ready and listenerRef
    offers,     \* loadProducts has filled products
    pending,    \* pendingRef
    update,     \* handlePurchaseUpdate under way for a product
    restore,    \* restorePurchases and handleRestorePurchases
    resolved,   \* a handleIapPurchase whose promise is resolved
    screen,     \* where the user is, and the state of the paywall
    known,      \* the entitlement query says active
    troubles

server == <<entitled, granted, webhook>>
provider == <<link, offers, pending, update>>
vars == <<platform, server, store, sheet, provider, restore, resolved, screen, known, troubles>>

Places == {"away", "paywall", "checkout", "onward"}
Stages == {"idle", "verify", "finish"}
Away == [name |-> "away", busy |-> NoProduct, restoring |-> FALSE, poll |-> "none", attempts |-> 0]
Paywall == [Away EXCEPT !.name = "paywall"]
Onward == [Away EXCEPT !.name = "onward"]   \* processing-paid, or back without a calculation
NoRestore == [pc |-> "idle", left |-> {}, now |-> NoProduct, got |-> FALSE]

Links == [phase : {"connecting", "on", "failed"}, connected : BOOLEAN, ready : BOOLEAN,
          listening : BOOLEAN]
Restores == [pc : Stages \cup {"list", "next", "refetch"}, left : SUBSET Products,
             now : Products \cup {NoProduct}, got : BOOLEAN]
Screens == [name : Places, busy : Products \cup {NoProduct}, restoring : BOOLEAN,
            poll : {"none", "asked", "timer", "over"}, attempts : 0..MaxAttempts]

TypeOK ==
    /\ platform \in {"native", "web"}
    /\ entitled \in BOOLEAN /\ webhook \in BOOLEAN /\ granted \subseteq Products
    /\ store \in [Products -> {"none", "deferred", "bought", "finished"}]
    /\ sheet \in Products \cup {NoProduct} /\ pending \in Products \cup {NoProduct}
    /\ link \in Links
    /\ update \in [Products -> Stages]
    /\ restore \in Restores
    /\ screen \in Screens
    /\ offers \in BOOLEAN /\ resolved \in BOOLEAN /\ known \in BOOLEAN
    /\ troubles \in 0..MaxTroubles

Connecting == [phase |-> "connecting", connected |-> FALSE, ready |-> FALSE, listening |-> FALSE]

Init ==
    /\ platform \in {"native", "web"}
    /\ entitled = FALSE /\ granted = {} /\ webhook = FALSE
    /\ store = [p \in Products |-> "none"]
    /\ sheet = NoProduct /\ pending = NoProduct
    /\ link = Connecting
    /\ offers = FALSE
    /\ update = [p \in Products |-> "idle"]
    /\ restore = NoRestore
    /\ resolved = FALSE
    /\ screen = Away
    /\ known = FALSE
    /\ troubles = 0

Native == platform = "native"
Trouble == troubles < MaxTroubles /\ troubles' = troubles + 1
OnPaywall == screen.name = "paywall"

----------------------------------------------------------------------------
(* IAPProvider                                                             *)

\* The effect of an access token; an initConnection that fails is not tried
\* again by it.
Connect ==
    /\ Native /\ link.phase = "connecting"
    /\ \/ /\ link' = [phase |-> "on", connected |-> TRUE, ready |-> TRUE, listening |-> TRUE]
          /\ UNCHANGED troubles
       \/ link' = [link EXCEPT !.phase = "failed", !.ready = FALSE] /\ Trouble
    /\ UNCHANGED <<platform, server, store, sheet, offers, pending, update, restore, resolved, screen, known>>

\* A new access token: the cleanup removes the listeners and the effect runs
\* again. On the paywall it also starts the poll of a checkout afresh.
NewToken ==
    /\ Trouble
    /\ link' = Connecting
    /\ screen' = IF screen.poll \in {"asked", "timer", "over"}
                 THEN [screen EXCEPT !.poll = "asked", !.attempts = 0] ELSE screen
    /\ UNCHANGED <<platform, server, store, sheet, offers, pending, update, restore, resolved, known>>

\* ensureConnected connects without listeners.
Ensured == IF link.connected THEN link ELSE [link EXCEPT !.connected = TRUE, !.ready = TRUE]

\* The paywall's effect on the plans; a failure is swallowed.
LoadProducts ==
    /\ Native /\ OnPaywall /\ ~offers
    /\ link' = Ensured
    /\ offers' = TRUE
    /\ UNCHANGED <<platform, server, store, sheet, pending, update, restore, resolved, screen, known, troubles>>

Free == [screen EXCEPT !.busy = NoProduct]

\* handleIapPurchase and purchaseProduct. On Android the promise is rejected
\* before the offers are there.
Purchase(p) ==
    /\ Native /\ OnPaywall /\ screen.busy = NoProduct
    /\ link.ready
    /\ link' = Ensured
    /\ \/ /\ pending # NoProduct \/ ~offers     \* an alert, and the buttons are free again
          /\ UNCHANGED <<pending, sheet, screen>>
       \/ /\ pending = NoProduct /\ sheet = NoProduct
          /\ pending' = p
          /\ sheet' = p
          /\ screen' = [screen EXCEPT !.busy = p]
    /\ UNCHANGED <<platform, server, store, offers, update, restore, resolved, known, troubles>>

\* Mutated form: pendingRef is not cleared.
RejectAndKeep ==
    /\ pending' = pending
    /\ screen' = IF pending # NoProduct THEN Free ELSE screen

\* The handler of the promise shows an alert; it may belong to a paywall that
\* was left.
RejectPending ==
    /\ pending' = NoProduct
    /\ screen' = IF pending # NoProduct THEN Free ELSE screen

\* External: what the store does with the sheet. An event needs a listener.
StoreAnswer ==
    /\ sheet # NoProduct
    /\ sheet' = NoProduct
    /\ \/ /\ store[sheet] = "none"
          /\ store' = [store EXCEPT ![sheet] = "bought"]
          /\ update' = IF link.listening THEN [update EXCEPT ![sheet] = "verify"] ELSE update
          /\ UNCHANGED <<pending, screen, troubles>>
       \/ /\ store[sheet] = "none" /\ Trouble      \* handlePurchaseUpdate ignores it
          /\ store' = [store EXCEPT ![sheet] = "deferred"]
          /\ UNCHANGED <<update, pending, screen>>
       \/ /\ IF link.listening THEN RejectPending ELSE UNCHANGED <<pending, screen>>
          /\ UNCHANGED <<store, update, troubles>>  \* cancelled, refused or owned
    /\ UNCHANGED <<platform, server, link, offers, restore, resolved, known>>

\* External: a deferred purchase is approved, or the store delivers again
\* what was not finished.
StoreDeliver(p) ==
    /\ store[p] \in {"deferred", "bought"} /\ update[p] = "idle"
    /\ store' = [store EXCEPT ![p] = "bought"]
    /\ link.listening
    /\ update' = [update EXCEPT ![p] = "verify"]
    /\ UNCHANGED <<platform, server, sheet, link, offers, pending, restore, resolved, screen, known, troubles>>

Grant(p) == granted' = granted \cup {p} /\ entitled' = TRUE /\ UNCHANGED webhook

\* Mutated form: whatever was bought answers the purchase under way.
ResolveAny(p) ==
    IF pending # NoProduct THEN pending' = NoProduct /\ resolved' = TRUE ELSE UNCHANGED <<pending, resolved>>

ResolvePending(p) ==
    IF pending = p THEN pending' = NoProduct /\ resolved' = TRUE ELSE UNCHANGED <<pending, resolved>>

\* Mutated form: the transaction is finished and verified afterwards.
HandlePurchaseUpdateFinishes(p) ==
    /\ update[p] # "idle"
    /\ \/ /\ update[p] = "verify"
          /\ store' = [store EXCEPT ![p] = "finished"]
          /\ update' = [update EXCEPT ![p] = "finish"]
          /\ UNCHANGED <<server, pending, resolved, screen, troubles>>
       \/ /\ update[p] = "finish"
          /\ Grant(p)
          /\ update' = [update EXCEPT ![p] = "idle"]
          /\ ResolvePending(p)
          /\ UNCHANGED <<store, screen, troubles>>
       \/ /\ update' = [update EXCEPT ![p] = "idle"] /\ Trouble
          /\ RejectPending
          /\ UNCHANGED <<server, store, resolved>>
    /\ UNCHANGED <<platform, sheet, link, offers, restore, known>>

\* handlePurchaseUpdate: verifyPurchase, finishTransaction, and the promise if
\* it is for this product. A failure rejects the promise of any product.
HandlePurchaseUpdate(p) ==
    /\ update[p] # "idle"
    /\ \/ /\ update[p] = "verify"
          /\ Grant(p)
          /\ update' = [update EXCEPT ![p] = "finish"]
          /\ UNCHANGED <<store, pending, resolved, screen, troubles>>
       \/ /\ update[p] = "finish"
          /\ store' = [store EXCEPT ![p] = "finished"]
          /\ update' = [update EXCEPT ![p] = "idle"]
          /\ ResolvePending(p)
          /\ UNCHANGED <<server, screen, troubles>>
       \/ /\ update' = [update EXCEPT ![p] = "idle"] /\ Trouble
          /\ RejectPending
          /\ UNCHANGED <<server, store, resolved>>
    /\ UNCHANGED <<platform, sheet, link, offers, restore, known>>

----------------------------------------------------------------------------
(* The paywall                                                             *)

\* The entitlement query is asked again if its answer is older than a minute.
Open ==
    /\ screen.name \in {"away", "onward"}
    /\ screen' = Paywall
    /\ known' \in {known, entitled}
    /\ UNCHANGED <<platform, server, store, sheet, provider, restore, resolved, troubles>>

\* handleClose, or back from the screen behind.
Close ==
    /\ screen.name \in {"paywall", "onward"} /\ sheet = NoProduct
    /\ screen' = Away
    /\ UNCHANGED <<platform, server, store, sheet, provider, restore, resolved, known, troubles>>

\* The effect on an active entitlement.
AlreadyActive ==
    /\ OnPaywall /\ known
    /\ screen' = Onward
    /\ UNCHANGED <<platform, server, store, sheet, provider, restore, resolved, known, troubles>>

\* The rest of handleIapPurchase, wherever the user is by now: refetch does not
\* throw, its data is what was known before if it failed.
PurchaseDone ==
    /\ resolved
    /\ resolved' = FALSE
    /\ \/ known' = entitled /\ UNCHANGED troubles
       \/ UNCHANGED known /\ Trouble
    /\ screen' = Onward
    /\ UNCHANGED <<platform, server, store, sheet, provider, restore>>

HandleRestorePurchases ==
    /\ Native /\ OnPaywall /\ link.ready
    /\ ~screen.restoring /\ screen.busy = NoProduct
    /\ restore.pc = "idle"
    /\ link' = Ensured
    /\ restore' = [NoRestore EXCEPT !.pc = "list"]
    /\ screen' = [screen EXCEPT !.restoring = TRUE]
    /\ UNCHANGED <<platform, server, store, sheet, offers, pending, update, resolved, known, troubles>>

Restored == screen' = [screen EXCEPT !.restoring = FALSE]

\* getAvailablePurchases, then one purchase after the other until one is
\* verified and finished; what fails is skipped.
RestoreStep ==
    /\ \/ /\ restore.pc = "list"
          /\ restore' = [restore EXCEPT !.pc = "next", !.left = {p \in Products : store[p] \in {"bought", "finished"}}]
          /\ UNCHANGED <<entitled, granted, webhook, store, screen, troubles>>
       \/ /\ restore.pc = "list" /\ Trouble
          /\ restore' = NoRestore
          /\ Restored
          /\ UNCHANGED <<server, store>>
       \/ /\ restore.pc = "next"
          /\ \/ restore.left = {} /\ restore' = [restore EXCEPT !.pc = "refetch"]
             \/ \E p \in restore.left :
                  restore' = [restore EXCEPT !.pc = "verify", !.now = p, !.left = @ \ {p}]
          /\ UNCHANGED <<server, store, screen, troubles>>
       \/ /\ restore.pc = "verify"
          /\ Grant(restore.now)
          /\ restore' = [restore EXCEPT !.pc = "finish", !.got = TRUE]
          /\ UNCHANGED <<store, screen, troubles>>
       \/ /\ restore.pc = "finish"
          /\ store' = [store EXCEPT ![restore.now] = "finished"]
          /\ restore' = [restore EXCEPT !.pc = "refetch", !.now = NoProduct, !.left = {}]
          /\ UNCHANGED <<server, screen, troubles>>
       \/ /\ restore.pc \in {"verify", "finish"} /\ Trouble
          /\ restore' = [restore EXCEPT !.pc = "next", !.now = NoProduct]
          /\ UNCHANGED <<server, store, screen>>
    /\ UNCHANGED <<platform, sheet, provider, resolved, known>>

\* Mutated form: whoever asks is taken on.
RestoreDoneAnyway ==
    /\ restore.pc = "refetch"
    /\ restore' = NoRestore
    /\ known' = entitled
    /\ screen' = Onward
    /\ UNCHANGED <<platform, server, store, sheet, provider, resolved, troubles>>

\* The rest of handleRestorePurchases.
RestoreDone ==
    /\ restore.pc = "refetch"
    /\ restore' = NoRestore
    /\ \/ known' = entitled /\ UNCHANGED troubles
       \/ UNCHANGED known /\ Trouble
    /\ IF restore.got \/ known' THEN screen' = Onward ELSE Restored
    /\ UNCHANGED <<platform, server, store, sheet, provider, resolved>>

----------------------------------------------------------------------------
(* The checkout of the browser                                             *)

\* handleStripePurchase: a session, and the browser leaves the app. A failure
\* shows an alert.
Checkout ==
    /\ ~Native /\ OnPaywall
    /\ screen' = [Away EXCEPT !.name = "checkout"]
    /\ known' = FALSE
    /\ UNCHANGED <<platform, server, store, sheet, provider, restore, resolved, troubles>>

\* External: the payment page returns to the paywall with status=success or
\* status=cancel; the webhook comes in its own time.
Return(p) ==
    /\ screen.name = "checkout"
    /\ \/ screen' = Paywall /\ UNCHANGED <<store, webhook>>
       \/ /\ store[p] = "none"
          /\ store' = [store EXCEPT ![p] = "bought"]
          /\ webhook' = TRUE
          /\ screen' = [Paywall EXCEPT !.poll = "asked"]
    /\ UNCHANGED <<platform, entitled, granted, sheet, provider, restore, resolved, known, troubles>>

Webhook ==
    /\ webhook
    /\ webhook' = FALSE
    /\ entitled' = TRUE
    /\ granted' = granted \cup {p \in Products : store[p] = "bought"}
    /\ store' = [p \in Products |-> IF store[p] = "bought" THEN "finished" ELSE store[p]]
    /\ UNCHANGED <<platform, sheet, provider, restore, resolved, screen, known, troubles>>

\* Mutated form: one attempt too many.
PollAnswerOnceMore ==
    /\ OnPaywall /\ screen.poll = "asked"
    /\ known' = entitled /\ UNCHANGED troubles
    /\ screen' = IF known' THEN Onward
                 ELSE [screen EXCEPT !.attempts = @ + 1,
                         !.poll = IF screen.attempts < MaxAttempts THEN "timer" ELSE "over"]
    /\ UNCHANGED <<platform, server, store, sheet, provider, restore, resolved>>

\* Mutated form: attempts are not counted.
PollAnswerUncounted ==
    /\ OnPaywall /\ screen.poll = "asked"
    /\ known' = entitled /\ UNCHANGED troubles
    /\ screen' = IF known' THEN Onward ELSE [screen EXCEPT !.poll = "timer"]
    /\ UNCHANGED <<platform, server, store, sheet, provider, restore, resolved>>

\* The poll of the success page.
PollAnswer ==
    /\ OnPaywall /\ screen.poll = "asked"
    /\ \/ known' = entitled /\ UNCHANGED troubles
       \/ UNCHANGED known /\ Trouble
    /\ screen' = IF known' THEN Onward
                 ELSE [screen EXCEPT !.attempts = @ + 1,
                         !.poll = IF screen.attempts + 1 < MaxAttempts THEN "timer" ELSE "over"]
    /\ UNCHANGED <<platform, server, store, sheet, provider, restore, resolved>>

PollTimer ==
    /\ screen.poll = "timer"
    /\ screen' = [screen EXCEPT !.poll = "asked"]
    /\ UNCHANGED <<platform, server, store, sheet, provider, restore, resolved, known, troubles>>

\* The subscription ends.
Lapse ==
    /\ entitled /\ Trouble
    /\ entitled' = FALSE
    /\ UNCHANGED <<platform, granted, webhook, store, sheet, provider, restore, resolved, screen, known>>

Handlers ==
    \/ Connect \/ LoadProducts \/ AlreadyActive \/ PurchaseDone \/ RestoreStep \/ RestoreDone
    \/ PollAnswer \/ PollTimer
    \/ \E p \in Products : HandlePurchaseUpdate(p)
Next ==
    \/ Handlers \/ NewToken \/ StoreAnswer \/ Webhook \/ Lapse
    \/ Open \/ Close \/ HandleRestorePurchases \/ Checkout
    \/ \E p \in Products : Purchase(p) \/ StoreDeliver(p) \/ Return(p)

Spec == Init /\ [][Next]_vars

\* Effects run, calls are answered, timers fire, and the sheet is closed.
FairSpec ==
    /\ Spec
    /\ WF_vars(Connect) /\ WF_vars(PurchaseDone) /\ WF_vars(RestoreStep) /\ WF_vars(RestoreDone)
    /\ WF_vars(PollAnswer) /\ WF_vars(PollTimer) /\ WF_vars(StoreAnswer)
    /\ \A p \in Products : WF_vars(HandlePurchaseUpdate(p))

----------------------------------------------------------------------------
(* Properties                                                              *)

(* The store forgets a finished transaction, so one is finished only after  *)
(* the server has granted it (verifyPurchase before finishTransaction, in   *)
(* handlePurchaseUpdate and in restorePurchases, which may work on the same *)
(* transaction at once): nobody pays for nothing.                           *)
FinishedIsGranted == \A p \in Products : store[p] = "finished" => p \in granted

(* A purchase is answered with success only for its own product, though     *)
(* transactions of others are delivered again meanwhile (the test of        *)
(* productId in handlePurchaseUpdate).                                      *)
AnsweredIsBought ==
    [][resolved' /\ ~resolved => store'[pending] = "finished"]_vars

(* The paywall takes to the report only those the server has granted        *)
(* something, by whichever of its five ways: a purchase, a restore, the poll *)
(* of a checkout, a refetch, or the effect on an active entitlement.        *)
OnwardIsPaid == screen.name = "onward" => granted # {}

(* Whoever has the sheet of the store open, with the listeners attached, is *)
(* told the outcome, unless a call failed, a token was renewed or a         *)
(* purchase was deferred meanwhile: then, or if loadProducts was ready      *)
(* before the listeners were, pendingRef may stay set for good.             *)
PurchaseSettles == (sheet # NoProduct /\ link.listening) ~> (pending = NoProduct \/ troubles > 0)

(* The poll of a checkout ends, with the webhook or without.                *)
PollEnds == (screen.poll \in {"asked", "timer"}) ~> (screen.poll \in {"none", "over"})

(* Nothing is taken for paid that the server has not granted: neither by    *)
(* the store, which forgets a transaction, nor by the paywall.              *)
PaidIsGranted == TypeOK /\ FinishedIsGranted /\ OnwardIsPaid

(* Whoever buys is answered, and for what was bought.                       *)
PurchasesAreAnswered == AnsweredIsBought /\ PurchaseSettles /\ PollEnds
=============================================================================
