-------------------------- MODULE ClientStore_proofs --------------------------
(* Proofs about ClientStore, for every set of products and every bound on    *)
(* polls and troubles, and about ClientProfile.                              *)
EXTENDS ClientStore, TLAPS

Paid == granted # {}

\* What each party believes, and why it may: a verification under way has been
\* granted, and nobody knows of an entitlement before there is one.
UpdatesGranted == \A p \in Products : update[p] = "finish" => p \in granted

RestoreGranted ==
    /\ restore.pc \in {"verify", "finish"} => restore.now \in Products
    /\ restore.pc = "finish" => restore.now \in granted
    /\ restore.got => Paid

\* The webhook reports a payment; whoever finished its transaction meanwhile
\* had it granted.
WebhookPaid == webhook => \E p \in Products : store[p] \in {"bought", "finished"}

BeliefsPaid ==
    /\ entitled => Paid
    /\ known => Paid
    /\ resolved => Paid

\* A screen with its types; a poll that goes on has an attempt left.
Drawn(s) ==
    /\ s \in Screens
    /\ s.poll \in {"asked", "timer"} => s.attempts < MaxAttempts

\* TypeOK, by what the actions change together.
FlagsTyped ==
    /\ platform \in {"native", "web"}
    /\ entitled \in BOOLEAN /\ webhook \in BOOLEAN /\ granted \subseteq Products
    /\ offers \in BOOLEAN /\ resolved \in BOOLEAN /\ known \in BOOLEAN
PurchasesTyped ==
    /\ sheet \in Products \cup {NoProduct} /\ pending \in Products \cup {NoProduct}
    /\ store \in [Products -> {"none", "deferred", "bought", "finished"}]
    /\ update \in [Products -> Stages]
CallsTyped ==
    /\ link \in Links
    /\ restore \in Restores
    /\ troubles \in 0..MaxTroubles

IInv ==
    /\ FlagsTyped /\ PurchasesTyped /\ CallsTyped /\ Drawn(screen)
    /\ FinishedIsGranted
    /\ OnwardIsPaid
    /\ UpdatesGranted
    /\ RestoreGranted
    /\ WebhookPaid
    /\ BeliefsPaid

LEMMA Typing == TypeOK <=> FlagsTyped /\ PurchasesTyped /\ CallsTyped /\ screen \in Screens
  BY DEF TypeOK, FlagsTyped, PurchasesTyped, CallsTyped

----------------------------------------------------------------------------
(* The screens the actions lead to                                          *)

LEMMA Pages ==
  /\ Drawn(Away) /\ Away.name = "away" /\ Away.poll = "none"
  /\ Drawn(Paywall) /\ Paywall.name = "paywall"
  /\ Drawn([Paywall EXCEPT !.poll = "asked"]) /\ [Paywall EXCEPT !.poll = "asked"].name = "paywall"
  /\ Drawn([Away EXCEPT !.name = "checkout"]) /\ [Away EXCEPT !.name = "checkout"].name = "checkout"
  /\ Drawn(Onward)
<1>1. Away \in Screens /\ Away.name = "away" /\ Away.poll = "none"
  BY AttemptsAssumption DEF Screens, Places, Away
<1>2. ASSUME NEW place \in Places
      PROVE  LET s == [Away EXCEPT !.name = place]
             IN  s \in Screens /\ s.name = place /\ s.poll = "none" /\ s.attempts = 0
  BY <1>1 DEF Screens, Away
<1>3. Paywall \in Screens /\ Paywall.name = "paywall" /\ Paywall.poll = "none"
      /\ Paywall.attempts = 0
  BY <1>2 DEF Paywall, Places
<1>4. LET s == [Paywall EXCEPT !.poll = "asked"]
      IN  s \in Screens /\ s.name = "paywall" /\ s.attempts = 0
  BY <1>3 DEF Screens
<1>5. Onward \in Screens /\ Onward.name = "onward" /\ Onward.poll = "none"
  BY <1>2 DEF Onward, Places
<1>6. Drawn([Paywall EXCEPT !.poll = "asked"])
  BY <1>4, AttemptsAssumption DEF Drawn
<1>7. "checkout" \in Places
  BY DEF Places
<1> QED
  BY <1>1, <1>2, <1>3, <1>4, <1>5, <1>6, <1>7 DEF Drawn

\* A button of the screen changes neither its place nor its poll.
LEMMA Buttons ==
  ASSUME Drawn(screen)
  PROVE  /\ Drawn(Free) /\ Free.name = screen.name
         /\ \A p \in Products : /\ Drawn([screen EXCEPT !.busy = p])
                                /\ [screen EXCEPT !.busy = p].name = screen.name
         /\ \A b \in BOOLEAN : /\ Drawn([screen EXCEPT !.restoring = b])
                               /\ [screen EXCEPT !.restoring = b].name = screen.name
<1>1. ASSUME NEW q \in Products \cup {NoProduct}
      PROVE  Drawn([screen EXCEPT !.busy = q]) /\ [screen EXCEPT !.busy = q].name = screen.name
  BY DEF Drawn, Screens
<1>2. ASSUME NEW b \in BOOLEAN
      PROVE  Drawn([screen EXCEPT !.restoring = b]) /\ [screen EXCEPT !.restoring = b].name = screen.name
  BY DEF Drawn, Screens
<1> QED
  BY <1>1, <1>2 DEF Free

----------------------------------------------------------------------------
(* The initial state and the steps                                          *)

LEMMA InitIInv == Init => IInv
<1> SUFFICES ASSUME Init PROVE IInv
  OBVIOUS
<1>1. FlagsTyped /\ PurchasesTyped
  BY DEF Init, FlagsTyped, PurchasesTyped, Stages
<1>2. CallsTyped
  BY TroubleAssumption DEF Init, CallsTyped, Links, Restores, Stages, NoRestore, Connecting
<1>3. Drawn(screen) /\ OnwardIsPaid
  BY Pages DEF Init, OnwardIsPaid
<1>4. FinishedIsGranted /\ UpdatesGranted /\ RestoreGranted /\ WebhookPaid /\ BeliefsPaid
  BY DEF Init, FinishedIsGranted, UpdatesGranted, RestoreGranted, WebhookPaid, BeliefsPaid,
     NoRestore
<1> QED
  BY <1>1, <1>2, <1>3, <1>4 DEF IInv

LEMMA ConnectKeeps ==
  ASSUME IInv, Connect
  PROVE  IInv'
<1>1. CallsTyped'
  <2>1. link \in Links
    BY DEF IInv, CallsTyped
  <2>3. [link EXCEPT !.phase = "failed", !.ready = FALSE] \in Links
    BY <2>1 DEF Links
  <2>4. [phase |-> "on", connected |-> TRUE, ready |-> TRUE, listening |-> TRUE] \in Links
    BY DEF Links
  <2>2. restore' \in Restores /\ troubles' \in 0..MaxTroubles
    BY TroubleAssumption DEF IInv, CallsTyped, Connect, Trouble
  <2> QED
    BY <2>2, <2>3, <2>4 DEF CallsTyped, Connect
<1>2. FlagsTyped' /\ PurchasesTyped' /\ FinishedIsGranted' /\ UpdatesGranted' /\ BeliefsPaid'
      /\ RestoreGranted' /\ WebhookPaid' /\ Drawn(screen') /\ OnwardIsPaid'
  BY DEF IInv, FlagsTyped, PurchasesTyped, FinishedIsGranted, UpdatesGranted, BeliefsPaid,
     RestoreGranted, WebhookPaid, OnwardIsPaid, Paid, server, provider, Connect
<1> QED
  BY <1>1, <1>2 DEF IInv

LEMMA NewTokenKeeps ==
  ASSUME IInv, NewToken
  PROVE  IInv'
<1>1. granted \subseteq granted'
  BY DEF server, provider, NewToken, Trouble
<1>2. CallsTyped'
  BY TroubleAssumption DEF IInv, CallsTyped, Links, Connecting, server, provider, NewToken, Trouble
<1>3. Drawn(screen')
  <2>1. 0 \in 0..MaxAttempts /\ 0 < MaxAttempts
    BY AttemptsAssumption
  <2>2. Drawn([screen EXCEPT !.poll = "asked", !.attempts = 0])
    BY <2>1 DEF IInv, Drawn, Screens
  <2> QED
    BY <2>2 DEF IInv, NewToken
<1>4. OnwardIsPaid'
  BY <1>1, AttemptsAssumption DEF IInv, OnwardIsPaid, BeliefsPaid, RestoreGranted, Paid, server,
     provider, NewToken, Trouble, Screens
<1>5. FlagsTyped' /\ PurchasesTyped' /\ FinishedIsGranted' /\ UpdatesGranted' /\ BeliefsPaid'
      /\ RestoreGranted' /\ WebhookPaid'
  BY DEF IInv, FlagsTyped, PurchasesTyped, FinishedIsGranted, UpdatesGranted, BeliefsPaid,
     RestoreGranted, WebhookPaid, Paid, server, provider, NewToken
<1> QED
  BY <1>2, <1>3, <1>4, <1>5 DEF IInv

LEMMA LoadProductsKeeps ==
  ASSUME IInv, LoadProducts
  PROVE  IInv'
<1>1. FlagsTyped'
  BY DEF IInv, FlagsTyped, server, provider, LoadProducts
<1>2. CallsTyped'
  BY DEF IInv, CallsTyped, Links, Ensured, server, provider, LoadProducts
<1>3. PurchasesTyped' /\ FinishedIsGranted' /\ UpdatesGranted' /\ BeliefsPaid' /\ RestoreGranted'
      /\ WebhookPaid' /\ Drawn(screen') /\ OnwardIsPaid'
  BY DEF IInv, PurchasesTyped, FinishedIsGranted, UpdatesGranted, BeliefsPaid, RestoreGranted,
     WebhookPaid, OnwardIsPaid, Paid, server, provider, LoadProducts
<1> QED
  BY <1>1, <1>2, <1>3 DEF IInv

LEMMA PurchaseKeeps ==
  ASSUME IInv, NEW p \in Products, Purchase(p)
  PROVE  IInv'
<1>1. granted \subseteq granted'
  BY DEF server, provider, Purchase
<1>2. PurchasesTyped'
  BY DEF IInv, PurchasesTyped, Stages, server, provider, Purchase
<1>3. CallsTyped'
  BY DEF IInv, CallsTyped, Links, Ensured, server, provider, Purchase
<1>4. Drawn(screen')
  BY Buttons DEF IInv, Drawn, server, provider, Purchase
<1>5. OnwardIsPaid'
  BY <1>1, Buttons DEF IInv, OnwardIsPaid, BeliefsPaid, RestoreGranted, Paid, server, provider,
     Purchase
<1>6. FlagsTyped' /\ FinishedIsGranted' /\ UpdatesGranted' /\ BeliefsPaid' /\ RestoreGranted'
      /\ WebhookPaid'
  BY DEF IInv, FlagsTyped, FinishedIsGranted, UpdatesGranted, BeliefsPaid, RestoreGranted,
     WebhookPaid, Paid, server, provider, Purchase
<1> QED
  BY <1>2, <1>3, <1>4, <1>5, <1>6 DEF IInv

LEMMA StoreAnswerKeeps ==
  ASSUME IInv, StoreAnswer
  PROVE  IInv'
<1>1. granted \subseteq granted'
  BY DEF server, provider, StoreAnswer, RejectPending, Trouble
<1>2. PurchasesTyped'
  BY DEF IInv, PurchasesTyped, Stages, server, provider, StoreAnswer, RejectPending, Trouble
<1>3. CallsTyped'
  BY TroubleAssumption DEF IInv, CallsTyped, server, provider, StoreAnswer, RejectPending, Trouble
<1>4. FinishedIsGranted' /\ UpdatesGranted'
  BY <1>1 DEF IInv, PurchasesTyped, FinishedIsGranted, UpdatesGranted, RestoreGranted, server,
     provider, StoreAnswer, RejectPending, Trouble
<1>5. WebhookPaid'
  BY DEF IInv, PurchasesTyped, WebhookPaid, server, provider, StoreAnswer, RejectPending, Trouble
<1>6. Drawn(screen')
  BY Buttons DEF IInv, Drawn, server, provider, StoreAnswer, RejectPending, Trouble
<1>7. OnwardIsPaid'
  BY <1>1, Buttons DEF IInv, OnwardIsPaid, BeliefsPaid, RestoreGranted, Paid, server, provider,
     StoreAnswer, RejectPending, Trouble
<1>8. FlagsTyped' /\ BeliefsPaid' /\ RestoreGranted'
  BY DEF IInv, FlagsTyped, BeliefsPaid, RestoreGranted, Paid, server, provider, StoreAnswer,
     RejectPending
<1> QED
  BY <1>2, <1>3, <1>4, <1>5, <1>6, <1>7, <1>8 DEF IInv

LEMMA StoreDeliverKeeps ==
  ASSUME IInv, NEW p \in Products, StoreDeliver(p)
  PROVE  IInv'
<1>1. granted \subseteq granted'
  BY DEF server, provider, StoreDeliver
<1>2. PurchasesTyped'
  BY DEF IInv, PurchasesTyped, Stages, server, provider, StoreDeliver
<1>3. FinishedIsGranted' /\ UpdatesGranted'
  BY <1>1 DEF IInv, PurchasesTyped, FinishedIsGranted, UpdatesGranted, RestoreGranted, server,
     provider, StoreDeliver
<1>4. WebhookPaid'
  BY DEF IInv, PurchasesTyped, WebhookPaid, server, provider, StoreDeliver
<1>5. FlagsTyped' /\ CallsTyped' /\ BeliefsPaid' /\ RestoreGranted' /\ Drawn(screen')
      /\ OnwardIsPaid'
  BY DEF IInv, FlagsTyped, CallsTyped, BeliefsPaid, RestoreGranted, OnwardIsPaid, Paid, server,
     provider, StoreDeliver
<1> QED
  BY <1>2, <1>3, <1>4, <1>5 DEF IInv

LEMMA HandlePurchaseUpdateKeeps ==
  ASSUME IInv, NEW p \in Products, HandlePurchaseUpdate(p)
  PROVE  IInv'
<1>1. granted \subseteq granted'
  BY DEF server, provider, HandlePurchaseUpdate, Grant, ResolvePending, RejectPending, Trouble
<1>2. FlagsTyped'
  BY DEF IInv, FlagsTyped, server, provider, HandlePurchaseUpdate, Grant, ResolvePending,
     RejectPending, Trouble
<1>3. PurchasesTyped'
  BY DEF IInv, PurchasesTyped, Stages, server, provider, HandlePurchaseUpdate, Grant,
     ResolvePending, RejectPending, Trouble
<1>4. CallsTyped'
  BY TroubleAssumption DEF IInv, CallsTyped, server, provider, HandlePurchaseUpdate, Grant,
     ResolvePending, RejectPending, Trouble
<1>5. FinishedIsGranted' /\ UpdatesGranted'
  BY <1>1 DEF IInv, PurchasesTyped, FinishedIsGranted, UpdatesGranted, RestoreGranted, server,
     provider, HandlePurchaseUpdate, Grant, ResolvePending, RejectPending, Trouble
<1>6. BeliefsPaid'
  <2>1. CASE update[p] = "verify" /\ Grant(p) /\ UNCHANGED resolved
    BY <2>1 DEF IInv, BeliefsPaid, Paid, HandlePurchaseUpdate, Grant
  <2>2. CASE update[p] = "finish" /\ ResolvePending(p) /\ UNCHANGED server
    BY <2>2 DEF IInv, BeliefsPaid, UpdatesGranted, Paid, HandlePurchaseUpdate, ResolvePending,
       server
  <2>3. CASE UNCHANGED server /\ UNCHANGED resolved
    BY <2>3 DEF IInv, BeliefsPaid, Paid, HandlePurchaseUpdate, server
  <2> QED
    BY <2>1, <2>2, <2>3 DEF HandlePurchaseUpdate
<1>7. RestoreGranted'
  BY <1>1 DEF IInv, CallsTyped, Restores, RestoreGranted, NoRestore, Paid, server, provider,
     HandlePurchaseUpdate, Grant, ResolvePending, RejectPending, Trouble
<1>8. WebhookPaid'
  BY DEF IInv, PurchasesTyped, WebhookPaid, server, provider, HandlePurchaseUpdate, Grant,
     ResolvePending, RejectPending, Trouble
<1>9. Drawn(screen')
  BY Buttons DEF IInv, Drawn, server, provider, HandlePurchaseUpdate, Grant, ResolvePending,
     RejectPending, Trouble
<1>10. OnwardIsPaid'
  BY <1>1, <1>6, Buttons DEF IInv, OnwardIsPaid, BeliefsPaid, RestoreGranted, Paid, server,
     provider, HandlePurchaseUpdate, Grant, ResolvePending, RejectPending, Trouble
<1> QED
  BY <1>2, <1>3, <1>4, <1>5, <1>6, <1>7, <1>8, <1>9, <1>10 DEF IInv

LEMMA OpenKeeps ==
  ASSUME IInv, Open
  PROVE  IInv'
<1>1. granted \subseteq granted'
  BY DEF server, provider, Open
<1>2. FlagsTyped'
  BY DEF IInv, FlagsTyped, server, provider, Open
<1>3. BeliefsPaid'
  BY <1>1 DEF IInv, BeliefsPaid, WebhookPaid, FinishedIsGranted, RestoreGranted, Paid, server,
     provider, Open
<1>4. Drawn(screen')
  BY Pages DEF IInv, Drawn, server, provider, Open
<1>5. OnwardIsPaid'
  BY <1>1, <1>3, Pages DEF IInv, OnwardIsPaid, BeliefsPaid, RestoreGranted, Paid, server,
     provider, Open
<1>6. PurchasesTyped' /\ CallsTyped' /\ FinishedIsGranted' /\ UpdatesGranted' /\ RestoreGranted'
      /\ WebhookPaid'
  BY DEF IInv, PurchasesTyped, CallsTyped, FinishedIsGranted, UpdatesGranted, RestoreGranted,
     WebhookPaid, Paid, server, provider, Open
<1> QED
  BY <1>2, <1>3, <1>4, <1>5, <1>6 DEF IInv

LEMMA CloseKeeps ==
  ASSUME IInv, Close
  PROVE  IInv'
<1>1. granted \subseteq granted'
  BY DEF server, provider, Close
<1>2. Drawn(screen')
  BY Pages DEF IInv, Drawn, server, provider, Close
<1>3. OnwardIsPaid'
  BY <1>1, Pages DEF IInv, OnwardIsPaid, BeliefsPaid, RestoreGranted, Paid, server, provider, Close
<1>4. FlagsTyped' /\ PurchasesTyped' /\ CallsTyped' /\ FinishedIsGranted' /\ UpdatesGranted'
      /\ BeliefsPaid' /\ RestoreGranted' /\ WebhookPaid'
  BY DEF IInv, FlagsTyped, PurchasesTyped, CallsTyped, FinishedIsGranted, UpdatesGranted,
     BeliefsPaid, RestoreGranted, WebhookPaid, Paid, server, provider, Close
<1> QED
  BY <1>2, <1>3, <1>4 DEF IInv

LEMMA AlreadyActiveKeeps ==
  ASSUME IInv, AlreadyActive
  PROVE  IInv'
<1>1. granted \subseteq granted'
  BY DEF server, provider, AlreadyActive
<1>2. Drawn(screen')
  BY Pages DEF IInv, Drawn, server, provider, AlreadyActive
<1>3. OnwardIsPaid'
  BY <1>1, Pages DEF IInv, OnwardIsPaid, BeliefsPaid, RestoreGranted, Paid, server, provider,
     AlreadyActive
<1>4. FlagsTyped' /\ PurchasesTyped' /\ CallsTyped' /\ FinishedIsGranted' /\ UpdatesGranted'
      /\ BeliefsPaid' /\ RestoreGranted' /\ WebhookPaid'
  BY DEF IInv, FlagsTyped, PurchasesTyped, CallsTyped, FinishedIsGranted, UpdatesGranted,
     BeliefsPaid, RestoreGranted, WebhookPaid, Paid, server, provider, AlreadyActive
<1> QED
  BY <1>2, <1>3, <1>4 DEF IInv

LEMMA PurchaseDoneKeeps ==
  ASSUME IInv, PurchaseDone
  PROVE  IInv'
<1>1. granted \subseteq granted'
  BY DEF server, provider, PurchaseDone, Trouble
<1>2. FlagsTyped'
  BY DEF IInv, FlagsTyped, server, provider, PurchaseDone, Trouble
<1>3. CallsTyped'
  BY TroubleAssumption DEF IInv, CallsTyped, server, provider, PurchaseDone, Trouble
<1>4. BeliefsPaid'
  BY <1>1 DEF IInv, BeliefsPaid, WebhookPaid, FinishedIsGranted, RestoreGranted, Paid, server,
     provider, PurchaseDone, Trouble
<1>5. Drawn(screen')
  BY Pages DEF IInv, Drawn, server, provider, PurchaseDone, Trouble
<1>6. OnwardIsPaid'
  BY <1>1, <1>4, Pages DEF IInv, OnwardIsPaid, BeliefsPaid, RestoreGranted, Paid, server,
     provider, PurchaseDone, Trouble
<1>7. PurchasesTyped' /\ FinishedIsGranted' /\ UpdatesGranted' /\ RestoreGranted' /\ WebhookPaid'
  BY DEF IInv, PurchasesTyped, FinishedIsGranted, UpdatesGranted, RestoreGranted, WebhookPaid,
     Paid, server, provider, PurchaseDone
<1> QED
  BY <1>2, <1>3, <1>4, <1>5, <1>6, <1>7 DEF IInv

LEMMA HandleRestorePurchasesKeeps ==
  ASSUME IInv, HandleRestorePurchases
  PROVE  IInv'
<1>1. granted \subseteq granted'
  BY DEF server, provider, HandleRestorePurchases
<1>2. CallsTyped'
  BY DEF IInv, CallsTyped, Links, Ensured, Restores, Stages, NoRestore, server, provider,
     HandleRestorePurchases
<1>3. RestoreGranted'
  BY <1>1 DEF IInv, CallsTyped, Restores, RestoreGranted, NoRestore, Paid, server, provider,
     HandleRestorePurchases
<1>4. Drawn(screen')
  BY Buttons DEF IInv, Drawn, server, provider, HandleRestorePurchases
<1>5. OnwardIsPaid'
  BY <1>1, Buttons DEF IInv, OnwardIsPaid, BeliefsPaid, RestoreGranted, Paid, server, provider,
     HandleRestorePurchases
<1>6. FlagsTyped' /\ PurchasesTyped' /\ FinishedIsGranted' /\ UpdatesGranted' /\ BeliefsPaid'
      /\ WebhookPaid'
  BY DEF IInv, FlagsTyped, PurchasesTyped, FinishedIsGranted, UpdatesGranted, BeliefsPaid,
     WebhookPaid, Paid, server, provider, HandleRestorePurchases
<1> QED
  BY <1>2, <1>3, <1>4, <1>5, <1>6 DEF IInv

LEMMA RestoreStepKeeps ==
  ASSUME IInv, RestoreStep
  PROVE  IInv'
<1>1. granted \subseteq granted'
  BY DEF server, provider, RestoreStep, Restored, Grant, Trouble
<1>2. FlagsTyped'
  BY DEF IInv, FlagsTyped, RestoreGranted, server, provider, RestoreStep, Grant
<1>3. PurchasesTyped'
  BY DEF IInv, PurchasesTyped, Stages, server, provider, RestoreStep, Restored, Grant, Trouble
<1>4. CallsTyped' /\ RestoreGranted'
  <2>0. restore \in Restores /\ NoRestore \in Restores /\ ~NoRestore.got /\ NoRestore.pc = "idle"
    BY DEF IInv, CallsTyped, Restores, Stages, NoRestore
  <2>1. ASSUME NEW ps \in SUBSET Products
        PROVE  LET r == [restore EXCEPT !.pc = "next", !.left = ps]
               IN  r \in Restores /\ r.pc = "next" /\ r.got = restore.got
    BY <2>0 DEF Restores, Stages
  <2>2. LET r == [restore EXCEPT !.pc = "refetch"]
        IN  r \in Restores /\ r.pc = "refetch" /\ r.got = restore.got
    BY <2>0 DEF Restores, Stages
  <2>3. ASSUME NEW p \in restore.left
        PROVE  LET r == [restore EXCEPT !.pc = "verify", !.now = p, !.left = @ \ {p}]
               IN  r \in Restores /\ r.pc = "verify" /\ r.now \in Products /\ r.got = restore.got
    BY <2>0 DEF Restores, Stages
  <2>4. LET r == [restore EXCEPT !.pc = "finish", !.got = TRUE]
        IN  r \in Restores /\ r.pc = "finish" /\ r.now = restore.now
    BY <2>0 DEF Restores, Stages
  <2>5. LET r == [restore EXCEPT !.pc = "refetch", !.now = NoProduct, !.left = {}]
        IN  r \in Restores /\ r.pc = "refetch" /\ r.got = restore.got
    BY <2>0 DEF Restores, Stages
  <2>6. LET r == [restore EXCEPT !.pc = "next", !.now = NoProduct]
        IN  r \in Restores /\ r.pc = "next" /\ r.got = restore.got
    BY <2>0 DEF Restores, Stages
  <2>8. \/ restore' = NoRestore
        \/ \E ps \in SUBSET Products : restore' = [restore EXCEPT !.pc = "next", !.left = ps]
        \/ restore' = [restore EXCEPT !.pc = "refetch"]
        \/ \E p \in restore.left : restore' = [restore EXCEPT !.pc = "verify", !.now = p, !.left = @ \ {p}]
        \/ /\ restore.pc = "verify" /\ granted' = granted \cup {restore.now}
           /\ restore' = [restore EXCEPT !.pc = "finish", !.got = TRUE]
        \/ restore' = [restore EXCEPT !.pc = "refetch", !.now = NoProduct, !.left = {}]
        \/ restore' = [restore EXCEPT !.pc = "next", !.now = NoProduct]
    BY DEF RestoreStep, Grant
  <2>9. restore' \in Restores /\ RestoreGranted'
    <3>1. CASE restore' = NoRestore
      BY <1>1, <2>0, <3>1 DEF IInv, RestoreGranted, Paid
    <3>2. CASE \E ps \in SUBSET Products : restore' = [restore EXCEPT !.pc = "next", !.left = ps]
      BY <1>1, <2>1, <3>2 DEF IInv, RestoreGranted, Paid
    <3>3. CASE restore' = [restore EXCEPT !.pc = "refetch"]
      BY <1>1, <2>2, <3>3 DEF IInv, RestoreGranted, Paid
    <3>4. CASE \E p \in restore.left : restore' = [restore EXCEPT !.pc = "verify", !.now = p, !.left = @ \ {p}]
      BY <1>1, <2>3, <3>4 DEF IInv, RestoreGranted, Paid
    <3>5. CASE /\ restore.pc = "verify" /\ granted' = granted \cup {restore.now}
              /\ restore' = [restore EXCEPT !.pc = "finish", !.got = TRUE]
      BY <1>1, <2>4, <3>5 DEF IInv, RestoreGranted, Paid
    <3>6. CASE restore' = [restore EXCEPT !.pc = "refetch", !.now = NoProduct, !.left = {}]
      BY <1>1, <2>5, <3>6 DEF IInv, RestoreGranted, Paid
    <3>7. CASE restore' = [restore EXCEPT !.pc = "next", !.now = NoProduct]
      BY <1>1, <2>6, <3>7 DEF IInv, RestoreGranted, Paid
    <3> QED
      BY <2>8, <3>1, <3>2, <3>3, <3>4, <3>5, <3>6, <3>7
  <2>10. link' = link /\ (UNCHANGED troubles \/ Trouble)
    BY DEF RestoreStep, provider
  <2> QED
    BY <2>9, <2>10, TroubleAssumption DEF IInv, CallsTyped, Trouble
<1>5. FinishedIsGranted' /\ UpdatesGranted'
  BY <1>1 DEF IInv, PurchasesTyped, FinishedIsGranted, UpdatesGranted, RestoreGranted, server,
     provider, RestoreStep, Restored, Grant, Trouble
<1>6. BeliefsPaid'
  <2>1. CASE restore.pc = "verify" /\ Grant(restore.now)
    BY <2>1 DEF IInv, BeliefsPaid, Paid, RestoreStep, Grant
  <2>2. CASE UNCHANGED server
    BY <2>2 DEF IInv, BeliefsPaid, Paid, RestoreStep, server
  <2> QED
    BY <2>1, <2>2 DEF RestoreStep, server
<1>7. WebhookPaid'
  BY DEF IInv, PurchasesTyped, WebhookPaid, server, provider, RestoreStep, Restored, Grant, Trouble
<1>8. Drawn(screen')
  BY Buttons DEF IInv, Drawn, server, provider, RestoreStep, Restored, Grant, Trouble
<1>9. OnwardIsPaid'
  BY <1>1, <1>6, Buttons DEF IInv, OnwardIsPaid, BeliefsPaid, RestoreGranted, Paid, server,
     provider, RestoreStep, Restored, Grant, Trouble
<1> QED
  BY <1>2, <1>3, <1>4, <1>5, <1>6, <1>7, <1>8, <1>9 DEF IInv

LEMMA RestoreDoneKeeps ==
  ASSUME IInv, RestoreDone
  PROVE  IInv'
<1>1. granted \subseteq granted'
  BY DEF server, provider, RestoreDone, Restored, Trouble
<1>2. FlagsTyped'
  BY DEF IInv, FlagsTyped, server, provider, RestoreDone, Restored, Trouble
<1>3. CallsTyped'
  BY TroubleAssumption DEF IInv, CallsTyped, Restores, Stages, NoRestore, server, provider,
     RestoreDone, Restored, Trouble
<1>4. BeliefsPaid'
  BY <1>1 DEF IInv, BeliefsPaid, WebhookPaid, FinishedIsGranted, RestoreGranted, Paid, server,
     provider, RestoreDone, Restored, Trouble
<1>5. RestoreGranted'
  BY <1>1 DEF IInv, CallsTyped, Restores, RestoreGranted, NoRestore, Paid, server, provider,
     RestoreDone, Restored, Trouble
<1>6. Drawn(screen')
  BY Pages, Buttons DEF IInv, Drawn, server, provider, RestoreDone, Restored, Trouble
<1>7. OnwardIsPaid'
  BY <1>1, <1>4, Pages, Buttons DEF IInv, OnwardIsPaid, BeliefsPaid, RestoreGranted, Paid, server,
     provider, RestoreDone, Restored, Trouble
<1>8. PurchasesTyped' /\ FinishedIsGranted' /\ UpdatesGranted' /\ WebhookPaid'
  BY DEF IInv, PurchasesTyped, FinishedIsGranted, UpdatesGranted, WebhookPaid, server, provider,
     RestoreDone, Restored
<1> QED
  BY <1>2, <1>3, <1>4, <1>5, <1>6, <1>7, <1>8 DEF IInv

LEMMA CheckoutKeeps ==
  ASSUME IInv, Checkout
  PROVE  IInv'
<1>1. granted \subseteq granted'
  BY DEF server, provider, Checkout
<1>2. FlagsTyped'
  BY DEF IInv, FlagsTyped, server, provider, Checkout
<1>3. BeliefsPaid'
  BY <1>1 DEF IInv, BeliefsPaid, WebhookPaid, FinishedIsGranted, RestoreGranted, Paid, server,
     provider, Checkout
<1>4. Drawn(screen')
  BY Pages DEF IInv, Drawn, server, provider, Checkout
<1>5. OnwardIsPaid'
  BY <1>1, <1>3, Pages DEF IInv, OnwardIsPaid, BeliefsPaid, RestoreGranted, Paid, server,
     provider, Checkout
<1>6. PurchasesTyped' /\ CallsTyped' /\ FinishedIsGranted' /\ UpdatesGranted' /\ RestoreGranted'
      /\ WebhookPaid'
  BY DEF IInv, PurchasesTyped, CallsTyped, FinishedIsGranted, UpdatesGranted, RestoreGranted,
     WebhookPaid, Paid, server, provider, Checkout
<1> QED
  BY <1>2, <1>3, <1>4, <1>5, <1>6 DEF IInv

LEMMA ReturnKeeps ==
  ASSUME IInv, NEW p \in Products, Return(p)
  PROVE  IInv'
<1>1. granted \subseteq granted'
  BY DEF server, provider, Return
<1>2. FlagsTyped'
  BY DEF IInv, FlagsTyped, server, provider, Return
<1>3. PurchasesTyped'
  BY DEF IInv, PurchasesTyped, Stages, server, provider, Return
<1>4. FinishedIsGranted' /\ UpdatesGranted'
  BY <1>1 DEF IInv, PurchasesTyped, FinishedIsGranted, UpdatesGranted, RestoreGranted, server,
     provider, Return
<1>5. WebhookPaid'
  BY DEF IInv, PurchasesTyped, WebhookPaid, server, provider, Return
<1>6. Drawn(screen')
  BY Pages DEF IInv, Drawn, server, provider, Return
<1>7. OnwardIsPaid'
  BY <1>1, Pages DEF IInv, OnwardIsPaid, BeliefsPaid, RestoreGranted, Paid, server, provider, Return
<1>8. CallsTyped' /\ BeliefsPaid' /\ RestoreGranted'
  BY DEF IInv, CallsTyped, BeliefsPaid, RestoreGranted, Paid, server, provider, Return
<1> QED
  BY <1>2, <1>3, <1>4, <1>5, <1>6, <1>7, <1>8 DEF IInv

LEMMA WebhookKeeps ==
  ASSUME IInv, Webhook
  PROVE  IInv'
<1>1. granted \subseteq granted'
  BY DEF server, provider, Webhook
<1>2. FlagsTyped'
  BY DEF IInv, FlagsTyped, server, provider, Webhook
<1>3. PurchasesTyped'
  BY DEF IInv, PurchasesTyped, Stages, server, provider, Webhook
<1>4. FinishedIsGranted' /\ UpdatesGranted'
  BY <1>1 DEF IInv, PurchasesTyped, FinishedIsGranted, UpdatesGranted, RestoreGranted, server,
     provider, Webhook
<1>5. BeliefsPaid'
  BY <1>1 DEF IInv, BeliefsPaid, WebhookPaid, FinishedIsGranted, RestoreGranted, Paid, server,
     provider, Webhook
<1>6. RestoreGranted'
  BY <1>1 DEF IInv, CallsTyped, Restores, RestoreGranted, NoRestore, Paid, server, provider, Webhook
<1>7. WebhookPaid'
  BY DEF IInv, PurchasesTyped, WebhookPaid, server, provider, Webhook
<1>8. OnwardIsPaid'
  BY <1>1, <1>5 DEF IInv, OnwardIsPaid, BeliefsPaid, RestoreGranted, Paid, server, provider, Webhook
<1>9. CallsTyped' /\ Drawn(screen')
  BY DEF IInv, CallsTyped, server, provider, Webhook
<1> QED
  BY <1>2, <1>3, <1>4, <1>5, <1>6, <1>7, <1>8, <1>9 DEF IInv

LEMMA PollAnswerKeeps ==
  ASSUME IInv, PollAnswer
  PROVE  IInv'
<1>1. granted \subseteq granted'
  BY DEF server, provider, PollAnswer, Trouble
<1>2. FlagsTyped'
  BY DEF IInv, FlagsTyped, server, provider, PollAnswer, Trouble
<1>3. CallsTyped'
  BY TroubleAssumption DEF IInv, CallsTyped, server, provider, PollAnswer, Trouble
<1>4. BeliefsPaid'
  BY <1>1 DEF IInv, BeliefsPaid, WebhookPaid, FinishedIsGranted, RestoreGranted, Paid, server,
     provider, PollAnswer, Trouble
<1>5. Drawn(screen')
  <2> DEFINE again == [screen EXCEPT !.attempts = @ + 1,
                         !.poll = IF screen.attempts + 1 < MaxAttempts THEN "timer" ELSE "over"]
  <2>1. screen.attempts \in Nat /\ screen.attempts < MaxAttempts
    BY DEF IInv, Drawn, Screens, PollAnswer
  <2>2. screen.attempts + 1 \in 0..MaxAttempts
    BY <2>1, AttemptsAssumption
  <2>6. ASSUME NEW poll \in {"timer", "over"}
        PROVE  [screen EXCEPT !.attempts = @ + 1, !.poll = poll] \in Screens
    BY <2>2 DEF IInv, Drawn, Screens
  <2>3. again.poll = "timer" => again.attempts < MaxAttempts
    BY <2>1 DEF IInv, Drawn, Screens
  <2>4. again.poll # "asked"
    BY DEF IInv, Drawn, Screens
  <2>5. Drawn(again)
    BY <2>3, <2>4, <2>6 DEF Drawn
  <2> QED
    BY <2>5, Pages DEF PollAnswer
<1>6. OnwardIsPaid'
  BY <1>1, <1>4, Pages DEF IInv, OnwardIsPaid, BeliefsPaid, RestoreGranted, Paid, server,
     provider, PollAnswer, Trouble, Screens
<1>7. PurchasesTyped' /\ FinishedIsGranted' /\ UpdatesGranted' /\ RestoreGranted' /\ WebhookPaid'
  BY DEF IInv, PurchasesTyped, FinishedIsGranted, UpdatesGranted, RestoreGranted, WebhookPaid,
     Paid, server, provider, PollAnswer
<1> QED
  BY <1>2, <1>3, <1>4, <1>5, <1>6, <1>7 DEF IInv

LEMMA PollTimerKeeps ==
  ASSUME IInv, PollTimer
  PROVE  IInv'
<1>1. granted \subseteq granted'
  BY DEF server, provider, PollTimer
<1>2. Drawn(screen')
  BY DEF IInv, Drawn, server, provider, PollTimer, Screens
<1>3. OnwardIsPaid'
  BY <1>1 DEF IInv, OnwardIsPaid, BeliefsPaid, RestoreGranted, Paid, server, provider, PollTimer,
     Screens
<1>4. FlagsTyped' /\ PurchasesTyped' /\ CallsTyped' /\ FinishedIsGranted' /\ UpdatesGranted'
      /\ BeliefsPaid' /\ RestoreGranted' /\ WebhookPaid'
  BY DEF IInv, FlagsTyped, PurchasesTyped, CallsTyped, FinishedIsGranted, UpdatesGranted,
     BeliefsPaid, RestoreGranted, WebhookPaid, Paid, server, provider, PollTimer
<1> QED
  BY <1>2, <1>3, <1>4 DEF IInv

LEMMA LapseKeeps ==
  ASSUME IInv, Lapse
  PROVE  IInv'
<1>1. granted \subseteq granted'
  BY DEF server, provider, Lapse, Trouble
<1>2. FlagsTyped'
  BY DEF IInv, FlagsTyped, server, provider, Lapse, Trouble
<1>3. CallsTyped'
  BY TroubleAssumption DEF IInv, CallsTyped, server, provider, Lapse, Trouble
<1>4. BeliefsPaid'
  BY <1>1 DEF IInv, BeliefsPaid, WebhookPaid, FinishedIsGranted, RestoreGranted, Paid, server,
     provider, Lapse, Trouble
<1>5. PurchasesTyped' /\ FinishedIsGranted' /\ UpdatesGranted' /\ RestoreGranted' /\ WebhookPaid'
      /\ Drawn(screen') /\ OnwardIsPaid'
  BY DEF IInv, PurchasesTyped, FinishedIsGranted, UpdatesGranted, RestoreGranted, WebhookPaid,
     OnwardIsPaid, Paid, server, provider, Lapse
<1> QED
  BY <1>2, <1>3, <1>4, <1>5 DEF IInv

LEMMA StepIInv == IInv /\ [Next]_vars => IInv'
<1> SUFFICES ASSUME IInv, [Next]_vars PROVE IInv'
  OBVIOUS
<1>1. CASE Handlers
  BY <1>1, ConnectKeeps, LoadProductsKeeps, AlreadyActiveKeeps, PurchaseDoneKeeps, RestoreStepKeeps,
     RestoreDoneKeeps, PollAnswerKeeps, PollTimerKeeps, HandlePurchaseUpdateKeeps DEF Handlers
<1>2. CASE NewToken \/ StoreAnswer \/ Webhook \/ Lapse
  BY <1>2, NewTokenKeeps, StoreAnswerKeeps, WebhookKeeps, LapseKeeps
<1>3. CASE Open \/ Close \/ HandleRestorePurchases \/ Checkout
  BY <1>3, OpenKeeps, CloseKeeps, HandleRestorePurchasesKeeps, CheckoutKeeps
<1>4. CASE \E p \in Products : Purchase(p) \/ StoreDeliver(p) \/ Return(p)
  BY <1>4, PurchaseKeeps, StoreDeliverKeeps, ReturnKeeps
<1>5. CASE UNCHANGED vars
  BY <1>5 DEF vars, server, provider, IInv, FlagsTyped, PurchasesTyped, CallsTyped,
     FinishedIsGranted,
     OnwardIsPaid, UpdatesGranted, RestoreGranted, WebhookPaid, BeliefsPaid, Paid
<1> QED
  BY <1>1, <1>2, <1>3, <1>4, <1>5 DEF Next

----------------------------------------------------------------------------
(* The theorems                                                             *)

(* Whatever the store repeats or defers, with listeners that come and go    *)
(* and a restore beside an update of the same transaction: a transaction    *)
(* is finished, and a user is taken on to the report, only after the server *)
(* granted something (handlePurchaseUpdate, restorePurchases, the poll of   *)
(* paywall.tsx).                                                            *)
THEOREM StoreInvariant == Spec => []PaidIsGranted
<1>1. IInv => PaidIsGranted
  BY Typing DEF IInv, Drawn, PaidIsGranted
<1> QED
  BY InitIInv, StepIInv, <1>1, PTL DEF Spec

\* The one step that resolves a promise has just finished its transaction.
LEMMA ResolvesFinished ==
  ASSUME IInv, Next, resolved', ~resolved
  PROVE  store'[pending] = "finished"
<1>1. PICK p \in Products : HandlePurchaseUpdate(p)
  BY DEF Next, Handlers, Connect, LoadProducts, AlreadyActive, PurchaseDone, RestoreStep,
     RestoreDone,
     PollAnswer, PollTimer, NewToken, StoreAnswer, Webhook, Lapse, Open, Close, HandleRestorePurchases,
     Checkout, Purchase, StoreDeliver, Return
<1>2. store' = [store EXCEPT ![p] = "finished"] /\ pending = p
  BY <1>1 DEF HandlePurchaseUpdate, ResolvePending
<1> QED
  BY <1>2 DEF IInv, PurchasesTyped

(* A purchase is answered with success only when the transaction of its own *)
(* product is finished, and hence granted: the test of productId in         *)
(* handlePurchaseUpdate.                                                    *)
THEOREM AnswersOwnPurchase == Spec => AnsweredIsBought
<1>1. IInv /\ [Next]_vars => [resolved' /\ ~resolved => store'[pending] = "finished"]_vars
  BY ResolvesFinished
<1> QED
  BY InitIInv, StepIInv, <1>1, PTL DEF Spec, AnsweredIsBought

----------------------------------------------------------------------------
(* The profile: proofs about ClientProfile, which shares no state with the   *)
(* store, for any answers a question offers and every bound.                 *)

CONSTANTS Options, None, MaxPresses, MaxProfileTroubles, MaxEvents
VARIABLES signed, revoked, prof, cache, flight, mode, quiz, direction, moving, profileScreen,
          form, save, flow, notify, presses, profileTroubles

P == INSTANCE ClientProfile WITH
         MaxTroubles <- MaxProfileTroubles, screen <- profileScreen, troubles <- profileTroubles

----------------------------------------------------------------------------
(* What the helpers return                                                 *)

\* An answer, or none, to each question is a quiz.
LEMMA QuizOK ==
    ASSUME NEW f, f = [q \in P!Questions |-> f[q]], \A q \in P!Questions : f[q] \in Options[q] \cup {None}
    PROVE  f \in P!Quizzes
<1>1. ASSUME NEW q \in P!Questions PROVE f[q] \in P!Answers
  <2>1. Options[q] \in {Options[r] : r \in P!Questions} OBVIOUS
  <2>2. Options[q] \subseteq P!Answers BY <2>1, Zenon DEF P!Answers
  <2>3. None \in P!Answers BY DEF P!Answers
  <2>. QED BY <2>2, <2>3
<1>2. f \in [P!Questions -> P!Answers] BY <1>1
<1>. QED BY <1>2 DEF P!Quizzes

\* The quiz that was not filled in is one.
LEMMA BlankOK == P!Blank \in P!Quizzes
BY QuizOK DEF P!Blank

\* Where the screens of the quiz lead, and what they ask.
LEMMA StepsOK ==
    ASSUME P!ProfileAssumption
    PROVE  /\ DOMAIN P!Steps \subseteq P!Auth /\ "sc06" \in DOMAIN P!Steps /\ "sc02" \in DOMAIN P!Steps
           /\ "tabs" \notin DOMAIN P!Steps
           /\ \A s \in DOMAIN P!Steps : /\ P!Steps[s].next \in DOMAIN P!Steps \cup {"sc07"}
                                      /\ P!Steps[s].back \in DOMAIN P!Steps \cup {None}
                                      /\ P!Steps[s].asks \in P!Questions \cup {None}
BY DEF P!ProfileAssumption, P!Steps, P!Auth, P!Card, P!Ask, P!Sc00, P!Sc01, P!Sc01b, P!Sc02, P!Sc03, P!Sc04, P!Sc05, P!Sc06

\* A form is one whether there is a profile or not.
LEMMA FormOK ==
    ASSUME P!ProfileAssumption, NEW p \in P!Profiles \cup {None}
    PROVE  P!FormOf(p) \in P!Forms
BY DEF P!ProfileAssumption, P!FormOf, P!Forms, P!Profiles, P!Languages

\* The types of what a navigation writes.
Placed ==
    /\ profileScreen \in P!Auth \cup {"tabs", "settings"} /\ moving \in DOMAIN P!Steps \cup {"sc07", None}
    /\ form \in P!Forms
    /\ mode \in {"onboarding", "retake"} /\ quiz \in P!Quizzes /\ direction \in {"forward", "backward"}

\* A navigation keeps them, and leaves nothing that moves.
LEMMA GoesOK ==
    ASSUME P!ProfileAssumption, P!TypeOK,
           NEW to \in P!Auth \cup {"tabs", "settings"}, NEW f \in P!Forms, P!Goes(to, f)
    PROVE  Placed' /\ profileScreen' = to /\ moving' = None /\ form' = f
BY BlankOK DEF P!Goes, P!Reset, P!TypeOK, Placed

\* The screens that have no form go to the one settings starts with.
LEMMA GoOK ==
    ASSUME P!ProfileAssumption, P!TypeOK, NEW to \in P!Auth \cup {"tabs", "settings"}, P!Go(to)
    PROVE  Placed' /\ profileScreen' = to /\ moving' = None
<1>1. None \in P!Profiles \cup {None} OBVIOUS
<1>2. P!FormOf(None) \in P!Forms BY <1>1, FormOK
<1>. QED BY <1>2, GoesOK DEF P!Go

\* A save under way is one of the two, and what it writes over a profile is one.
LEMMA WrittenOK ==
    ASSUME P!ProfileAssumption, P!TypeOK, save # P!NoSave, NEW p \in P!Profiles
    PROVE  /\ P!Written(p) \in P!Profiles /\ P!Written(p) # None
           /\ p.alpha \in BOOLEAN
<1>1. CASE save \in [kind : {"settings"}, to : P!Forms]
  <2>1. save.kind = "settings" /\ save.to.lang \in P!Languages /\ save.to.alpha \in BOOLEAN BY <1>1 DEF P!Forms
  <2>2. P!Written(p) = [answers |-> p.answers, lang |-> save.to.lang, alpha |-> save.to.alpha] BY <2>1 DEF P!Written
  <2>. QED BY <2>1, <2>2 DEF P!Profiles, P!ProfileAssumption
<1>2. CASE save \in [kind : {"retake"}, to : P!Quizzes]
  <2>1. save.kind = "retake" /\ save.to \in P!Quizzes BY <1>2
  <2>2. P!Written(p) = [p EXCEPT !.answers = save.to] BY <2>1 DEF P!Written
  <2>. QED BY <2>1, <2>2 DEF P!Profiles, P!ProfileAssumption
<1>. QED BY <1>1, <1>2 DEF P!TypeOK

\* What sign-in writes is a profile with the market alerts as they were, and
\* with an answer for each one the user gave.
LEMMA UpdatesOK ==
    ASSUME P!ProfileAssumption, P!TypeOK
    PROVE  /\ P!Updates \in P!Profiles /\ P!Updates.alpha = prof.alpha
           /\ \A q \in P!Questions : flow.answers[q] # None => P!Updates.answers[q] = flow.answers[q]
           /\ flow.lang => P!Updates.lang = prof.lang
<1>1. prof.answers \in P!Quizzes /\ prof.lang \in P!Languages /\ prof.alpha \in BOOLEAN BY DEF P!TypeOK, P!Profiles
<1>2. flow.answers \in P!Quizzes /\ flow.lang \in BOOLEAN BY DEF P!TypeOK, P!Flows
<1>3. P!Merge(flow.answers) \in P!Quizzes BY <1>1, <1>2 DEF P!Merge, P!Quizzes
<1>4. (IF flow.lang THEN prof.lang ELSE "device") \in P!Languages BY <1>1 DEF P!Languages
<1>5. \A q \in P!Questions : flow.answers[q] # None => P!Merge(flow.answers)[q] = flow.answers[q] BY DEF P!Merge
<1>. QED BY <1>1, <1>2, <1>3, <1>4, <1>5 DEF P!Updates, P!Profiles

----------------------------------------------------------------------------
(* Types                                                                   *)

\* A profile, a form or a quiz is what it is made of.
LEMMA DataOK ==
    ASSUME P!ProfileAssumption, P!TypeOK
    PROVE  /\ prof # None
           /\ cache # None => cache \in P!Profiles
           /\ flight # None => flight \in P!Profiles
           /\ \A p \in P!Profiles : p.answers \in P!Quizzes /\ p.lang \in P!Languages /\ p.alpha \in BOOLEAN
BY DEF P!ProfileAssumption, P!TypeOK, P!Profiles

\* The code of the quiz keeps the types.
LEMMA QuizTypes ==
    ASSUME P!ProfileAssumption, P!TypeOK,
           \/ \E q \in P!Questions : \E option \in Options[q] : P!Choose(option)
           \/ \E d \in {"forward", "backward"} : P!Exit(d)
           \/ P!Arrive \/ P!Back \/ P!Email
    PROVE  P!TypeOK'
<1>1. ASSUME NEW r \in P!Questions, NEW option \in Options[r], P!Choose(option) PROVE P!TypeOK'
  <2>. DEFINE q == P!Steps[profileScreen].asks
  <2>1. q \in P!Questions /\ option \in Options[q] BY <1>1, StepsOK DEF P!Choose
  <2>2. PICK x \in Options[q] \cup {None} : quiz' = [quiz EXCEPT ![q] = x] BY <1>1, <2>1 DEF P!Choose
  <2>. HIDE DEF q
  <2>3. quiz' \in P!Quizzes
    <3>1. quiz = [k \in P!Questions |-> quiz[k]] /\ \A k \in P!Questions : quiz[k] \in Options[k] \cup {None}
      BY DEF P!TypeOK, P!Quizzes
    <3>2. quiz' = [k \in P!Questions |-> quiz'[k]] /\ \A k \in P!Questions : quiz'[k] \in Options[k] \cup {None}
      BY <2>1, <2>2, <3>1
    <3>. QED BY <3>2, QuizOK
  <2>. QED BY <1>1, <2>3 DEF P!Choose, P!handlers, P!query, P!TypeOK
<1>2. ASSUME NEW d \in {"forward", "backward"}, P!Exit(d) PROVE P!TypeOK'
  <2>1. moving' \in DOMAIN P!Steps \cup {"sc07", None} /\ direction' \in {"forward", "backward"}
    BY <1>2, StepsOK DEF P!Exit, P!Exits, P!TypeOK
  <2>. QED BY <1>2, <2>1 DEF P!Exit, P!handlers, P!query, P!TypeOK
<1>3. CASE P!Arrive
  <2>1. moving \in P!Auth \cup {"tabs", "settings"} BY <1>3, StepsOK DEF P!Arrive, P!TypeOK, P!Auth
  <2>2. P!Go(moving) BY <1>3 DEF P!Arrive
  <2>3. Placed'
    BY <2>1, <2>2, GoOK
  <2>. QED BY <1>3, <2>3 DEF P!Arrive, P!handlers, P!query, P!TypeOK, Placed
<1>4. ASSUME P!Back \/ P!Email PROVE P!TypeOK'
  <2>1. PICK to \in P!Auth \cup {"tabs", "settings"} : P!Go(to) BY <1>4 DEF P!Back, P!Email, P!Auth
  <2>2. Placed'
    BY <2>1, GoOK
  <2>. QED BY <1>4, <2>2 DEF P!Back, P!Email, P!handlers, P!query, P!TypeOK, Placed
<1>. QED BY <1>1, <1>2, <1>3, <1>4

\* Sign-in keeps the types.
LEMMA SignInTypes ==
    ASSUME P!ProfileAssumption, P!TypeOK,
           P!SignIn \/ P!Login \/ P!FetchProfile \/ P!PatchProfile \/ P!FetchEntitlement
    PROVE  P!TypeOK'
<1>. USE DEF P!ProfileAssumption, P!handlers, P!query, P!store
<1>1. CASE P!SignIn
  <2>2. flow' \in P!Flows BY <1>1 DEF P!SignIn, P!TypeOK, P!Flows
  <2>1. presses' \in 0..MaxPresses BY <1>1 DEF P!SignIn, P!Press, P!TypeOK
  <2>. QED BY <1>1, <2>1, <2>2 DEF P!SignIn, P!TypeOK
<1>2. ASSUME P!Trouble \/ UNCHANGED profileTroubles PROVE profileTroubles' \in 0..MaxProfileTroubles
  BY <1>2 DEF P!Trouble, P!TypeOK
<1>3. CASE P!Login
  <2>1. flow' \in P!Flows
    BY <1>3, BlankOK DEF P!Login, P!TypeOK, P!NoFlow, P!Flows
  <2>2. profileTroubles' \in 0..MaxProfileTroubles BY <1>2, <1>3 DEF P!Login
  <2>3. {signed', revoked'} \subseteq BOOLEAN BY <1>3, Zenon DEF P!Login, P!TypeOK
  <2>. QED BY <1>3, <2>1, <2>2, <2>3 DEF P!Login, P!TypeOK
<1>4. CASE P!FetchProfile
  <2>1. flow' \in P!Flows
    <3>1. PICK spoken \in BOOLEAN : flow' = [pc |-> "patch", answers |-> flow.answers, lang |-> spoken]
                                   \/ flow' = [flow EXCEPT !.pc = "patch"]
      BY <1>4, Zenon DEF P!FetchProfile
    <3>. QED BY <3>1 DEF P!TypeOK, P!Flows
  <2>2. profileTroubles' \in 0..MaxProfileTroubles BY <1>2, <1>4 DEF P!FetchProfile
  <2>. QED BY <1>4, <2>1, <2>2 DEF P!FetchProfile, P!TypeOK
<1>5. CASE P!PatchProfile
  <2>1. flow' \in P!Flows
    BY <1>5 DEF P!PatchProfile, P!TypeOK, P!Flows
  <2>2. profileTroubles' \in 0..MaxProfileTroubles BY <1>2, <1>5 DEF P!PatchProfile
  <2>3. prof' \in P!Profiles BY <1>5, UpdatesOK DEF P!PatchProfile, P!TypeOK
  <2>4. mode' \in {"onboarding", "retake"} /\ quiz' \in P!Quizzes /\ direction' \in {"forward", "backward"}
    BY <1>5, BlankOK DEF P!PatchProfile, P!Reset
  <2>. QED BY <1>5, <2>1, <2>2, <2>3, <2>4 DEF P!PatchProfile, P!TypeOK
<1>6. CASE P!FetchEntitlement
  <2>1. flow' \in P!Flows
    BY <1>6, BlankOK DEF P!FetchEntitlement, P!NoFlow, P!Flows
  <2>2. Placed'
    BY <1>6, GoOK DEF P!FetchEntitlement
  <2>. QED BY <1>6, <2>1, <2>2 DEF P!FetchEntitlement, P!TypeOK, Placed
<1>. QED BY <1>1, <1>3, <1>4, <1>5, <1>6

\* The gate, the sign-out and the query keep the types.
LEMMA GateTypes ==
    ASSUME P!ProfileAssumption, P!TypeOK,
           P!AuthGate \/ P!SignOut \/ P!Revoke \/ P!Refresh \/ P!Answer
    PROVE  P!TypeOK'
<1>. USE DEF P!ProfileAssumption, P!handlers, P!query, P!store
<1>2. ASSUME P!Trouble \/ UNCHANGED profileTroubles PROVE profileTroubles' \in 0..MaxProfileTroubles
  BY <1>2 DEF P!Trouble, P!TypeOK
<1>3. ASSUME P!AuthGate \/ P!SignOut
      PROVE  Placed'
  <2>1. PICK to \in {"sc00", "tabs"} : P!Go(to) BY <1>3 DEF P!AuthGate, P!SignOut
  <2>2. to \in P!Auth \cup {"tabs", "settings"} BY DEF P!Auth, P!Steps
  <2>. QED BY <2>1, <2>2, GoOK
<1>4. CASE P!AuthGate BY <1>3, <1>4 DEF P!AuthGate, P!TypeOK, Placed
<1>5. CASE P!SignOut
  <2>1. presses' \in 0..MaxPresses BY <1>5 DEF P!SignOut, P!Press, P!TypeOK
  <2>. QED BY <1>3, <1>5, <2>1 DEF P!SignOut, P!Forget, P!TypeOK, Placed
<1>6. CASE P!Revoke BY <1>2, <1>6 DEF P!Revoke, P!TypeOK
<1>7. CASE P!Refresh BY <1>7 DEF P!Refresh, P!TypeOK
<1>8. CASE P!Answer
  <2>1. cache' \in P!Profiles \cup {None} /\ flight' = None
        /\ signed' \in BOOLEAN /\ (P!Trouble \/ UNCHANGED profileTroubles)
    BY <1>8 DEF P!Answer, P!TypeOK
  <2>2. form' \in P!Forms
    <3>1. ASSUME NEW p \in {flight, prof}, form' = IF profileScreen = "settings" /\ p # cache THEN P!FormOf(p) ELSE form
          PROVE  form' \in P!Forms
      <4>1. p \in P!Profiles \cup {None} BY DEF P!TypeOK
      <4>2. P!FormOf(p) \in P!Forms BY <4>1, FormOK
      <4>. QED BY <3>1, <4>2 DEF P!TypeOK
    <3>. QED BY <1>8, <3>1 DEF P!Answer, P!TypeOK
  <2>. QED BY <1>2, <1>8, <2>1, <2>2 DEF P!Answer, P!TypeOK
<1>. QED BY <1>4, <1>5, <1>6, <1>7, <1>8

\* Settings, the saves and the prompt keep the types.
LEMMA SettingsTypes ==
    ASSUME P!ProfileAssumption, P!TypeOK,
           \/ P!OpenSettings \/ P!Edit \/ P!Save \/ P!Retake \/ P!SaveRetake \/ P!SaveEnds
           \/ P!Notify \/ P!NotifyAnswer \/ P!NotifyCloses \/ P!Delete
    PROVE  P!TypeOK'
<1>. USE DEF P!ProfileAssumption, P!handlers, P!query, P!store
<1>1. ASSUME P!Trouble \/ UNCHANGED profileTroubles PROVE profileTroubles' \in 0..MaxProfileTroubles
  BY <1>1 DEF P!Trouble, P!TypeOK
<1>2. ASSUME P!Press PROVE presses' \in 0..MaxPresses BY <1>2 DEF P!Press, P!TypeOK
<1>3. CASE P!OpenSettings
  <2>1. P!FormOf(cache) \in P!Forms BY FormOK DEF P!TypeOK
  <2>2. Placed' BY <1>3, <2>1, GoesOK DEF P!OpenSettings
  <2>. QED BY <1>3, <2>2 DEF P!OpenSettings, P!TypeOK, Placed
<1>4. CASE P!Edit
  <2>1. form' \in P!Forms BY <1>4 DEF P!Edit, P!TypeOK, P!Forms
  <2>. QED BY <1>4, <2>1 DEF P!Edit, P!TypeOK
<1>5. CASE P!Save
  <2>1. save' \in [kind : {"settings"}, to : P!Forms] BY <1>5 DEF P!Save, P!TypeOK
  <2>. QED BY <1>2, <1>5, <2>1 DEF P!Save, P!TypeOK
<1>6. CASE P!Retake
  <2>1. quiz' \in P!Quizzes BY <1>6, BlankOK, DataOK DEF P!Retake
  <2>2. None \in P!Profiles \cup {None} OBVIOUS
  <2>3. form' \in P!Forms BY <1>6, <2>2, FormOK DEF P!Retake
  <2>4. profileScreen' \in P!Auth BY <1>6, StepsOK DEF P!Retake
  <2>. QED BY <1>6, <2>1, <2>3, <2>4 DEF P!Retake, P!TypeOK
<1>7. CASE P!SaveRetake
  <2>1. save' \in [kind : {"retake"}, to : P!Quizzes] BY <1>7 DEF P!SaveRetake, P!TypeOK
  <2>. QED BY <1>2, <1>7, <2>1 DEF P!SaveRetake, P!TypeOK
<1>8. CASE P!SaveEnds
  <2>1. CASE UNCHANGED <<prof, P!query, form, P!store, profileScreen>> /\ (P!Trouble \/ UNCHANGED profileTroubles)
    BY <1>1, <1>8, <2>1 DEF P!SaveEnds, P!TypeOK
  <2>2. CASE /\ prof' = P!Written(prof) /\ P!Saved /\ UNCHANGED profileTroubles
             /\ IF save.kind = "retake" THEN P!Goes("settings", P!FormOf(cache'))
                ELSE P!Go(IF profileScreen \in DOMAIN P!Steps /\ P!Steps[profileScreen].back # None
                        THEN P!Steps[profileScreen].back ELSE "tabs")
    <3>1. save # P!NoSave BY <1>8 DEF P!SaveEnds
    <3>2. prof' \in P!Profiles /\ flight' \in P!Profiles BY <2>2, <3>1, WrittenOK DEF P!Saved, P!TypeOK
    <3>3. cache' \in P!Profiles \cup {None} BY <2>2, <3>1, WrittenOK DEF P!Saved, P!TypeOK
    <3>4. Placed'
      <4>1. P!FormOf(cache') \in P!Forms BY <3>3, FormOK
      <4>2. ASSUME NEW to \in P!Auth \cup {"tabs", "settings"}, P!Go(to) PROVE Placed' BY <4>2, GoOK
      <4>3. (IF profileScreen \in DOMAIN P!Steps /\ P!Steps[profileScreen].back # None
             THEN P!Steps[profileScreen].back ELSE "tabs")
                \in P!Auth \cup {"tabs", "settings"}
        BY StepsOK
      <4>4. CASE save.kind = "retake" BY <2>2, <4>1, <4>4, GoesOK
      <4>5. CASE save.kind # "retake" BY <2>2, <4>2, <4>3, <4>5
      <4>. QED BY <4>4, <4>5
    <3>. QED BY <1>8, <2>2, <3>2, <3>3, <3>4 DEF P!SaveEnds, P!TypeOK, Placed
  <2>. QED BY <1>8, <2>1, <2>2 DEF P!SaveEnds
<1>9. CASE P!Notify
  <2>1. PICK a, l, m \in BOOLEAN : notify' = [pc |-> "asked", alone |-> a, loaded |-> l, alpha |-> m]
    <3>1. (save = P!NoSave) \in BOOLEAN /\ (cache # None /\ flight \in {None, cache}) \in BOOLEAN OBVIOUS
    <3>2. (cache # None /\ cache.alpha) \in BOOLEAN OBVIOUS
    <3>. QED BY <1>9, <3>1, <3>2, Zenon DEF P!Notify
  <2>2. notify' \in P!Prompts BY <2>1 DEF P!Prompts
  <2>. QED BY <1>2, <1>9, <2>2 DEF P!Notify, P!TypeOK
<1>10. CASE P!NotifyAnswer
  <2>1. prof' \in P!Profiles /\ flight' \in P!Profiles \cup {None}
    <3>1. \/ prof' = [prof EXCEPT !.alpha = notify.alpha] /\ flight' = prof'
          \/ UNCHANGED <<prof, flight>>
      BY <1>10, Zenon DEF P!NotifyAnswer
    <3>2. notify.alpha \in BOOLEAN BY DEF P!TypeOK, P!Prompts
    <3>3. [prof EXCEPT !.alpha = notify.alpha] \in P!Profiles BY <3>2 DEF P!TypeOK, P!Profiles
    <3>. QED BY <3>1, <3>3 DEF P!TypeOK
  <2>2. notify' \in P!Prompts
    <3>1. notify' = [notify EXCEPT !.pc = "shown"] \/ notify' = P!NoNotify BY <1>10, Zenon DEF P!NotifyAnswer
    <3>2. notify \in P!Prompts BY DEF P!TypeOK
    <3>3. [notify EXCEPT !.pc = "shown"] \in P!Prompts BY <3>2 DEF P!Prompts
    <3>4. P!NoNotify \in P!Prompts BY DEF P!NoNotify, P!Prompts
    <3>. QED BY <3>1, <3>3, <3>4
  <2>3. profileTroubles' \in 0..MaxProfileTroubles BY <1>1, <1>10 DEF P!NotifyAnswer
  <2>. QED BY <1>10, <2>1, <2>2, <2>3 DEF P!NotifyAnswer, P!TypeOK
<1>11. CASE P!NotifyCloses
  <2>1. notify' \in P!Prompts
    BY <1>11 DEF P!NotifyCloses, P!NoNotify, P!Prompts
  <2>. QED BY <1>11, <2>1 DEF P!NotifyCloses, P!TypeOK
<1>12. CASE P!Delete
  <2>1. prof' \in P!Profiles BY <1>12, BlankOK DEF P!Delete, P!Profiles, P!Languages
  <2>2. "sc07" \in P!Auth \cup {"tabs", "settings"} BY DEF P!Auth
  <2>3. Placed' BY <1>12, <2>2, GoOK DEF P!Delete
  <2>. QED BY <1>2, <1>12, <2>1, <2>3 DEF P!Delete, P!Forget, P!TypeOK, Placed
<1>. QED BY <1>3, <1>4, <1>5, <1>6, <1>7, <1>8, <1>9, <1>10, <1>11, <1>12

\* The program starts with the types.
LEMMA InitTypes == ASSUME P!ProfileAssumption, P!Init PROVE P!TypeOK
<1>1. None \in P!Profiles \cup {None} OBVIOUS
<1>2. form \in P!Forms BY <1>1, FormOK DEF P!Init
<1>3. prof \in P!Profiles
  <2>1. \E a \in P!Quizzes : \A q \in P!Questions : a[q] # None
    <3>. DEFINE a == [q \in P!Questions |-> CHOOSE o \in Options[q] : TRUE]
    <3>1. \A q \in P!Questions : a[q] \in Options[q] /\ a[q] # None BY DEF P!ProfileAssumption
    <3>2. a \in P!Quizzes BY <3>1, QuizOK
    <3>. QED BY <3>1, <3>2
  <2>2. (CHOOSE a \in P!Quizzes : \A q \in P!Questions : a[q] # None) \in P!Quizzes BY <2>1
  <2>3. \/ prof = [answers |-> P!Blank, lang |-> None, alpha |-> FALSE]
        \/ prof = [answers |-> CHOOSE a \in P!Quizzes : \A q \in P!Questions : a[q] # None,
                   lang |-> "other", alpha |-> TRUE]
    BY Zenon DEF P!Init
  <2>. HIDE DEF P!Init
  <2>4. CASE prof = [answers |-> P!Blank, lang |-> None, alpha |-> FALSE] BY <2>4, BlankOK DEF P!Profiles, P!Languages
  <2>5. CASE prof = [answers |-> CHOOSE a \in P!Quizzes : \A q \in P!Questions : a[q] # None,
                     lang |-> "other", alpha |-> TRUE]
    BY <2>2, <2>5 DEF P!Profiles, P!Languages
  <2>. QED BY <2>3, <2>4, <2>5
<1>4. profileScreen \in P!Auth \cup {"tabs"} BY DEF P!Init, P!Auth, P!Steps
<1>5. flow \in P!Flows BY BlankOK DEF P!Init, P!NoFlow, P!Flows
<1>6. notify \in P!Prompts
  BY DEF P!Init, P!NoNotify, P!Prompts
<1>7. /\ {signed, revoked} \subseteq BOOLEAN /\ cache = None /\ flight = None /\ mode = "onboarding"
      /\ quiz \in P!Quizzes /\ direction = "forward" /\ moving = None /\ save = P!NoSave
      /\ presses = 0 /\ profileTroubles = 0
  BY BlankOK DEF P!Init
<1>. QED BY <1>2, <1>3, <1>4, <1>5, <1>6, <1>7 DEF P!TypeOK, P!ProfileAssumption

\* Every step keeps the types.
LEMMA NextTypes == ASSUME P!ProfileAssumption, P!TypeOK, [P!Next]_(P!vars) PROVE P!TypeOK'
<1>1. CASE UNCHANGED P!vars BY <1>1 DEF P!vars, P!handlers, P!query, P!store, P!TypeOK
<1>2. CASE P!Next BY <1>2, QuizTypes, SignInTypes, GateTypes, SettingsTypes DEF P!Next
<1>. QED BY <1>1, <1>2

----------------------------------------------------------------------------
(* What the screens show is what the server has                            *)

\* A session ends with a trouble.
RevokedInv == revoked => profileTroubles > 0

\* Before the first sign-in, and as long as nothing failed, the query has the
\* profile, or the request under way will bring it.
CachedInv ==
    flow.pc = "none" /\ profileTroubles = 0 => IF flight = None THEN cache \in {None, prof} ELSE flight = prof

\* Most steps touch neither the profile nor the query.
LEMMA CachedFrame ==
    ASSUME P!ProfileAssumption, P!TypeOK, RevokedInv, CachedInv, UNCHANGED <<revoked, prof, P!query>>,
           P!Trouble \/ UNCHANGED profileTroubles, flow'.pc = "none" => flow.pc = "none"
    PROVE  RevokedInv' /\ CachedInv'
<1>1. profileTroubles \in Nat /\ profileTroubles' \in Nat /\ profileTroubles' >= profileTroubles
  BY DEF P!TypeOK, P!Trouble, P!ProfileAssumption
<1>. QED BY <1>1 DEF RevokedInv, CachedInv, P!query

\* A step keeps what the screens show what the server has.
LEMMA CachedStep ==
    ASSUME P!ProfileAssumption, P!TypeOK, RevokedInv, CachedInv, [P!Next]_(P!vars)
    PROVE  RevokedInv' /\ CachedInv'
<1>. USE DEF P!handlers, P!query, P!store
<1>a. profileTroubles \in Nat BY DEF P!TypeOK, P!ProfileAssumption
<1>b. ASSUME P!Trouble PROVE profileTroubles' > 0 BY <1>a, <1>b DEF P!Trouble
<1>1. CASE UNCHANGED P!vars BY <1>1, CachedFrame DEF P!vars
<1>2. ASSUME \/ \E q \in P!Questions : \E option \in Options[q] : P!Choose(option)
             \/ \E d \in {"forward", "backward"} : P!Exit(d)
             \/ P!Arrive \/ P!Back \/ P!Email
      PROVE  RevokedInv' /\ CachedInv'
  <2>1. UNCHANGED <<revoked, prof, P!query, flow, profileTroubles>>
    BY <1>2 DEF P!Choose, P!Exit, P!Arrive, P!Back, P!Email
  <2>. QED BY <2>1, CachedFrame
<1>3. CASE P!SignIn BY <1>3, CachedFrame DEF P!SignIn
<1>4. CASE P!Login
  <2>1. flow'.pc # "none" BY <1>4 DEF P!Login, P!NoFlow, P!TypeOK, P!Flows
  <2>2. revoked' => profileTroubles' > 0
    <3>1. CASE revoked' = FALSE BY <3>1
    <3>2. CASE P!Trouble BY <1>b, <3>2
    <3>. QED BY <1>4, <3>1, <3>2 DEF P!Login
  <2>. QED BY <2>1, <2>2 DEF RevokedInv, CachedInv
<1>5. CASE P!FetchProfile
  <2>1. flow'.pc # "none" BY <1>5 DEF P!FetchProfile, P!TypeOK, P!Flows
  <2>. QED BY <1>5, <2>1, CachedFrame DEF P!FetchProfile
<1>6. CASE P!PatchProfile
  <2>1. flow'.pc # "none" /\ (P!Trouble \/ UNCHANGED profileTroubles) /\ UNCHANGED revoked BY <1>6 DEF P!PatchProfile
  <2>. QED BY <1>b, <2>1 DEF RevokedInv, CachedInv
<1>7. CASE P!FetchEntitlement
  <2>1. flow'.pc # "none" BY <1>7 DEF P!FetchEntitlement, P!NoFlow
  <2>. QED BY <1>7, <2>1, CachedFrame DEF P!FetchEntitlement
<1>8. CASE P!AuthGate BY <1>8, CachedFrame DEF P!AuthGate
<1>9. CASE P!SignOut BY <1>9 DEF P!SignOut, P!Forget, RevokedInv, CachedInv
<1>10. CASE P!Revoke BY <1>b, <1>10 DEF P!Revoke, RevokedInv, CachedInv
<1>11. CASE P!Refresh BY <1>11 DEF P!Refresh, RevokedInv, CachedInv
<1>12. CASE P!Answer
  <2>1. UNCHANGED <<revoked, prof, flow>> BY <1>12 DEF P!Answer
  <2>2. CASE P!Trouble BY <1>b, <2>1, <2>2 DEF RevokedInv, CachedInv
  <2>3. CASE ~revoked /\ UNCHANGED profileTroubles /\ flight # None /\ flight' = None /\ cache' \in {flight, prof}
    BY <2>1, <2>3 DEF RevokedInv, CachedInv
  <2>4. CASE revoked /\ UNCHANGED profileTroubles BY <1>a, <2>1, <2>4 DEF RevokedInv, CachedInv
  <2>. QED BY <1>12, <2>2, <2>3, <2>4 DEF P!Answer
<1>13. ASSUME P!OpenSettings \/ P!Edit \/ P!Save \/ P!Retake \/ P!SaveRetake \/ P!Notify \/ P!NotifyCloses
       PROVE  RevokedInv' /\ CachedInv'
  <2>1. UNCHANGED <<revoked, prof, P!query, flow, profileTroubles>>
    BY <1>13 DEF P!OpenSettings, P!Edit, P!Save, P!Retake, P!SaveRetake, P!Notify, P!NotifyCloses
  <2>. QED BY <2>1, CachedFrame
<1>14. CASE P!SaveEnds
  <2>1. UNCHANGED <<revoked, flow>> /\ (P!Trouble \/ UNCHANGED profileTroubles) BY <1>14 DEF P!SaveEnds
  <2>2. CASE UNCHANGED <<prof, P!query>> BY <2>1, <2>2, CachedFrame
  <2>3. CASE prof' = P!Written(prof) /\ flight' = P!Written(prof) /\ UNCHANGED profileTroubles
    BY <1>14, <2>1, <2>3, WrittenOK DEF P!SaveEnds, RevokedInv, CachedInv, P!TypeOK
  <2>. QED BY <1>14, <2>2, <2>3 DEF P!SaveEnds, P!Saved
<1>15. CASE P!NotifyAnswer
  <2>1. UNCHANGED <<revoked, flow, cache>> /\ (P!Trouble \/ UNCHANGED profileTroubles) BY <1>15 DEF P!NotifyAnswer
  <2>2. CASE UNCHANGED <<prof, flight>> BY <2>1, <2>2, CachedFrame
  <2>3. CASE flight' = prof' /\ UNCHANGED profileTroubles
    <3>1. prof' # None BY NextTypes, DataOK, <1>15 DEF P!NotifyAnswer, P!TypeOK, P!ProfileAssumption
    <3>. QED BY <2>1, <2>3, <3>1 DEF RevokedInv, CachedInv
  <2>. QED BY <1>15, <2>2, <2>3 DEF P!NotifyAnswer
<1>16. CASE P!Delete BY <1>16 DEF P!Delete, P!Forget, RevokedInv, CachedInv
<1>. QED BY <1>1, <1>2, <1>3, <1>4, <1>5, <1>6, <1>7, <1>8, <1>9, <1>10, <1>11, <1>12, <1>13, <1>14, <1>15, <1>16
     DEF P!Next

\* The cached profile has its type, and is the one the server has whenever
\* nothing is under way, nothing failed, and nobody has signed in since.
THEOREM ProfileIsCachedHolds ==
    ASSUME P!ProfileAssumption PROVE P!Spec => []P!ProfileIsCached
<1>1. P!Init => P!TypeOK /\ RevokedInv /\ CachedInv
  <2>1. P!Init => RevokedInv /\ CachedInv BY DEF P!Init, RevokedInv, CachedInv, P!NoFlow
  <2>. QED BY <2>1, InitTypes
<1>2. P!TypeOK /\ RevokedInv /\ CachedInv /\ [P!Next]_(P!vars) => P!TypeOK' /\ RevokedInv' /\ CachedInv'
  BY NextTypes, CachedStep
<1>3. P!TypeOK /\ CachedInv => P!ProfileIsCached BY DEF P!ProfileIsCached, P!SavedIsCached, CachedInv
<1>. QED BY <1>1, <1>2, <1>3, PTL DEF P!Spec

----------------------------------------------------------------------------
(* What the user chose on one screen is not undone by another              *)

\* A sign-in is somebody's press, so is a save; the first press of a user who
\* signs in was the sign-in, and nothing else wrote a language since it read it.
SignInInv ==
    /\ presses = 0 => flow.pc = "none" /\ save = P!NoSave
    /\ presses = 1 /\ flow.pc # "none" => save = P!NoSave
    /\ presses = 1 /\ flow.pc = "patch" /\ profileTroubles = 0 => flow.lang = (prof.lang # None)

\* Most steps press nothing, and touch neither the sign-in nor the language.
LEMMA SignInFrame ==
    ASSUME P!ProfileAssumption, P!TypeOK, SignInInv, UNCHANGED <<flow, presses>>, save' \in {save, P!NoSave},
           prof'.lang = prof.lang, P!Trouble \/ UNCHANGED profileTroubles
    PROVE  SignInInv'
<1>1. profileTroubles' = 0 => profileTroubles = 0 BY DEF P!TypeOK, P!Trouble, P!ProfileAssumption
<1>. QED BY <1>1 DEF SignInInv

\* A press that is neither.
LEMMA SignInPress ==
    ASSUME P!ProfileAssumption, P!TypeOK, SignInInv, UNCHANGED flow, P!Press,
           UNCHANGED save \/ flow.pc = "none" \/ presses > 0
    PROVE  SignInInv'
<1>1. presses \in Nat /\ presses' = presses + 1 BY DEF P!TypeOK, P!Press, P!ProfileAssumption
<1>. QED BY <1>1 DEF SignInInv

\* A step keeps what a sign-in knows.
LEMMA SignInStep ==
    ASSUME P!ProfileAssumption, P!TypeOK, SignInInv, [P!Next]_(P!vars)
    PROVE  SignInInv'
<1>. USE DEF P!handlers, P!query, P!store
<1>a. profileTroubles \in Nat /\ presses \in Nat BY DEF P!TypeOK, P!ProfileAssumption
<1>1. CASE UNCHANGED P!vars BY <1>1, SignInFrame DEF P!vars
<1>2. ASSUME \/ \E q \in P!Questions : \E option \in Options[q] : P!Choose(option)
             \/ \E d \in {"forward", "backward"} : P!Exit(d)
             \/ P!Arrive \/ P!Back \/ P!Email
      PROVE  SignInInv'
  <2>1. UNCHANGED <<flow, presses, save, prof, profileTroubles>>
    BY <1>2 DEF P!Choose, P!Exit, P!Arrive, P!Back, P!Email
  <2>. QED BY <2>1, SignInFrame
<1>3. CASE P!SignIn
  <2>1. presses' = presses + 1 /\ UNCHANGED save /\ flow'.pc = "login" BY <1>3 DEF P!SignIn, P!Press
  <2>. QED BY <1>a, <2>1 DEF SignInInv
<1>4. CASE P!Login
  <2>1. flow.pc = "login" /\ flow'.pc \in {"fetch", "done"} /\ UNCHANGED <<presses, save>>
    BY <1>4 DEF P!Login, P!NoFlow, P!TypeOK, P!Flows
  <2>. QED BY <2>1 DEF SignInInv
<1>5. CASE P!FetchProfile
  <2>1. flow.pc = "fetch" /\ UNCHANGED <<presses, save, prof>> BY <1>5 DEF P!FetchProfile
  <2>2. CASE P!Trouble
    <3>1. profileTroubles' # 0 BY <1>a, <2>2 DEF P!Trouble
    <3>. QED BY <2>1, <3>1 DEF SignInInv
  <2>3. CASE flow' = [pc |-> "patch", answers |-> flow.answers, lang |-> prof.lang # None]
    BY <2>1, <2>3 DEF SignInInv
  <2>. QED BY <1>5, <2>2, <2>3 DEF P!FetchProfile
<1>6. CASE P!PatchProfile
  <2>1. flow.pc = "patch" /\ flow'.pc = "entitlement" /\ UNCHANGED <<presses, save>> BY <1>6 DEF P!PatchProfile
  <2>. QED BY <2>1 DEF SignInInv
<1>7. CASE P!FetchEntitlement
  <2>1. flow.pc = "entitlement" /\ flow'.pc = "done" /\ UNCHANGED <<presses, save>>
    BY <1>7 DEF P!FetchEntitlement, P!NoFlow
  <2>. QED BY <2>1 DEF SignInInv
<1>8. ASSUME P!AuthGate \/ P!Revoke \/ P!Refresh \/ P!Answer PROVE SignInInv'
  <2>1. UNCHANGED <<flow, presses, save, prof>> /\ (P!Trouble \/ UNCHANGED profileTroubles)
    BY <1>8 DEF P!AuthGate, P!Revoke, P!Refresh, P!Answer
  <2>. QED BY <2>1, SignInFrame
<1>9. ASSUME P!OpenSettings \/ P!Edit \/ P!Retake \/ P!NotifyCloses PROVE SignInInv'
  <2>1. UNCHANGED <<flow, presses, save, prof, profileTroubles>> BY <1>9 DEF P!OpenSettings, P!Edit, P!Retake, P!NotifyCloses
  <2>. QED BY <2>1, SignInFrame
<1>10. ASSUME P!SignOut \/ P!Notify \/ P!Delete PROVE SignInInv'
  <2>1. UNCHANGED <<flow, save>> /\ P!Press BY <1>10 DEF P!SignOut, P!Notify, P!Delete
  <2>. QED BY <2>1, SignInPress
<1>11. ASSUME P!Save \/ P!SaveRetake PROVE SignInInv'
  <2>1. UNCHANGED flow /\ P!Press BY <1>11 DEF P!Save, P!SaveRetake
  <2>2. flow.pc = "none" \/ presses > 0 BY <1>a DEF SignInInv
  <2>. QED BY <2>1, <2>2, SignInPress
<1>12. CASE P!SaveEnds
  <2>1. UNCHANGED <<flow, presses>> /\ save # P!NoSave /\ save' = P!NoSave /\ (P!Trouble \/ UNCHANGED profileTroubles)
    BY <1>12 DEF P!SaveEnds
  <2>. QED BY <2>1 DEF SignInInv
<1>13. CASE P!NotifyAnswer
  <2>1. UNCHANGED <<flow, presses, save>> /\ (P!Trouble \/ UNCHANGED profileTroubles) BY <1>13 DEF P!NotifyAnswer
  <2>2. prof' = [prof EXCEPT !.alpha = notify.alpha] \/ UNCHANGED prof BY <1>13 DEF P!NotifyAnswer
  <2>3. prof'.lang = prof.lang BY <2>2 DEF P!TypeOK, P!Profiles
  <2>. QED BY <2>1, <2>3, SignInFrame
<1>. QED BY <1>1, <1>2, <1>3, <1>4, <1>5, <1>6, <1>7, <1>8, <1>9, <1>10, <1>11, <1>12, <1>13 DEF P!Next

\* Only updateProfile takes a sign-in from "patch" to "entitlement".
LEMMA PatchOnly ==
    ASSUME P!TypeOK, [P!Next]_(P!vars), flow.pc = "patch", flow'.pc = "entitlement"
    PROVE  P!PatchProfile
<1>. USE DEF P!handlers, P!query, P!store
<1>1. ASSUME UNCHANGED flow PROVE FALSE BY <1>1
<1>2. ~UNCHANGED P!vars BY <1>1 DEF P!vars
<1>3. ASSUME \/ \E q \in P!Questions : \E option \in Options[q] : P!Choose(option)
             \/ \E d \in {"forward", "backward"} : P!Exit(d)
             \/ P!Arrive \/ P!Back \/ P!Email \/ P!AuthGate \/ P!SignOut \/ P!Revoke \/ P!Refresh \/ P!Answer
             \/ P!OpenSettings \/ P!Edit \/ P!Save \/ P!Retake \/ P!SaveRetake \/ P!SaveEnds
             \/ P!Notify \/ P!NotifyAnswer \/ P!NotifyCloses \/ P!Delete
      PROVE  FALSE
  BY <1>1, <1>3 DEF P!Choose, P!Exit, P!Arrive, P!Back, P!Email, P!AuthGate, P!SignOut, P!Revoke, P!Refresh, P!Answer,
     P!OpenSettings, P!Edit, P!Save, P!Retake, P!SaveRetake, P!SaveEnds, P!Notify, P!NotifyAnswer, P!NotifyCloses, P!Delete
<1>4. ~P!SignIn /\ ~P!Login /\ ~P!FetchProfile /\ ~P!FetchEntitlement
  BY DEF P!SignIn, P!Login, P!FetchProfile, P!FetchEntitlement
<1>. QED BY <1>2, <1>3, <1>4 DEF P!Next

\* The market alerts of the request under way, and of the profile when none is,
\* are the server's; a prompt that was opened when nothing else was under way
\* keeps its sheet in front, and what it knows stays true until it is answered.
AlphaInv ==
    /\ flight # None => flight.alpha = prof.alpha
    /\ profileTroubles = 0 /\ flight = None /\ cache # None => cache.alpha = prof.alpha
    /\ moving # None => profileScreen \in DOMAIN P!Steps
PromptInv ==
    profileTroubles = 0 /\ notify.pc = "asked" /\ notify.alone =>
        /\ profileScreen = "tabs" /\ moving = None /\ save = P!NoSave /\ signed
        /\ notify.loaded => notify.alpha = prof.alpha

\* Most steps leave the query and the prompt alone, and do not leave the tabs.
LEMMA PromptFrame ==
    ASSUME P!ProfileAssumption, P!TypeOK, AlphaInv, PromptInv, UNCHANGED <<P!query, notify, signed>>,
           prof'.alpha = prof.alpha, save' \in {save, P!NoSave}, P!Trouble \/ UNCHANGED profileTroubles,
           moving' # None => profileScreen' \in DOMAIN P!Steps,
           signed /\ profileScreen = "tabs" /\ moving = None => profileScreen' = "tabs" /\ moving' = None
    PROVE  AlphaInv' /\ PromptInv'
<1>1. profileTroubles' = 0 => profileTroubles = 0 BY DEF P!TypeOK, P!Trouble, P!ProfileAssumption
<1>. QED BY <1>1 DEF AlphaInv, PromptInv, P!query

\* The quiz and sign-in leave the prompt what it knows.
LEMMA PromptQuiz ==
    ASSUME P!ProfileAssumption, P!TypeOK, AlphaInv, PromptInv,
           \/ \E q \in P!Questions : \E option \in Options[q] : P!Choose(option)
           \/ \E d \in {"forward", "backward"} : P!Exit(d)
           \/ P!Arrive \/ P!Back \/ P!Email
           \/ P!SignIn \/ P!FetchProfile \/ P!PatchProfile \/ P!FetchEntitlement
           \/ P!AuthGate \/ P!Retake \/ P!Edit
    PROVE  AlphaInv' /\ PromptInv'
<1>. USE DEF P!handlers, P!query, P!store
<1>1. /\ UNCHANGED <<P!query, notify, signed, save>> /\ (P!Trouble \/ UNCHANGED profileTroubles)
      /\ UNCHANGED prof \/ prof' = P!Updates
  BY DEF P!Choose, P!Exit, P!Arrive, P!Back, P!Email, P!SignIn, P!FetchProfile, P!PatchProfile, P!FetchEntitlement,
     P!AuthGate, P!Retake, P!Edit
<1>2. prof'.alpha = prof.alpha BY <1>1, UpdatesOK
<1>3. /\ moving' # None => profileScreen' \in DOMAIN P!Steps
      /\ signed /\ profileScreen = "tabs" /\ moving = None => profileScreen' = "tabs" /\ moving' = None
  <2>1. ASSUME NEW q \in P!Questions, NEW option \in Options[q], P!Choose(option)
        PROVE  UNCHANGED <<profileScreen, moving>>
    BY <2>1 DEF P!Choose
  <2>2. ASSUME NEW d \in {"forward", "backward"}, P!Exit(d) PROVE profileScreen \in DOMAIN P!Steps /\ UNCHANGED profileScreen
    BY <2>2 DEF P!Exit, P!Exits
  <2>3. ASSUME P!SignIn \/ P!FetchProfile \/ P!PatchProfile \/ P!Edit PROVE UNCHANGED <<profileScreen, moving>>
    BY <2>3 DEF P!SignIn, P!FetchProfile, P!PatchProfile, P!Edit
  <2>4. ASSUME P!Arrive \/ P!Back \/ P!Email \/ P!FetchEntitlement \/ P!AuthGate \/ P!Retake
        PROVE  /\ moving' = None
               /\ signed /\ profileScreen = "tabs" /\ moving = None => profileScreen' = "tabs"
    <3>1. "tabs" \notin P!Auth BY DEF P!Auth, P!Steps
    <3>. QED BY <2>4, <3>1 DEF P!Arrive, P!Back, P!Email, P!FetchEntitlement, P!AuthGate, P!Retake, P!Go, P!Goes
  <2>. QED BY <2>1, <2>2, <2>3, <2>4, StepsOK DEF AlphaInv
<1>. QED BY <1>1, <1>2, <1>3, PromptFrame

\* A step keeps what a prompt knows.
LEMMA PromptStep ==
    ASSUME P!ProfileAssumption, P!TypeOK, RevokedInv, AlphaInv, PromptInv, [P!Next]_(P!vars)
    PROVE  AlphaInv' /\ PromptInv'
<1>. USE DEF P!handlers, P!query, P!store
<1>a. profileTroubles \in Nat BY DEF P!TypeOK, P!ProfileAssumption
<1>b. ASSUME P!Trouble PROVE profileTroubles' # 0 BY <1>a, <1>b DEF P!Trouble
<1>1. CASE UNCHANGED P!vars BY <1>1 DEF P!vars, AlphaInv, PromptInv
<1>2. CASE P!Login
  <2>1. UNCHANGED <<P!query, notify, save, prof, moving, profileScreen>> /\ (P!Trouble \/ UNCHANGED profileTroubles)
    BY <1>2 DEF P!Login
  <2>2. signed => signed' BY <1>2 DEF P!Login
  <2>. QED BY <1>b, <2>1, <2>2 DEF AlphaInv, PromptInv
<1>3. CASE P!Revoke BY <1>b, <1>3 DEF P!Revoke, AlphaInv, PromptInv
<1>4. CASE P!Refresh BY <1>4 DEF P!Refresh, AlphaInv, PromptInv
<1>5. CASE P!Answer
  <2>1. UNCHANGED <<prof, moving, profileScreen, notify, save>> /\ flight' = None /\ flight # None BY <1>5 DEF P!Answer
  <2>2. CASE P!Trouble BY <1>b, <2>1, <2>2 DEF AlphaInv, PromptInv
  <2>3. CASE UNCHANGED <<signed, profileTroubles>> /\ cache' \in {flight, prof} BY <2>1, <2>3 DEF AlphaInv, PromptInv
  <2>4. CASE revoked /\ cache' = None /\ UNCHANGED profileTroubles
    BY <1>a, <2>1, <2>4 DEF RevokedInv, AlphaInv, PromptInv
  <2>. QED BY <1>5, <2>2, <2>3, <2>4 DEF P!Answer
<1>6. ASSUME P!OpenSettings \/ P!SignOut PROVE AlphaInv' /\ PromptInv'
  <2>1. notify.pc = "idle" /\ UNCHANGED <<prof, notify>> /\ moving' = None
    BY <1>6 DEF P!OpenSettings, P!SignOut, P!Go, P!Goes
  <2>2. UNCHANGED P!query \/ (cache' = None /\ flight' = None) BY <1>6 DEF P!OpenSettings, P!SignOut, P!Forget
  <2>3. UNCHANGED profileTroubles BY <1>6 DEF P!OpenSettings, P!SignOut
  <2>. QED BY <2>1, <2>2, <2>3 DEF AlphaInv, PromptInv
<1>7. ASSUME P!Save \/ P!SaveRetake PROVE AlphaInv' /\ PromptInv'
  <2>1. profileScreen # "tabs" BY <1>7, StepsOK DEF P!Save, P!SaveRetake
  <2>2. UNCHANGED <<prof, P!query, notify, profileScreen, moving, profileTroubles, signed>> BY <1>7 DEF P!Save, P!SaveRetake
  <2>. QED BY <2>1, <2>2 DEF AlphaInv, PromptInv
<1>8. CASE P!SaveEnds
  <2>1. UNCHANGED <<signed, notify>> /\ save # P!NoSave /\ save' = P!NoSave /\ (P!Trouble \/ UNCHANGED profileTroubles)
    BY <1>8 DEF P!SaveEnds
  <2>2. CASE UNCHANGED <<prof, P!query, P!store, profileScreen>>
    <3>1. moving' # None => profileScreen' \in DOMAIN P!Steps BY <2>2 DEF AlphaInv
    <3>. QED BY <2>1, <2>2, <3>1, PromptFrame
  <2>3. CASE prof' = P!Written(prof) /\ flight' = P!Written(prof) /\ UNCHANGED profileTroubles /\ moving' = None
    <3>1. flight' # None BY <2>1, <2>3, WrittenOK DEF P!TypeOK
    <3>. QED BY <2>1, <2>3, <3>1 DEF AlphaInv, PromptInv
  <2>. QED BY <1>8, <2>2, <2>3 DEF P!SaveEnds, P!Saved, P!Go, P!Goes
<1>9. CASE P!Notify
  <2>1. UNCHANGED <<prof, P!query, profileScreen, moving, save, signed, profileTroubles>> /\ profileScreen = "tabs" /\ signed
    BY <1>9 DEF P!Notify
  <2>2. notify'.alone => save = P!NoSave BY <1>9 DEF P!Notify
  <2>3. notify'.loaded => cache # None /\ flight \in {None, cache} BY <1>9 DEF P!Notify
  <2>4. cache # None => notify'.alpha = cache.alpha
    <3>1. cache # None => cache.alpha \in BOOLEAN BY DataOK
    <3>. QED BY <1>9, <3>1 DEF P!Notify
  <2>5. moving = None BY <2>1, StepsOK DEF AlphaInv
  <2>6. profileTroubles = 0 /\ notify'.loaded => notify'.alpha = prof.alpha BY <2>3, <2>4 DEF AlphaInv
  <2>7. AlphaInv' BY <2>1 DEF AlphaInv
  <2>. QED BY <2>1, <2>2, <2>5, <2>6, <2>7 DEF PromptInv
<1>10. CASE P!NotifyAnswer
  <2>1. UNCHANGED <<cache, moving, profileScreen, signed, save>> /\ (P!Trouble \/ UNCHANGED profileTroubles)
    BY <1>10 DEF P!NotifyAnswer
  <2>2. notify'.pc # "asked"
    <3>1. notify' = [notify EXCEPT !.pc = "shown"] \/ notify' = P!NoNotify BY <1>10, Zenon DEF P!NotifyAnswer
    <3>. QED BY <3>1 DEF P!TypeOK, P!Prompts, P!NoNotify
  <2>3. AlphaInv'
    <3>1. CASE UNCHANGED <<prof, flight>>
      <4>1. profileTroubles' = 0 => profileTroubles = 0 BY <1>b, <2>1
      <4>. QED BY <2>1, <3>1, <4>1 DEF AlphaInv
    <3>2. CASE flight' = prof' /\ UNCHANGED profileTroubles
      <4>1. prof' # None BY NextTypes, DataOK, <1>10 DEF P!NotifyAnswer, P!TypeOK, P!ProfileAssumption
      <4>. QED BY <2>1, <3>2, <4>1 DEF AlphaInv
    <3>. QED BY <1>10, <3>1, <3>2 DEF P!NotifyAnswer
  <2>. QED BY <2>2, <2>3 DEF PromptInv
<1>11. CASE P!NotifyCloses BY <1>11 DEF P!NotifyCloses, P!NoNotify, AlphaInv, PromptInv
<1>12. CASE P!Delete
  <2>1. UNCHANGED <<notify, profileTroubles>> /\ profileScreen = "settings"
        /\ moving' = None /\ cache' = None /\ flight' = None
    BY <1>12 DEF P!Delete, P!Forget, P!Go, P!Goes
  <2>. QED BY <2>1 DEF AlphaInv, PromptInv
<1>. QED BY <1>1, <1>2, <1>3, <1>4, <1>5, <1>6, <1>7, <1>8, <1>9, <1>10, <1>11, <1>12, PromptQuiz DEF P!Next

\* Only the answer ends the request of the prompt.
LEMMA AnswerOnly ==
    ASSUME P!TypeOK, [P!Next]_(P!vars), notify.pc = "asked", notify'.pc # "asked"
    PROVE  P!NotifyAnswer
<1>. USE DEF P!handlers, P!query, P!store
<1>1. ASSUME UNCHANGED notify PROVE FALSE BY <1>1
<1>2. ~UNCHANGED P!vars BY <1>1 DEF P!vars
<1>3. ASSUME \/ \E q \in P!Questions : \E option \in Options[q] : P!Choose(option)
             \/ \E d \in {"forward", "backward"} : P!Exit(d)
             \/ P!Arrive \/ P!Back \/ P!Email
             \/ P!SignIn \/ P!Login \/ P!FetchProfile \/ P!PatchProfile \/ P!FetchEntitlement
             \/ P!AuthGate \/ P!SignOut \/ P!Revoke \/ P!Refresh \/ P!Answer
             \/ P!OpenSettings \/ P!Edit \/ P!Save \/ P!Retake \/ P!SaveRetake \/ P!SaveEnds \/ P!Delete
      PROVE  FALSE
  BY <1>1, <1>3 DEF P!Choose, P!Exit, P!Arrive, P!Back, P!Email, P!SignIn, P!Login, P!FetchProfile, P!PatchProfile,
     P!FetchEntitlement, P!AuthGate, P!SignOut, P!Revoke, P!Refresh, P!Answer,
     P!OpenSettings, P!Edit, P!Save, P!Retake, P!SaveRetake, P!SaveEnds, P!Delete
<1>4. ~P!Notify /\ ~P!NotifyCloses BY DEF P!Notify, P!NotifyCloses
<1>. QED BY <1>2, <1>3, <1>4 DEF P!Next

\* A sign-in writes every answer the user gave before it and leaves alone a
\* language the profile has; the notification prompt does not touch the market
\* alerts chosen in settings.
THEOREM ChoicesAreKeptHolds ==
    ASSUME P!ProfileAssumption PROVE P!Spec => P!ChoicesAreKept
<1>. DEFINE KeptInv == P!TypeOK /\ RevokedInv /\ CachedInv /\ SignInInv /\ AlphaInv /\ PromptInv
<1>1. P!Init => KeptInv
  <2>1. P!Init => RevokedInv /\ CachedInv /\ SignInInv /\ AlphaInv /\ PromptInv
    BY DEF P!Init, RevokedInv, CachedInv, SignInInv, AlphaInv, PromptInv, P!NoFlow, P!NoNotify
  <2>. QED BY <2>1, InitTypes
<1>2. KeptInv /\ [P!Next]_(P!vars) => KeptInv' BY NextTypes, CachedStep, SignInStep, PromptStep
<1>3. KeptInv /\ [P!Next]_(P!vars) =>
        [flow.pc = "patch" /\ flow'.pc = "entitlement" /\ profileTroubles' = 0 =>
            /\ \A q \in P!Questions : flow.answers[q] # None => prof'.answers[q] = flow.answers[q]
            /\ presses = 1 /\ prof.lang # None => prof'.lang = prof.lang]_(P!vars)
  <2>1. SUFFICES ASSUME KeptInv, [P!Next]_(P!vars), flow.pc = "patch", flow'.pc = "entitlement", profileTroubles' = 0
                 PROVE  /\ \A q \in P!Questions : flow.answers[q] # None => prof'.answers[q] = flow.answers[q]
                        /\ presses = 1 /\ prof.lang # None => prof'.lang = prof.lang
    BY Zenon
  <2>2. P!PatchProfile BY <2>1, PatchOnly
  <2>3. profileTroubles \in Nat BY <2>1 DEF P!TypeOK, P!ProfileAssumption
  <2>4. ~P!Trouble /\ profileTroubles = 0 BY <2>1, <2>2, <2>3 DEF P!Trouble, P!PatchProfile
  <2>5. prof' = P!Updates BY <2>2, <2>4 DEF P!PatchProfile
  <2>6. presses = 1 /\ prof.lang # None => flow.lang BY <2>1, <2>4 DEF SignInInv
  <2>. QED BY <2>1, <2>5, <2>6, UpdatesOK
<1>4. KeptInv /\ [P!Next]_(P!vars) =>
        [notify.pc = "asked" /\ notify'.pc # "asked" /\ notify.alone /\ notify.loaded /\ profileTroubles' = 0
            => prof'.alpha = prof.alpha]_(P!vars)
  <2>1. SUFFICES ASSUME KeptInv, [P!Next]_(P!vars), notify.pc = "asked", notify'.pc # "asked", notify.alone, notify.loaded,
                        profileTroubles' = 0
                 PROVE  prof'.alpha = prof.alpha
    BY Zenon
  <2>2. P!NotifyAnswer BY <2>1, AnswerOnly
  <2>3. profileTroubles = 0 BY <2>1, <2>2 DEF P!NotifyAnswer, P!Trouble, P!TypeOK, P!ProfileAssumption
  <2>4. notify.alpha = prof.alpha BY <2>1, <2>3 DEF PromptInv
  <2>5. prof' = [prof EXCEPT !.alpha = notify.alpha] \/ UNCHANGED prof BY <2>2 DEF P!NotifyAnswer
  <2>. QED BY <2>1, <2>4, <2>5 DEF P!TypeOK, P!Profiles
<1>. HIDE DEF KeptInv
<1>. QED BY <1>1, <1>2, <1>3, <1>4, PTL DEF P!Spec, P!ChoicesAreKept, P!SignInKeepsChoices, P!AlphaKept
=============================================================================
