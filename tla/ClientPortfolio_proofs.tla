------------------------ MODULE ClientPortfolio_proofs -------------------------
(* Proofs about ClientPortfolio, for any commands, refreshes, executions and *)
(* scans and any bounds on presses and troubles, and about the figures that  *)
(* are drawn of a plan, a review and a market: StrategyPlan, ReviewFigures   *)
(* and Charts.                                                               *)
EXTENDS ClientPortfolio, SequenceTheorems, FiniteSetTheorems, WellFoundedInduction, TLAPS

Sent == {j \in Jobs : job[j].pc = "sent"}

\* A snapshot was pressed for, and there is room for those of the requests
\* that are on their way.
Counted == active + Cardinality(Sent) <= 1 + presses

\* What anybody knows of is there already.
MadeExist == \A j \in Jobs : job[j].pc \in {"applied", "portfolio", "reports", "done"} => job[j].made \in 1..active
QueriesExist ==
    /\ rows.data.s <= active /\ rows.flight <= active
    /\ portfolio.data <= active /\ portfolio.flight <= active
    /\ diagnose.pc = "paid" => diagnose.s \in 1..active
FutureBlank == \A s \in Snapshots : s > active => tiers[s] = NoTier

\* A request that is under way is not older than the data shown; for the
\* portfolio until a refresh sets its own snapshot.
Sets(j) == j \in Refreshes /\ job[j].pc \in {"reports", "done"}
FlightsLead ==
    /\ rows.flight = None \/ rows.flight >= rows.data.s
    /\ \/ \E r \in Refreshes : Sets(r)
       \/ portfolio.flight = None \/ portfolio.flight >= portfolio.data

\* A handler that has invalidated a query has seen to it that the snapshot it
\* made, or a later one, is shown or asked for.
RowsSeen(s) == rows.data.s >= s \/ rows.flight >= s
PortfolioSeen(s) == portfolio.data >= s \/ portfolio.flight >= s
Seen(j) ==
    /\ job[j].pc \in {"reports", "done"} => RowsSeen(job[j].made)
    /\ j \in Commands /\ job[j].pc \in {"portfolio", "reports", "done"} =>
         PortfolioSeen(job[j].made) \/ \E r \in Refreshes : Sets(r)
AllSeen == troubles = 0 => \A j \in Commands \cup Refreshes : Seen(j)

\* A row that is listed as paid was asked for.
PaidListed == rows.data.is.tier = "paid" => \E s \in Snapshots : tiers[s].tier = "paid"

PortfolioInv ==
    /\ TypeOK /\ Counted /\ MadeExist /\ QueriesExist /\ FutureBlank
    /\ FlightsLead /\ AllSeen /\ PaidListed

----------------------------------------------------------------------------
(* Types                                                                   *)

JobStates ==
    [pc : {"unused", "sent", "applied", "portfolio", "reports", "done", "failed"},
     made : Snapshots \cup {None}, mounted : BOOLEAN]
RowsStates == [data : Row, flight : Snapshots \cup {None}]
PortfolioStates == [data : Snapshots, flight : Snapshots \cup {None}]
Diagnoses == [pc : {"idle", "paid", "active preview", "active paid"}, s : Snapshots \cup {None}]
Screens == {"tabs", "quick", "preview", "paid", "report"}

ServerTyped == active \in Snapshots /\ tiers \in [Snapshots -> Tiers] /\ entitled \in BOOLEAN
JobsTyped == job \in [Jobs -> JobStates]
QueriesTyped == rows \in RowsStates /\ portfolio \in PortfolioStates /\ known \in BOOLEAN
ScreensTyped == diagnose \in Diagnoses /\ screen \in Screens
BoundsTyped == presses \in 0..MaxPresses /\ troubles \in 0..MaxTroubles

LEMMA Typing == TypeOK <=> ServerTyped /\ JobsTyped /\ QueriesTyped /\ ScreensTyped /\ BoundsTyped
  BY DEF TypeOK, ServerTyped, JobsTyped, QueriesTyped, ScreensTyped, BoundsTyped,
         JobStates, RowsStates, PortfolioStates, Diagnoses, Screens

LEMMA Retyped ==
  ASSUME ServerTyped', JobsTyped', QueriesTyped', ScreensTyped', BoundsTyped'
  PROVE  TypeOK'
  BY DEF TypeOK, ServerTyped, JobsTyped, QueriesTyped, ScreensTyped, BoundsTyped,
         JobStates, RowsStates, PortfolioStates, Diagnoses, Screens

LEMMA SnapshotFacts ==
  /\ MaxPresses \in Nat /\ MaxTroubles \in Nat /\ None = 0 /\ None \notin Snapshots
  /\ \A s \in Snapshots : s \in Nat /\ s >= 1
  /\ \A s \in Snapshots \cup {None} : s \in Nat
  /\ \A a \in Snapshots : \A s \in 1..a : s \in Snapshots
  /\ 1 \in Snapshots
  BY BoundAssumption DEF Snapshots, None

LEMMA TierFacts ==
  /\ NoTier \in Tiers /\ NoTier.tier = "none" /\ NoTier.status = "none"
  /\ \A tier \in {"none", "preview", "paid"} : \A status \in {"none", "processing", "ready", "failed"} :
       Tier(tier, status) \in Tiers /\ Tier(tier, status).tier = tier /\ Tier(tier, status).status = status
  BY DEF NoTier, Tier, Tiers

LEMMA Asks ==
  /\ \A q \in RowsStates : active \in Snapshots =>
       Asked(q) \in RowsStates /\ Asked(q).data = q.data /\ Asked(q).flight = active
  /\ \A q \in PortfolioStates : active \in Snapshots =>
       Asked(q) \in PortfolioStates /\ Asked(q).data = q.data /\ Asked(q).flight = active
  BY DEF Asked, NewFlight, RowsStates, PortfolioStates

\* What the parts of the invariant need to know, as numbers.
LEMMA Numbers ==
  ASSUME TypeOK
  PROVE  /\ active \in Nat /\ active \in Snapshots
         /\ rows.data \in Row /\ rows.data.s \in Nat /\ rows.flight \in Nat
         /\ rows.data.s \in Snapshots /\ rows.flight \in Snapshots \cup {None}
         /\ portfolio.data \in Nat /\ portfolio.flight \in Nat
         /\ \A j \in Jobs : job[j].made \in Nat
         /\ presses \in Nat /\ troubles \in Nat
<1>1. ServerTyped /\ JobsTyped /\ QueriesTyped /\ BoundsTyped
  BY Typing
<1>2. active \in Nat /\ active \in Snapshots /\ presses \in Nat /\ troubles \in Nat
  BY <1>1, SnapshotFacts DEF ServerTyped, BoundsTyped
<1>3. /\ rows.data \in Row /\ rows.data.s \in Snapshots /\ rows.flight \in Snapshots \cup {None}
      /\ portfolio.data \in Snapshots /\ portfolio.flight \in Snapshots \cup {None}
  BY <1>1 DEF QueriesTyped, RowsStates, PortfolioStates, Row
<1>4. \A j \in Jobs : job[j].made \in Snapshots \cup {None}
  BY <1>1 DEF JobsTyped, JobStates
<1> QED
  BY <1>2, <1>3, <1>4, SnapshotFacts

LEMMA SentFinite == IsFiniteSet(Sent)
  BY BoundAssumption, FS_Subset DEF Sent

LEMMA Trouble1 == ASSUME BoundsTyped, Trouble PROVE troubles' \in 0..MaxTroubles /\ troubles' # 0
  BY SnapshotFacts DEF Trouble, BoundsTyped

----------------------------------------------------------------------------
(* What a step leaves alone                                                *)

\* The requests on their way and what the others made.
SameJobs == \A j \in Jobs : job'[j].pc = job[j].pc /\ job'[j].made = job[j].made
SameSent == \A j \in Jobs : job'[j].pc = "sent" <=> job[j].pc = "sent"
SameQueries ==
    /\ rows'.data = rows.data /\ rows'.flight = rows.flight
    /\ portfolio'.data = portfolio.data /\ portfolio'.flight = portfolio.flight

LEMMA CountedStays ==
  ASSUME TypeOK, Counted, active' = active, SameSent, presses' \in Nat, presses' >= presses
  PROVE  Counted'
<1>1. Sent' = Sent
  BY DEF Sent, SameSent
<1>2. Cardinality(Sent) \in Nat
  BY SentFinite, FS_CardinalityType
<1> QED
  BY <1>1, <1>2, Numbers DEF Counted

LEMMA JobsStay ==
  ASSUME PortfolioInv, SameJobs, SameQueries, active' = active, troubles' = 0 => troubles = 0
  PROVE  MadeExist' /\ FlightsLead' /\ AllSeen'
<1>1. MadeExist'
  BY DEF PortfolioInv, MadeExist, SameJobs
<1>2. Commands \subseteq Jobs /\ Refreshes \subseteq Jobs
  BY DEF Jobs
<1>3. \A j \in Jobs : Sets(j)' <=> Sets(j)
  BY DEF Sets, SameJobs
<1>4. FlightsLead'
  BY <1>2, <1>3 DEF PortfolioInv, FlightsLead, SameQueries
<1>5. AllSeen'
  BY <1>2, <1>3 DEF PortfolioInv, AllSeen, Seen, RowsSeen, PortfolioSeen, SameJobs, SameQueries
<1> QED
  BY <1>1, <1>4, <1>5

\* A tier that was asked for stays so.
PaidStays == \A s \in Snapshots : tiers[s].tier = "paid" => tiers'[s].tier = "paid"

LEMMA PaidListedStays ==
  ASSUME PaidListed, PaidStays, rows'.data = rows.data
  PROVE  PaidListed'
  BY DEF PaidListed, PaidStays

----------------------------------------------------------------------------
(* The screens                                                             *)

LEMMA ScreenKeeps ==
  ASSUME PortfolioInv, CloseUpdate \/ OpenQuick \/ Leave \/ RefreshEntitlement \/ Lapse \/ Buy
  PROVE  PortfolioInv'
<1>1. ServerTyped /\ JobsTyped /\ QueriesTyped /\ ScreensTyped /\ BoundsTyped
  BY Typing DEF PortfolioInv
<1>2. /\ UNCHANGED <<active, tiers, rows, portfolio, diagnose, presses>>
      /\ screen' \in Screens /\ known' \in BOOLEAN /\ entitled' \in BOOLEAN
  BY <1>1 DEF CloseUpdate, OpenQuick, Leave, RefreshEntitlement, Lapse, Buy, server, queries, Screens,
              ServerTyped, QueriesTyped, ScreensTyped
<1>3. job' \in [Jobs -> JobStates] /\ SameJobs
  <2>1. CASE CloseUpdate BY <1>1, <2>1 DEF CloseUpdate, JobsTyped, JobStates, SameJobs
  <2>2. CASE OpenQuick \/ Leave \/ RefreshEntitlement \/ Lapse \/ Buy
    <3>1. job' = job BY <2>2 DEF OpenQuick, Leave, RefreshEntitlement, Lapse, Buy
    <3>. QED BY <1>1, <3>1 DEF JobsTyped, SameJobs
  <2>. QED BY <2>1, <2>2
<1>4. troubles' \in 0..MaxTroubles /\ (troubles' = 0 => troubles = 0)
  BY <1>1, Trouble1 DEF CloseUpdate, OpenQuick, Leave, RefreshEntitlement, Lapse, Buy, BoundsTyped
<1>5. TypeOK'
  BY <1>1, <1>2, <1>3, <1>4, Retyped DEF ServerTyped, JobsTyped, QueriesTyped, ScreensTyped, BoundsTyped
<1>6. SameQueries /\ PaidStays
  BY <1>2 DEF SameQueries, PaidStays
<1>7. Counted'
  BY <1>2, <1>3, CountedStays, Numbers DEF PortfolioInv, SameSent, SameJobs
<1>8. MadeExist' /\ FlightsLead' /\ AllSeen'
  BY <1>2, <1>3, <1>4, <1>6, JobsStay
<1>9. QueriesExist' /\ FutureBlank'
  BY <1>2 DEF PortfolioInv, QueriesExist, FutureBlank
<1>10. PaidListed'
  BY <1>2, <1>6, PaidListedStays DEF PortfolioInv
<1> QED
  BY <1>5, <1>7, <1>8, <1>9, <1>10 DEF PortfolioInv

LEMMA DiagnoseKeeps ==
  ASSUME PortfolioInv, Diagnose
  PROVE  PortfolioInv'
<1>1. ServerTyped /\ JobsTyped /\ QueriesTyped /\ ScreensTyped /\ BoundsTyped
  BY Typing DEF PortfolioInv
<1>2. UNCHANGED <<server, job, queries, troubles>> /\ Press
  BY DEF Diagnose
<1>3. UNCHANGED <<active, tiers, entitled, job, rows, portfolio, known, troubles>>
  BY <1>2 DEF server, queries
<1>4. presses' \in 0..MaxPresses /\ presses' \in Nat /\ presses' >= presses
  BY <1>1, <1>2, SnapshotFacts DEF Press, BoundsTyped
<1>5. /\ screen' \in Screens /\ diagnose' \in Diagnoses
      /\ diagnose'.pc = "paid" => diagnose' = diagnose \/ diagnose'.s = rows.data.s
  <2>1. rows.data.s \in Snapshots
    BY Numbers DEF PortfolioInv
  <2>2. ASSUME NEW pc \in {"paid", "active preview", "active paid"}, NEW s \in Snapshots \cup {None}, Await(pc, s)
        PROVE  diagnose' \in Diagnoses /\ diagnose'.pc = pc /\ diagnose'.s = s /\ screen' = screen
    <3>1. diagnose' = [pc |-> pc, s |-> s] /\ screen' = screen
      BY <2>2 DEF Await
    <3>2. [pc |-> pc, s |-> s] \in Diagnoses
      BY DEF Diagnoses
    <3> QED
      BY <3>1, <3>2
  <2>3. \/ UNCHANGED diagnose /\ screen' \in Screens
        \/ Await("paid", rows.data.s) \/ Await("active preview", None) \/ Await("active paid", None)
    BY DEF Diagnose, ChoosePaid, Screens
  <2> QED
    BY <1>1, <2>1, <2>2, <2>3 DEF ScreensTyped
<1>6. TypeOK'
  BY <1>1, <1>3, <1>4, <1>5, Retyped DEF ServerTyped, JobsTyped, QueriesTyped, ScreensTyped, BoundsTyped
<1>7. SameQueries /\ SameJobs /\ PaidStays
  BY <1>3 DEF SameQueries, SameJobs, PaidStays
<1>8. Counted'
  BY <1>3, <1>4, <1>7, CountedStays DEF PortfolioInv, SameSent, SameJobs
<1>9. MadeExist' /\ FlightsLead' /\ AllSeen'
  BY <1>3, <1>7, JobsStay
<1>10. QueriesExist' /\ FutureBlank'
  BY <1>3, <1>5, Numbers, SnapshotFacts DEF PortfolioInv, QueriesExist, FutureBlank
<1>11. PaidListed'
  BY <1>3, <1>7, PaidListedStays DEF PortfolioInv
<1> QED
  BY <1>6, <1>8, <1>9, <1>10, <1>11 DEF PortfolioInv

----------------------------------------------------------------------------
(* The reports                                                             *)

\* A step that asks for reports or ends them.
LEMMA ReportsMove ==
  ASSUME PortfolioInv, UNCHANGED <<active, job, rows, portfolio, known, presses>>,
         tiers' \in [Snapshots -> Tiers], entitled' \in BOOLEAN, FutureBlank', PaidStays,
         diagnose' = diagnose \/ diagnose' = NoDiagnose, screen' \in Screens,
         troubles' \in 0..MaxTroubles, troubles' = 0 => troubles = 0
  PROVE  PortfolioInv'
<1>1. ServerTyped /\ JobsTyped /\ QueriesTyped /\ ScreensTyped /\ BoundsTyped
  BY Typing DEF PortfolioInv
<1>2. NoDiagnose \in Diagnoses /\ NoDiagnose.pc # "paid"
  BY DEF NoDiagnose, Diagnoses
<1>3. TypeOK'
  BY <1>1, <1>2, Retyped DEF ServerTyped, JobsTyped, QueriesTyped, ScreensTyped, BoundsTyped
<1>4. SameQueries /\ SameJobs
  BY DEF SameQueries, SameJobs
<1>5. Counted'
  BY <1>4, CountedStays, Numbers DEF PortfolioInv, SameSent, SameJobs
<1>6. MadeExist' /\ FlightsLead' /\ AllSeen'
  BY <1>4, JobsStay
<1>7. QueriesExist'
  BY <1>2 DEF PortfolioInv, QueriesExist
<1>8. PaidListed'
  BY PaidListedStays DEF PortfolioInv
<1> QED
  BY <1>3, <1>5, <1>6, <1>7, <1>8 DEF PortfolioInv

\* One calculation changes, and none is taken back from paid.
LEMMA OneTier ==
  ASSUME PortfolioInv, UNCHANGED active, NEW s \in 1..active, NEW t \in Tiers,
         tiers' = [tiers EXCEPT ![s] = t], tiers[s].tier = "paid" => t.tier = "paid"
  PROVE  /\ tiers' \in [Snapshots -> Tiers] /\ FutureBlank' /\ PaidStays
         /\ s \in Snapshots /\ tiers'[s] = t
<1>1. ServerTyped
  BY Typing DEF PortfolioInv
<1>2. s \in Snapshots /\ s \in Nat /\ active \in Nat /\ ~(s > active)
  BY SnapshotFacts, Numbers DEF PortfolioInv
<1>3. tiers' \in [Snapshots -> Tiers] /\ tiers'[s] = t
  BY <1>1, <1>2 DEF ServerTyped
<1>4. \A r \in Snapshots : r # s => tiers'[r] = tiers[r]
  BY <1>1 DEF ServerTyped
<1>5. FutureBlank'
  BY <1>2, <1>4 DEF PortfolioInv, FutureBlank
<1>6. PaidStays
  BY <1>3, <1>4 DEF PaidStays
<1> QED
  BY <1>2, <1>3, <1>5, <1>6

\* Asking for a report starts it unless it runs or has ended well, and never
\* takes a paid one back.
LEMMA StartFacts ==
  ASSUME NEW is \in Tiers, NEW tier \in {"preview", "paid"}
  PROVE  /\ Starts(is, tier) \in Tiers
         /\ is.tier = "paid" \/ tier = "paid" => Starts(is, tier).tier = "paid"
  BY TierFacts DEF Starts

LEMMA Asking ==
  ASSUME PortfolioInv, UNCHANGED active, NEW s \in 1..active, RequestPaid(s) \/ RequestPreview(s)
  PROVE  /\ tiers' \in [Snapshots -> Tiers] /\ FutureBlank' /\ PaidStays
         /\ RequestPaid(s) => s \in Snapshots /\ tiers'[s].tier = "paid"
<1>1. ServerTyped /\ s \in Snapshots
  BY Typing, SnapshotFacts, Numbers DEF PortfolioInv
<1>2. tiers[s] \in Tiers
  BY <1>1 DEF ServerTyped
<1>3. CASE RequestPaid(s)
  <2>1. tiers' = [tiers EXCEPT ![s] = Starts(tiers[s], "paid")]
    BY <1>3 DEF RequestPaid
  <2>2. Starts(tiers[s], "paid") \in Tiers /\ Starts(tiers[s], "paid").tier = "paid"
    BY <1>2, StartFacts
  <2> QED
    BY <2>1, <2>2, OneTier
<1>4. CASE ~RequestPaid(s)
  <2>1. tiers' = [tiers EXCEPT ![s] = Starts(tiers[s], "preview")]
    BY <1>4 DEF RequestPreview
  <2>2. /\ Starts(tiers[s], "preview") \in Tiers
        /\ tiers[s].tier = "paid" => Starts(tiers[s], "preview").tier = "paid"
    BY <1>2, StartFacts
  <2> QED
    BY <1>4, <2>1, <2>2, OneTier
<1> QED
  BY <1>3, <1>4

LEMMA TiersSame ==
  ASSUME PortfolioInv, UNCHANGED <<active, tiers>>
  PROVE  tiers' \in [Snapshots -> Tiers] /\ FutureBlank' /\ PaidStays
  BY Typing DEF PortfolioInv, FutureBlank, PaidStays, ServerTyped

LEMMA DiagnoseAnswerKeeps ==
  ASSUME PortfolioInv, DiagnoseAnswer
  PROVE  /\ PortfolioInv'
         /\ screen' = "paid" /\ screen' # screen => \E s \in Snapshots : tiers'[s].tier = "paid"
<1>1. ServerTyped /\ ScreensTyped /\ BoundsTyped
  BY Typing DEF PortfolioInv
<1>2. UNCHANGED <<active, entitled, job, rows, portfolio, known, presses>> /\ diagnose' = NoDiagnose
  BY DEF DiagnoseAnswer, queries
<1>3. active \in 1..active
  BY Numbers, SnapshotFacts DEF PortfolioInv
<1>4. /\ screen' \in Screens /\ troubles' \in 0..MaxTroubles /\ (troubles' = 0 => troubles = 0)
      /\ \/ UNCHANGED <<tiers, screen>>
         \/ \E s \in 1..active : RequestPaid(s) \/ (RequestPreview(s) /\ screen' # "paid")
  <2>1. CASE /\ CASE diagnose.pc = "paid" -> RequestPaid(diagnose.s) /\ screen' = "paid"
                  [] diagnose.pc = "active paid" -> RequestPaid(active) /\ screen' = "paid"
                  [] diagnose.pc = "active preview" -> RequestPreview(active) /\ screen' = "preview"
             /\ UNCHANGED troubles
    <3>1. diagnose.pc = "paid" \/ diagnose.pc = "active paid" \/ diagnose.pc = "active preview"
      BY <1>1 DEF DiagnoseAnswer, ScreensTyped, Diagnoses
    <3>2. CASE diagnose.pc = "paid"
      BY <1>1, <2>1, <3>2 DEF PortfolioInv, QueriesExist, Screens, BoundsTyped
    <3>3. CASE diagnose.pc = "active paid"
      BY <1>1, <1>3, <2>1, <3>3 DEF Screens, BoundsTyped
    <3>4. CASE diagnose.pc = "active preview"
      BY <1>1, <1>3, <2>1, <3>4 DEF Screens, BoundsTyped
    <3> QED
      BY <3>1, <3>2, <3>3, <3>4
  <2>2. CASE UNCHANGED <<tiers, screen, troubles>> \/ (Trouble /\ UNCHANGED <<tiers, screen>>)
    BY <1>1, <2>2, Trouble1 DEF ScreensTyped, BoundsTyped
  <2> QED
    BY <2>1, <2>2 DEF DiagnoseAnswer
<1>5. tiers' \in [Snapshots -> Tiers] /\ FutureBlank' /\ PaidStays
  BY <1>2, <1>4, TiersSame, Asking
<1>6. PortfolioInv'
  BY <1>1, <1>2, <1>4, <1>5, ReportsMove DEF ServerTyped
<1>7. screen' = "paid" /\ screen' # screen => \E s \in Snapshots : tiers'[s].tier = "paid"
  BY <1>2, <1>4, Asking
<1> QED
  BY <1>6, <1>7

LEMMA ReportsKeep ==
  ASSUME PortfolioInv, AskPaid \/ \E s \in Snapshots : JobEnds(s)
  PROVE  PortfolioInv' /\ UNCHANGED screen
<1>1. ServerTyped /\ ScreensTyped /\ BoundsTyped
  BY Typing DEF PortfolioInv
<1>2. UNCHANGED <<active, entitled, job, rows, portfolio, known, diagnose, screen, presses>>
  BY DEF AskPaid, JobEnds, queries
<1>3. CASE AskPaid
  <2>1. tiers' \in [Snapshots -> Tiers] /\ FutureBlank' /\ PaidStays
    BY <1>2, <1>3, Asking DEF AskPaid
  <2> QED
    BY <1>1, <1>2, <1>3, <2>1, ReportsMove DEF AskPaid, ServerTyped, ScreensTyped, BoundsTyped
<1>4. ASSUME NEW s \in Snapshots, JobEnds(s)
      PROVE  PortfolioInv'
  <2>1. tiers[s] \in Tiers
    BY <1>1 DEF ServerTyped
  <2>2. s \in 1..active
    BY <1>4, Numbers, SnapshotFacts, TierFacts DEF PortfolioInv, FutureBlank, JobEnds
  <2>3. PICK status \in {"ready", "failed"} : tiers' = [tiers EXCEPT ![s].status = status]
    BY <1>4 DEF JobEnds
  <2>4. PICK t : t = [tiers[s] EXCEPT !.status = status]
    OBVIOUS
  <2>5. t \in Tiers /\ t.tier = tiers[s].tier
    BY <2>1, <2>4 DEF Tiers
  <2>6. tiers' = [tiers EXCEPT ![s] = t]
    BY <2>3, <2>4
  <2>7. tiers' \in [Snapshots -> Tiers] /\ FutureBlank' /\ PaidStays
    BY <1>2, <2>2, <2>5, <2>6, OneTier
  <2>8. troubles' \in 0..MaxTroubles /\ (troubles' = 0 => troubles = 0)
    BY <1>1, <1>4, Trouble1 DEF JobEnds, BoundsTyped
  <2> QED
    BY <1>1, <1>2, <2>7, <2>8, ReportsMove DEF ServerTyped, ScreensTyped
<1> QED
  BY <1>2, <1>3, <1>4

----------------------------------------------------------------------------
(* The queries                                                             *)

\* What a step makes of a query: nothing, a new request, or an answer.
RowsMove ==
    \/ rows' = rows \/ rows' = Asked(rows)
    \/ rows.flight # None /\ \E s \in {rows.flight, active} : rows' = [data |-> RowOf(s), flight |-> None]
PortfolioMove ==
    \/ portfolio' = portfolio \/ portfolio' = Asked(portfolio)
    \/ portfolio.flight # None /\ \E s \in {portfolio.flight, active} : portfolio' = [data |-> s, flight |-> None]

Setter == \E r \in Refreshes : Sets(r)

\* What was shown or asked for still is, or is followed by a later snapshot.
RowsCarry == \A s \in 1..active : RowsSeen(s) => rows'.data.s >= s \/ rows'.flight >= s
PortfolioCarry == \A s \in 1..active : PortfolioSeen(s) => portfolio'.data >= s \/ portfolio'.flight >= s

LEMMA RowsKeep ==
  ASSUME PortfolioInv, UNCHANGED <<active, tiers>>, RowsMove
  PROVE  /\ rows' \in RowsStates /\ rows'.data.s <= active /\ rows'.flight <= active
         /\ rows'.flight = None \/ rows'.flight >= rows'.data.s
         /\ RowsCarry /\ PaidListed'
<1>1. ServerTyped /\ QueriesTyped
  BY Typing DEF PortfolioInv
<1>2. /\ rows.data.s <= active /\ rows.flight <= active
      /\ rows.flight = None \/ rows.flight >= rows.data.s
  BY DEF PortfolioInv, QueriesExist, FlightsLead
<1>3. CASE rows' = rows
  BY <1>1, <1>2, <1>3, PaidListedStays DEF QueriesTyped, RowsCarry, RowsSeen, PortfolioInv, PaidStays
<1>4. CASE rows' = Asked(rows)
  <2>1. rows' \in RowsStates /\ rows'.data = rows.data /\ rows'.flight = active
    BY <1>1, <1>4, Asks DEF ServerTyped, QueriesTyped
  <2>2. PaidListed'
    BY <2>1, PaidListedStays DEF PortfolioInv, PaidStays
  <2> QED
    BY <1>2, <2>1, <2>2, Numbers DEF RowsCarry, RowsSeen, PortfolioInv
<1>5. ASSUME NEW s \in {rows.flight, active}, rows.flight # None, rows' = [data |-> RowOf(s), flight |-> None]
      PROVE  /\ rows' \in RowsStates /\ rows'.data.s <= active /\ rows'.flight <= active
             /\ rows'.flight = None \/ rows'.flight >= rows'.data.s
             /\ RowsCarry /\ PaidListed'
  <2>1. s \in Snapshots /\ s <= active /\ s >= rows.flight
    BY <1>2, <1>5, Numbers DEF PortfolioInv
  <2>2. RowOf(s) \in Row /\ RowOf(s).s = s /\ RowOf(s).is = tiers[s]
    BY <1>1, <2>1 DEF RowOf, Row, ServerTyped
  <2>3. rows' \in RowsStates /\ rows'.data = RowOf(s) /\ rows'.flight = None
    BY <1>5, <2>2 DEF RowsStates
  <2>4. RowsCarry
    BY <1>2, <1>5, <2>1, <2>2, <2>3, Numbers DEF RowsCarry, RowsSeen, PortfolioInv
  <2>5. PaidListed'
    BY <2>1, <2>2, <2>3 DEF PaidListed
  <2> QED
    BY <2>1, <2>2, <2>3, <2>4, <2>5, Numbers, SnapshotFacts DEF PortfolioInv
<1> QED
  BY <1>3, <1>4, <1>5 DEF RowsMove

LEMMA PortfolioKeep ==
  ASSUME PortfolioInv, UNCHANGED active, PortfolioMove
  PROVE  /\ portfolio' \in PortfolioStates /\ portfolio'.data <= active /\ portfolio'.flight <= active
         /\ Setter \/ ((portfolio'.flight = None \/ portfolio'.flight >= portfolio'.data) /\ PortfolioCarry)
<1>1. ServerTyped /\ QueriesTyped
  BY Typing DEF PortfolioInv
<1>2. /\ portfolio.data <= active /\ portfolio.flight <= active
      /\ Setter \/ portfolio.flight = None \/ portfolio.flight >= portfolio.data
  BY DEF PortfolioInv, QueriesExist, FlightsLead, Setter
<1>3. CASE portfolio' = portfolio
  BY <1>1, <1>2, <1>3 DEF QueriesTyped, PortfolioCarry, PortfolioSeen
<1>4. CASE portfolio' = Asked(portfolio)
  <2>1. portfolio' \in PortfolioStates /\ portfolio'.data = portfolio.data /\ portfolio'.flight = active
    BY <1>1, <1>4, Asks DEF ServerTyped, QueriesTyped
  <2> QED
    BY <1>2, <2>1, Numbers DEF PortfolioCarry, PortfolioSeen, PortfolioInv
<1>5. ASSUME NEW s \in {portfolio.flight, active}, portfolio.flight # None,
             portfolio' = [data |-> s, flight |-> None]
      PROVE  /\ portfolio' \in PortfolioStates /\ portfolio'.data <= active /\ portfolio'.flight <= active
             /\ Setter \/ ((portfolio'.flight = None \/ portfolio'.flight >= portfolio'.data) /\ PortfolioCarry)
  <2>1. portfolio.flight \in Snapshots
    BY <1>1, <1>5 DEF QueriesTyped, PortfolioStates
  <2>2. s \in Snapshots /\ s <= active /\ s >= portfolio.flight
    BY <1>2, <1>5, <2>1, Numbers DEF PortfolioInv
  <2>3. portfolio' \in PortfolioStates /\ portfolio'.data = s /\ portfolio'.flight = None
    BY <1>5, <2>2 DEF PortfolioStates
  <2>4. Setter \/ PortfolioCarry
    BY <1>2, <1>5, <2>2, <2>3, Numbers DEF PortfolioCarry, PortfolioSeen, PortfolioInv
  <2> QED
    BY <2>2, <2>3, <2>4, Numbers, SnapshotFacts DEF PortfolioInv
<1> QED
  BY <1>3, <1>4, <1>5 DEF PortfolioMove

\* Nobody forgets a refresh that has set the portfolio.
SetsStay == \A r \in Refreshes : Sets(r) => job'[r].pc \in {"reports", "done"}

LEMMA SeenStays ==
  ASSUME PortfolioInv, NEW j \in Commands \cup Refreshes, Seen(j), SetsStay, RowsCarry, Setter \/ PortfolioCarry,
         job'[j].pc = job[j].pc, job'[j].made = job[j].made
  PROVE  Seen(j)'
<1>1. j \in Jobs /\ (job[j].pc \in {"portfolio", "reports", "done"} => job[j].made \in 1..active)
  BY DEF Jobs, PortfolioInv, MadeExist
<1>2. job'[j].pc \in {"reports", "done"} => rows'.data.s >= job'[j].made \/ rows'.flight >= job'[j].made
  BY <1>1 DEF Seen, RowsCarry
<1>3. Setter => \E r \in Refreshes : Sets(r)'
  BY DEF Setter, SetsStay, Sets
<1>4. j \in Commands /\ job'[j].pc \in {"portfolio", "reports", "done"} =>
        \/ portfolio'.data >= job'[j].made \/ portfolio'.flight >= job'[j].made
        \/ \E r \in Refreshes : Sets(r)'
  BY <1>1, <1>3 DEF Seen, PortfolioCarry, Setter
<1> QED
  BY <1>2, <1>4 DEF Seen, RowsSeen, PortfolioSeen

\* A step that asks or answers, and leaves the handlers alone.
LEMMA QueriesMove ==
  ASSUME PortfolioInv, UNCHANGED <<server, job, known, diagnose, screen, troubles, presses>>, RowsMove, PortfolioMove
  PROVE  PortfolioInv'
<1>1. ServerTyped /\ JobsTyped /\ QueriesTyped /\ ScreensTyped /\ BoundsTyped
  BY Typing DEF PortfolioInv
<1>2. UNCHANGED <<active, tiers, entitled>>
  BY DEF server
<1>3. /\ rows' \in RowsStates /\ rows'.data.s <= active /\ rows'.flight <= active
      /\ rows'.flight = None \/ rows'.flight >= rows'.data.s
      /\ RowsCarry /\ PaidListed'
  BY <1>2, RowsKeep
<1>4. /\ portfolio' \in PortfolioStates /\ portfolio'.data <= active /\ portfolio'.flight <= active
      /\ Setter \/ ((portfolio'.flight = None \/ portfolio'.flight >= portfolio'.data) /\ PortfolioCarry)
  BY <1>2, PortfolioKeep
<1>5. TypeOK'
  BY <1>1, <1>2, <1>3, <1>4, Retyped DEF ServerTyped, JobsTyped, QueriesTyped, ScreensTyped, BoundsTyped
<1>6. SameSent /\ SetsStay
  BY DEF SameSent, SetsStay, Sets
<1>7. Counted'
  BY <1>2, <1>6, CountedStays, Numbers DEF PortfolioInv
<1>8. MadeExist' /\ QueriesExist' /\ FutureBlank'
  BY <1>2, <1>3, <1>4 DEF PortfolioInv, MadeExist, QueriesExist, FutureBlank
<1>9. FlightsLead'
  BY <1>3, <1>4 DEF FlightsLead, Setter, Sets
<1>10. AllSeen'
  BY <1>3, <1>4, <1>6, SeenStays DEF PortfolioInv, AllSeen
<1> QED
  BY <1>3, <1>5, <1>7, <1>8, <1>9, <1>10 DEF PortfolioInv

LEMMA QueriesKeep ==
  ASSUME PortfolioInv, Focus \/ RowsAnswer \/ PortfolioAnswer
  PROVE  PortfolioInv' /\ UNCHANGED screen
<1>1. UNCHANGED <<server, job, known, diagnose, screen, troubles, presses>>
  BY DEF Focus, RowsAnswer, PortfolioAnswer
<1>2. RowsMove /\ PortfolioMove
  BY DEF Focus, RowsAnswer, PortfolioAnswer, RowsMove, PortfolioMove
<1> QED
  BY <1>1, <1>2, QueriesMove

\* A failed request is a trouble, and the lists may stay behind.
LEMMA QueryFailsKeeps ==
  ASSUME PortfolioInv, QueryFails
  PROVE  PortfolioInv' /\ UNCHANGED screen
<1>1. ServerTyped /\ JobsTyped /\ QueriesTyped /\ ScreensTyped /\ BoundsTyped
  BY Typing DEF PortfolioInv
<1>2. UNCHANGED <<active, tiers, entitled, job, known, diagnose, screen, presses>>
  BY DEF QueryFails, server
<1>3. troubles' \in 0..MaxTroubles /\ troubles' # 0
  BY <1>1, Trouble1 DEF QueryFails
<1>4. /\ rows' = rows \/ rows' = [rows EXCEPT !.flight = None]
      /\ portfolio' = portfolio \/ portfolio' = [portfolio EXCEPT !.flight = None]
  BY DEF QueryFails
<1>5. rows' \in RowsStates /\ rows'.data = rows.data /\ (rows'.flight = rows.flight \/ rows'.flight = None)
  BY <1>1, <1>4 DEF QueriesTyped, RowsStates
<1>6. /\ portfolio' \in PortfolioStates /\ portfolio'.data = portfolio.data
      /\ portfolio'.flight = portfolio.flight \/ portfolio'.flight = None
  BY <1>1, <1>4 DEF QueriesTyped, PortfolioStates
<1>7. TypeOK'
  BY <1>1, <1>2, <1>3, <1>5, <1>6, Retyped DEF ServerTyped, JobsTyped, QueriesTyped, ScreensTyped, BoundsTyped
<1>8. Counted'
  BY <1>2, CountedStays, Numbers DEF PortfolioInv, SameSent
<1>9. MadeExist' /\ FutureBlank' /\ AllSeen'
  BY <1>2, <1>3 DEF PortfolioInv, MadeExist, FutureBlank, AllSeen
<1>10. QueriesExist'
  BY <1>2, <1>5, <1>6, Numbers, SnapshotFacts DEF PortfolioInv, QueriesExist
<1>11. FlightsLead'
  BY <1>2, <1>5, <1>6 DEF PortfolioInv, FlightsLead, Sets
<1>12. PaidListed'
  BY <1>2, <1>5, PaidListedStays DEF PortfolioInv, PaidStays
<1> QED
  BY <1>2, <1>7, <1>8, <1>9, <1>10, <1>11, <1>12 DEF PortfolioInv

----------------------------------------------------------------------------
(* The handlers                                                            *)

LEMMA Kinds ==
  /\ Commands \subseteq Jobs /\ Refreshes \subseteq Jobs /\ Executions \subseteq Jobs /\ Scans \subseteq Jobs
  /\ \A j \in Commands : j \notin Refreshes /\ j \notin Executions /\ j \notin Scans
  /\ \A j \in Refreshes : j \notin Executions /\ j \notin Scans
<1>1. Commands \cap Refreshes = {} /\ (Commands \cup Refreshes) \cap (Executions \cup Scans) = {}
  BY JobAssumption
<1> QED
  BY <1>1 DEF Jobs

\* A press sends one request more.
LEMMA SendKeeps ==
  ASSUME PortfolioInv, NEW j \in Jobs, Send(j)
  PROVE  PortfolioInv' /\ UNCHANGED screen
<1>1. ServerTyped /\ JobsTyped /\ QueriesTyped /\ ScreensTyped /\ BoundsTyped
  BY Typing DEF PortfolioInv
<1>2. /\ UNCHANGED <<active, tiers, entitled, rows, portfolio, known, diagnose, screen, troubles>>
      /\ job[j].pc = "unused" /\ Press
      /\ job' = [job EXCEPT ![j].pc = "sent", ![j].mounted = TRUE]
  BY DEF Send, server, queries
<1>3. /\ job' \in [Jobs -> JobStates]
      /\ job'[j].pc = "sent" /\ \A k \in Jobs : k # j => job'[k] = job[k]
  <2>1. PICK r : r = [job[j] EXCEPT !.pc = "sent", !.mounted = TRUE]
    OBVIOUS
  <2>2. job[j] \in JobStates
    BY <1>1 DEF JobsTyped
  <2>3. r \in JobStates /\ r.pc = "sent"
    BY <2>1, <2>2 DEF JobStates
  <2>4. job' = [job EXCEPT ![j] = r]
    BY <1>2, <2>1
  <2> QED
    BY <1>1, <2>3, <2>4 DEF JobsTyped
<1>4. presses \in Nat /\ presses' = presses + 1 /\ presses' \in 0..MaxPresses
  BY <1>1, <1>2, SnapshotFacts DEF Press, BoundsTyped
<1>5. TypeOK'
  BY <1>1, <1>2, <1>3, <1>4, Retyped DEF ServerTyped, JobsTyped, QueriesTyped, ScreensTyped, BoundsTyped
<1>6. Counted'
  <2>1. Sent' = Sent \cup {j} /\ j \notin Sent
    BY <1>2, <1>3 DEF Sent
  <2>2. Cardinality(Sent') = Cardinality(Sent) + 1 /\ Cardinality(Sent) \in Nat
    BY <2>1, SentFinite, FS_AddElement, FS_CardinalityType
  <2> QED
    BY <1>2, <1>4, <2>2, Numbers DEF PortfolioInv, Counted
<1>7. MadeExist'
  BY <1>2, <1>3 DEF PortfolioInv, MadeExist
<1>8. QueriesExist' /\ FutureBlank'
  BY <1>2 DEF PortfolioInv, QueriesExist, FutureBlank
<1>9. \A r \in Refreshes : Sets(r)' <=> Sets(r)
  BY <1>2, <1>3, Kinds DEF Sets
<1>10. FlightsLead'
  BY <1>2, <1>9 DEF PortfolioInv, FlightsLead
<1>11. AllSeen'
  <2> SUFFICES ASSUME troubles = 0, NEW k \in Commands \cup Refreshes
               PROVE  Seen(k)'
    BY <1>2 DEF AllSeen
  <2>1. CASE k = j
    BY <1>3, <2>1 DEF Seen
  <2>2. CASE k # j
    <3>1. Seen(k) /\ job'[k] = job[k]
      BY <1>3, <2>2, Kinds DEF PortfolioInv, AllSeen
    <3> QED
      BY <1>2, <1>9, <3>1 DEF Seen, RowsSeen, PortfolioSeen
  <2> QED
    BY <2>1, <2>2
<1>12. PaidListed'
  BY <1>2, PaidListedStays DEF PortfolioInv, PaidStays
<1> QED
  BY <1>2, <1>5, <1>6, <1>7, <1>8, <1>10, <1>11, <1>12 DEF PortfolioInv

LEMMA Rewrites ==
  ASSUME NEW r \in JobStates, NEW pc, NEW made
  PROVE  [r EXCEPT !.pc = pc, !.made = made] = [pc |-> pc, made |-> made, mounted |-> r.mounted]
<1>1. r = [pc |-> r.pc, made |-> r.made, mounted |-> r.mounted]
  BY DEF JobStates
<1>2. PICK p : p = [r EXCEPT !.pc = pc]
  OBVIOUS
<1>3. p = [pc |-> pc, made |-> r.made, mounted |-> r.mounted]
  BY <1>1, <1>2
<1>4. [p EXCEPT !.made = made] = [pc |-> pc, made |-> made, mounted |-> r.mounted]
  BY <1>3
<1> QED
  BY <1>2, <1>4, Zenon

\* The server makes the snapshot there was room for, or there is none.
LEMMA ApplyKeeps ==
  ASSUME PortfolioInv, NEW j \in Jobs, Apply(j)
  PROVE  PortfolioInv' /\ UNCHANGED screen
<1>1. ServerTyped /\ JobsTyped /\ QueriesTyped /\ ScreensTyped /\ BoundsTyped
  BY Typing DEF PortfolioInv
<1>2. UNCHANGED <<entitled, rows, portfolio, known, diagnose, screen, presses>> /\ job[j].pc = "sent"
  BY DEF Apply, queries
<1>3. active \in Nat /\ presses \in Nat /\ presses <= MaxPresses /\ active + 1 <= 1 + presses
      /\ (Cardinality(Sent) \in Nat /\ Cardinality(Sent \ {j}) = Cardinality(Sent) - 1)
  <2>1. j \in Sent
    BY <1>2 DEF Sent
  <2>2. /\ Cardinality(Sent) \in Nat /\ Cardinality(Sent \ {j}) \in Nat
        /\ Cardinality(Sent \ {j}) = Cardinality(Sent) - 1
    BY <2>1, SentFinite, FS_RemoveElement, FS_CardinalityType
  <2>3. presses <= MaxPresses
    BY <1>1, SnapshotFacts DEF BoundsTyped
  <2> QED
    BY <2>2, <2>3, Numbers DEF PortfolioInv, Counted
<1>4. active + 1 \in Snapshots
  BY <1>3, SnapshotFacts DEF Snapshots
<1>5. PICK pc \in {"applied", "failed"}, made \in Snapshots \cup {None} :
        /\ job' = [job EXCEPT ![j] = [pc |-> pc, made |-> made, mounted |-> job[j].mounted]]
        /\ \/ /\ pc = "applied" /\ made = active + 1 /\ active' = active + 1 /\ UNCHANGED troubles
              /\ tiers' = tiers \/ tiers' = [tiers EXCEPT ![active + 1] = Tier("preview", "processing")]
           \/ pc = "failed" /\ Trouble /\ UNCHANGED <<active, tiers>>
  <2>1. job[j] \in JobStates /\ job[j].made \in Snapshots \cup {None}
    BY <1>1 DEF JobsTyped, JobStates
  <2>2. CASE /\ active' = active + 1
             /\ job' = [job EXCEPT ![j].pc = "applied", ![j].made = active + 1]
             /\ tiers' = IF j \in Scans THEN [tiers EXCEPT ![active + 1] = Tier("preview", "processing")] ELSE tiers
             /\ UNCHANGED troubles
    <3>1. [job[j] EXCEPT !.pc = "applied", !.made = active + 1]
            = [pc |-> "applied", made |-> active + 1, mounted |-> job[j].mounted]
      BY <2>1, Rewrites, <1>4
    <3>2. job' = [job EXCEPT ![j] = [job[j] EXCEPT !.pc = "applied", !.made = active + 1]]
      BY <2>2
    <3>3. job' = [job EXCEPT ![j] = [pc |-> "applied", made |-> active + 1, mounted |-> job[j].mounted]]
      BY <3>1, <3>2
    <3> QED
      BY <1>4, <2>2, <3>3
  <2>3. CASE job' = [job EXCEPT ![j].pc = "failed"] /\ Trouble /\ UNCHANGED <<active, tiers>>
    <3>1. [job[j] EXCEPT !.pc = "failed"] = [pc |-> "failed", made |-> job[j].made, mounted |-> job[j].mounted]
      BY <2>1 DEF JobStates
    <3>2. job' = [job EXCEPT ![j] = [job[j] EXCEPT !.pc = "failed"]]
      BY <2>3
    <3>3. job' = [job EXCEPT ![j] = [pc |-> "failed", made |-> job[j].made, mounted |-> job[j].mounted]]
      BY <3>1, <3>2
    <3> QED
      BY <2>1, <2>3, <3>3
  <2> QED
    BY <2>2, <2>3 DEF Apply
<1>6. /\ job' \in [Jobs -> JobStates] /\ job'[j].pc = pc /\ job'[j].made = made
      /\ \A k \in Jobs : k # j => job'[k] = job[k]
  <2>1. [pc |-> pc, made |-> made, mounted |-> job[j].mounted] \in JobStates
    BY <1>1 DEF JobsTyped, JobStates
  <2> QED
    BY <1>1, <1>5, <2>1 DEF JobsTyped
<1>7. active' \in Snapshots /\ active <= active' /\ active' <= active + 1
  BY <1>1, <1>3, <1>4, <1>5 DEF ServerTyped
<1>8. tiers' \in [Snapshots -> Tiers] /\ FutureBlank' /\ PaidStays
  <2>1. CASE tiers' = tiers
    BY <1>1, <1>3, <1>7, <2>1, SnapshotFacts DEF ServerTyped, PortfolioInv, FutureBlank, PaidStays
  <2>2. CASE active' = active + 1 /\ tiers' = [tiers EXCEPT ![active + 1] = Tier("preview", "processing")]
    <3>1. tiers[active + 1].tier = "none"
      BY <1>3, <1>4, TierFacts DEF PortfolioInv, FutureBlank
    <3>2. tiers' \in [Snapshots -> Tiers]
      BY <1>1, <1>4, <2>2, TierFacts DEF ServerTyped
    <3>3. \A s \in Snapshots : s # active + 1 => tiers'[s] = tiers[s]
      BY <1>1, <1>4, <2>2 DEF ServerTyped
    <3>4. FutureBlank'
      BY <1>3, <2>2, <3>3, SnapshotFacts DEF PortfolioInv, FutureBlank
    <3> QED
      BY <3>1, <3>2, <3>3, <3>4 DEF PaidStays
  <2> QED
    BY <1>5, <2>1, <2>2
<1>9. troubles' \in 0..MaxTroubles /\ (troubles' = 0 => troubles = 0)
  BY <1>1, <1>5, Trouble1 DEF BoundsTyped
<1>10. TypeOK'
  BY <1>1, <1>2, <1>6, <1>7, <1>8, <1>9, Retyped DEF ServerTyped, JobsTyped, QueriesTyped, ScreensTyped, BoundsTyped
<1>11. Counted'
  <2>1. Sent' = Sent \ {j}
    BY <1>5, <1>6 DEF Sent
  <2> QED
    BY <1>2, <1>3, <1>5, <2>1, Numbers DEF PortfolioInv, Counted
<1>12. MadeExist'
  <2> SUFFICES ASSUME NEW k \in Jobs, job'[k].pc \in {"applied", "portfolio", "reports", "done"}
               PROVE  job'[k].made \in 1..active'
    BY DEF MadeExist
  <2>1. CASE k = j
    BY <1>3, <1>5, <1>6, <2>1
  <2>2. CASE k # j
    BY <1>3, <1>6, <1>7, <2>2, SnapshotFacts DEF PortfolioInv, MadeExist
  <2> QED
    BY <2>1, <2>2
<1>13. QueriesExist'
  <2>1. QueriesExist /\ diagnose.s \in Nat
    BY <1>1, SnapshotFacts DEF PortfolioInv, ScreensTyped, Diagnoses
  <2> QED
    BY <1>2, <1>3, <1>7, <2>1, Numbers, SnapshotFacts DEF PortfolioInv, QueriesExist
<1>14. \A r \in Refreshes : Sets(r)' <=> Sets(r)
  BY <1>2, <1>5, <1>6, Kinds DEF Sets
<1>15. FlightsLead'
  BY <1>2, <1>14 DEF PortfolioInv, FlightsLead
<1>16. AllSeen'
  <2> SUFFICES ASSUME troubles = 0, NEW k \in Commands \cup Refreshes
               PROVE  Seen(k)'
    BY <1>9 DEF AllSeen
  <2>1. CASE k = j
    BY <1>5, <1>6, <2>1 DEF Seen
  <2>2. CASE k # j
    <3>1. Seen(k) /\ job'[k] = job[k]
      BY <1>6, <2>2, Kinds DEF PortfolioInv, AllSeen
    <3> QED
      BY <1>2, <1>14, <3>1 DEF Seen, RowsSeen, PortfolioSeen
  <2> QED
    BY <2>1, <2>2
<1>17. PaidListed'
  BY <1>2, <1>8, PaidListedStays DEF PortfolioInv
<1> QED
  BY <1>2, <1>8, <1>10, <1>11, <1>12, <1>13, <1>15, <1>16, <1>17 DEF PortfolioInv

\* A handler that goes on: what it does to the queries, and what it leaves.
LEMMA HandlerMoves ==
  ASSUME PortfolioInv, NEW j \in Jobs, NEW pc \in {"portfolio", "reports", "done"},
         UNCHANGED <<server, known, diagnose, troubles, presses>>, screen' \in Screens,
         job[j].pc \in {"applied", "portfolio", "reports"},
         pc = "portfolio" => job[j].pc = "applied", job' = [job EXCEPT ![j].pc = pc],
         RowsMove, PortfolioMove \/ (j \in Refreshes /\ pc = "reports"
                                     /\ portfolio' = [data |-> job[j].made, flight |-> portfolio.flight]),
         j \in Commands \cup Refreshes /\ pc \in {"reports", "done"} =>
             rows' = Asked(rows) \/ job[j].pc = "reports",
         j \in Commands => portfolio' = Asked(portfolio) \/ job[j].pc # "applied"
  PROVE  PortfolioInv'
<1>1. ServerTyped /\ JobsTyped /\ QueriesTyped /\ ScreensTyped /\ BoundsTyped
  BY Typing DEF PortfolioInv
<1>2. UNCHANGED <<active, tiers, entitled>>
  BY DEF server
<1>3. job[j].made \in 1..active /\ job[j].made \in Snapshots
  BY SnapshotFacts, Numbers DEF PortfolioInv, MadeExist
<1>4. /\ job' \in [Jobs -> JobStates] /\ job'[j].pc = pc /\ job'[j].made = job[j].made
      /\ \A k \in Jobs : k # j => job'[k] = job[k]
  <2>1. PICK r : r = [job[j] EXCEPT !.pc = pc]
    OBVIOUS
  <2>2. job[j] \in JobStates
    BY <1>1 DEF JobsTyped
  <2>3. r \in JobStates /\ r.pc = pc /\ r.made = job[j].made
    BY <2>1, <2>2 DEF JobStates
  <2>4. job' = [job EXCEPT ![j] = r]
    BY <2>1
  <2> QED
    BY <1>1, <2>3, <2>4 DEF JobsTyped
<1>5. /\ rows' \in RowsStates /\ rows'.data.s <= active /\ rows'.flight <= active
      /\ rows'.flight = None \/ rows'.flight >= rows'.data.s
      /\ RowsCarry /\ PaidListed'
  BY <1>2, RowsKeep
<1>6. SetsStay /\ SameSent
  BY <1>4, Kinds DEF SetsStay, SameSent, Sets
<1>7. Setter => \E r \in Refreshes : Sets(r)'
  BY <1>6 DEF Setter, SetsStay, Sets
<1>8. /\ portfolio' \in PortfolioStates /\ portfolio'.data <= active /\ portfolio'.flight <= active
      /\ \/ \E r \in Refreshes : Sets(r)'
         \/ (portfolio'.flight = None \/ portfolio'.flight >= portfolio'.data) /\ PortfolioCarry
  <2>1. CASE PortfolioMove
    BY <1>2, <1>7, <2>1, PortfolioKeep
  <2>2. CASE j \in Refreshes /\ pc = "reports" /\ portfolio' = [data |-> job[j].made, flight |-> portfolio.flight]
    <3>1. Sets(j)'
      BY <1>4, <2>2 DEF Sets
    <3>2. portfolio' \in PortfolioStates /\ portfolio'.data = job[j].made /\ portfolio'.flight = portfolio.flight
      BY <1>1, <1>3, <2>2 DEF QueriesTyped, PortfolioStates
    <3> QED
      BY <1>3, <2>2, <3>1, <3>2, Numbers DEF PortfolioInv, QueriesExist
  <2> QED
    BY <2>1, <2>2
<1>9. TypeOK'
  BY <1>1, <1>2, <1>4, <1>5, <1>8, Retyped DEF ServerTyped, JobsTyped, QueriesTyped, ScreensTyped, BoundsTyped
<1>10. Counted'
  BY <1>2, <1>6, CountedStays, Numbers DEF PortfolioInv
<1>11. MadeExist'
  BY <1>2, <1>3, <1>4 DEF PortfolioInv, MadeExist
<1>12. QueriesExist' /\ FutureBlank'
  BY <1>2, <1>5, <1>8 DEF PortfolioInv, QueriesExist, FutureBlank
<1>13. FlightsLead'
  BY <1>5, <1>8 DEF FlightsLead
<1>14. AllSeen'
  <2> SUFFICES ASSUME troubles = 0, NEW k \in Commands \cup Refreshes
               PROVE  Seen(k)'
    BY DEF AllSeen
  <2>1. Seen(k) /\ k \in Jobs
    BY Kinds DEF PortfolioInv, AllSeen
  <2>2. CASE k # j
    <3>1. job'[k].pc = job[k].pc /\ job'[k].made = job[k].made
      BY <1>4, <2>1, <2>2
    <3>2. \/ Setter \/ PortfolioCarry
          \/ \E r \in Refreshes : Sets(r)'
      BY <1>8
    <3>3. CASE Setter \/ PortfolioCarry
      BY <1>5, <1>6, <2>1, <3>1, <3>3, SeenStays
    <3>4. CASE \E r \in Refreshes : Sets(r)'
      <4>1. job[k].pc \in {"reports", "done"} => job[k].made \in 1..active
        BY <2>1 DEF PortfolioInv, MadeExist
      <4>2. job'[k].pc \in {"reports", "done"} => rows'.data.s >= job'[k].made \/ rows'.flight >= job'[k].made
        BY <1>5, <2>1, <3>1, <4>1 DEF Seen, RowsCarry
      <4> QED
        BY <3>4, <4>2 DEF Seen, RowsSeen
    <3> QED
      BY <3>2, <3>3, <3>4
  <2>3. CASE k = j
    <3>1. rows' = Asked(rows) => rows'.flight = active
      BY <1>1, Asks DEF ServerTyped, QueriesTyped
    <3>2. portfolio' = Asked(portfolio) => portfolio'.flight = active
      BY <1>1, Asks DEF ServerTyped, QueriesTyped
    <3>3. job'[j].pc \in {"reports", "done"} => rows'.data.s >= job'[j].made \/ rows'.flight >= job'[j].made
      <4>1. CASE rows' = Asked(rows)
        BY <1>3, <1>4, <3>1, <4>1, Numbers DEF PortfolioInv
      <4>2. CASE job[j].pc = "reports"
        BY <1>3, <1>4, <1>5, <2>1, <2>3, <4>2 DEF Seen, RowsCarry
      <4> QED
        BY <1>4, <2>3, <4>1, <4>2
    <3>4. j \in Commands => \/ portfolio'.data >= job'[j].made \/ portfolio'.flight >= job'[j].made
                            \/ \E r \in Refreshes : Sets(r)'
      <4>1. CASE portfolio' = Asked(portfolio)
        BY <1>3, <1>4, <3>2, <4>1, Numbers DEF PortfolioInv
      <4>2. CASE job[j].pc # "applied" /\ j \in Commands
        BY <1>3, <1>4, <1>7, <1>8, <2>1, <2>3, <4>2 DEF Seen, PortfolioCarry, Setter
      <4> QED
        BY <4>1, <4>2
    <3> QED
      BY <2>3, <3>3, <3>4 DEF Seen, RowsSeen, PortfolioSeen
  <2> QED
    BY <2>2, <2>3
<1> QED
  BY <1>5, <1>9, <1>10, <1>11, <1>12, <1>13, <1>14 DEF PortfolioInv

LEMMA AnswerKeeps ==
  ASSUME PortfolioInv, NEW j \in Jobs, Answer(j)
  PROVE  PortfolioInv' /\ job' # job
<1>1. JobsTyped /\ ScreensTyped
  BY Typing DEF PortfolioInv
<1>2. UNCHANGED <<server, known, diagnose, troubles, presses>> /\ job[j].pc = "applied"
  BY DEF Answer, Answered
<1>3. screen' \in Screens
  BY <1>1 DEF Answer, Screens, ScreensTyped
<1>4. job[j] \in JobStates
  BY <1>1 DEF JobsTyped
<1>5. ASSUME NEW pc \in {"portfolio", "reports", "done"}, job' = [job EXCEPT ![j].pc = pc]
      PROVE  job' # job
  BY <1>1, <1>2, <1>5 DEF JobsTyped, JobStates
<1>6. CASE j \in Commands
  <2>1. job' = [job EXCEPT ![j].pc = "portfolio"] /\ portfolio' = Asked(portfolio) /\ rows' = rows
    BY <1>6, Kinds DEF Answer
  <2> QED
    BY <1>2, <1>3, <1>5, <1>6, <2>1, HandlerMoves DEF RowsMove, PortfolioMove
<1>7. CASE j \in Refreshes
  <2>1. /\ job' = [job EXCEPT ![j].pc = "reports"] /\ rows' = Asked(rows)
        /\ portfolio' = [data |-> job[j].made, flight |-> portfolio.flight] /\ j \notin Commands
    BY <1>7, Kinds DEF Answer
  <2> QED
    BY <1>2, <1>3, <1>5, <1>7, <2>1, HandlerMoves DEF RowsMove
<1>8. CASE j \notin Commands \cup Refreshes
  <2>1. job' = [job EXCEPT ![j].pc = "done"] /\ rows' = rows /\ portfolio' = portfolio
    BY <1>8 DEF Answer
  <2> QED
    BY <1>2, <1>3, <1>5, <1>8, <2>1, HandlerMoves DEF RowsMove, PortfolioMove
<1> QED
  BY <1>6, <1>7, <1>8

LEMMA AwaitEndsKeeps ==
  ASSUME PortfolioInv, NEW j \in Jobs, AwaitEnds(j)
  PROVE  PortfolioInv' /\ UNCHANGED screen
<1>1. ScreensTyped
  BY Typing DEF PortfolioInv
<1>2. UNCHANGED <<server, known, diagnose, troubles, presses, screen, portfolio>> /\ screen' \in Screens
  BY <1>1 DEF AwaitEnds, ScreensTyped
<1>3. CASE job[j].pc = "portfolio" /\ job' = [job EXCEPT ![j].pc = "reports"] /\ rows' = Asked(rows)
  BY <1>2, <1>3, HandlerMoves DEF RowsMove, PortfolioMove
<1>4. CASE job[j].pc = "reports" /\ job' = [job EXCEPT ![j].pc = "done"] /\ UNCHANGED rows
  BY <1>2, <1>4, HandlerMoves DEF RowsMove, PortfolioMove
<1> QED
  BY <1>2, <1>3, <1>4 DEF AwaitEnds

----------------------------------------------------------------------------
(* The invariant                                                           *)

LEMMA InitInv == Init => PortfolioInv
<1> SUFFICES ASSUME Init PROVE PortfolioInv
  OBVIOUS
<1>1. tiers \in [Snapshots -> Tiers] /\ tiers[1] = Tier("preview", "ready")
      /\ \A s \in Snapshots : s # 1 => tiers[s] = NoTier
  BY SnapshotFacts, TierFacts DEF Init
<1>2. RowOf(1) \in Row /\ RowOf(1).s = 1 /\ RowOf(1).is.tier = "preview"
  BY <1>1, SnapshotFacts, TierFacts DEF RowOf, Row
<1>3. rows \in RowsStates /\ rows.data = RowOf(1) /\ rows.flight = None
  BY <1>2 DEF Init, RowsStates
<1>4. portfolio \in PortfolioStates /\ portfolio.data = 1 /\ portfolio.flight = None
  BY SnapshotFacts DEF Init, PortfolioStates
<1>5. job \in [Jobs -> JobStates] /\ \A j \in Jobs : job[j].pc = "unused"
  BY DEF Init, JobStates
<1>6. diagnose \in Diagnoses /\ diagnose.pc = "idle" /\ screen \in Screens
  BY DEF Init, NoDiagnose, Diagnoses, Screens
<1>7. TypeOK
  <2>1. ServerTyped /\ QueriesTyped
    BY <1>1, <1>3, <1>4, SnapshotFacts DEF Init, ServerTyped, QueriesTyped
  <2>2. BoundsTyped
    BY SnapshotFacts DEF Init, BoundsTyped
  <2> QED
    BY <1>5, <1>6, <2>1, <2>2, Typing DEF JobsTyped, ScreensTyped
<1>8. Counted
  <2>1. Sent = {}
    BY <1>5 DEF Sent
  <2> QED
    BY <2>1, FS_EmptySet DEF Init, Counted
<1>9. MadeExist /\ QueriesExist /\ FutureBlank
  BY <1>1, <1>2, <1>3, <1>4, <1>5, <1>6, SnapshotFacts DEF Init, MadeExist, QueriesExist, FutureBlank
<1>10. FlightsLead /\ PaidListed
  BY <1>2, <1>3, <1>4 DEF FlightsLead, PaidListed
<1>11. AllSeen
  BY <1>5, Kinds DEF AllSeen, Seen
<1> QED
  BY <1>7, <1>8, <1>9, <1>10, <1>11 DEF PortfolioInv

\* A step keeps the invariant, and opens processing-paid on what was asked for.
PaidStep ==
    <<job, entitled>>' = <<job, entitled>> /\ screen' = "paid" /\ screen' # screen
      => \E s \in Snapshots : tiers'[s].tier = "paid"

LEMMA DiagnoseOpens ==
  ASSUME PortfolioInv, Diagnose
  PROVE  PaidStep
<1>1. UNCHANGED tiers
  BY DEF Diagnose, server
<1>2. screen' = "paid" => rows.data.is.tier = "paid" \/ screen' = screen
  <2>1. Tier("paid", "processing").tier = "paid"
    BY TierFacts
  <2> QED
    BY <2>1 DEF Diagnose, ChoosePaid, Await
<1> QED
  BY <1>1, <1>2 DEF PaidStep, PortfolioInv, PaidListed

LEMMA ScreenOpens ==
  ASSUME PortfolioInv, CloseUpdate \/ OpenQuick \/ Leave \/ RefreshEntitlement \/ Lapse \/ Buy
  PROVE  PaidStep
  BY DEF PaidStep, CloseUpdate, OpenQuick, Leave, RefreshEntitlement, Lapse, Buy

LEMMA NextKeeps ==
  ASSUME PortfolioInv, [Next]_vars
  PROVE  PortfolioInv' /\ PaidStep
<1>1. CASE UNCHANGED vars
  <2>1. UNCHANGED <<active, tiers, entitled, job, rows, portfolio, known, diagnose, screen, presses, troubles>>
    BY <1>1 DEF vars, server, queries
  <2>2. PaidStep
    BY <2>1 DEF PaidStep
  <2>3. SameJobs /\ SameQueries /\ SameSent
    BY <2>1 DEF SameJobs, SameQueries, SameSent
  <2>4. ServerTyped /\ ScreensTyped /\ BoundsTyped
    BY Typing DEF PortfolioInv
  <2>5. tiers' \in [Snapshots -> Tiers] /\ FutureBlank' /\ PaidStays
    BY <2>1, TiersSame
  <2>6. PortfolioInv'
    BY <2>1, <2>4, <2>5, ReportsMove DEF ServerTyped, ScreensTyped, BoundsTyped
  <2> QED
    BY <2>2, <2>6
<1>2. CASE Focus \/ RowsAnswer \/ PortfolioAnswer \/ QueryFails
  BY <1>2, QueriesKeep, QueryFailsKeeps DEF PaidStep
<1>3. CASE CloseUpdate \/ OpenQuick \/ Leave \/ RefreshEntitlement \/ Lapse \/ Buy
  BY <1>3, ScreenKeeps, ScreenOpens
<1>4. CASE Diagnose
  BY <1>4, DiagnoseKeeps, DiagnoseOpens
<1>5. CASE DiagnoseAnswer
  BY <1>5, DiagnoseAnswerKeeps DEF PaidStep
<1>6. CASE AskPaid \/ \E s \in Snapshots : JobEnds(s)
  BY <1>6, ReportsKeep DEF PaidStep
<1>7. ASSUME NEW j \in Jobs, Send(j) \/ Apply(j) \/ AwaitEnds(j)
      PROVE  PortfolioInv' /\ PaidStep
  BY <1>7, SendKeeps, ApplyKeeps, AwaitEndsKeeps DEF PaidStep
<1>8. ASSUME NEW j \in Jobs, Answer(j)
      PROVE  PortfolioInv' /\ PaidStep
  BY <1>8, AnswerKeeps DEF PaidStep
<1> QED
  BY <1>1, <1>2, <1>3, <1>4, <1>5, <1>6, <1>7, <1>8 DEF Next

LEMMA InvCatchesUp == PortfolioInv => ListsAreCurrent
<1> SUFFICES ASSUME PortfolioInv PROVE ListsCatchUp
  BY DEF ListsAreCurrent, PortfolioInv
<1> SUFFICES ASSUME NEW j \in Commands \cup Refreshes, job[j].pc = "done", troubles = 0
             PROVE  /\ rows.data.s >= job[j].made \/ rows.flight >= job[j].made
                    /\ \/ j \in Refreshes \/ \E r \in Refreshes : job[r].pc \in {"reports", "done"}
                       \/ portfolio.data >= job[j].made \/ portfolio.flight >= job[j].made
  BY DEF ListsCatchUp
<1>1. Seen(j)
  BY DEF PortfolioInv, AllSeen
<1> QED
  BY <1>1 DEF Seen, Sets, RowsSeen, PortfolioSeen

(* For any handlers and bounds: when a command or a refresh has ended, the   *)
(* lists shown are those of its snapshot or of a later one, or a request     *)
(* that began after it is under way (invalidateQueries in handleCommand and  *)
(* handleRefreshHoldings, over requests and answers in any order).           *)
THEOREM ListsCurrent == Spec => []ListsAreCurrent
<1>1. Init => PortfolioInv
  BY InitInv
<1>2. PortfolioInv /\ [Next]_vars => PortfolioInv'
  BY NextKeeps
<1>3. PortfolioInv => ListsAreCurrent
  BY InvCatchesUp
<1> QED
  BY <1>1, <1>2, <1>3, PTL DEF Spec

(* For any handlers and bounds: processing-paid is never opened by Diagnose  *)
(* when no paid report has been asked for (ChoosePaid of handleDiagnose, and *)
(* the answers it waits for).                                                *)
THEOREM PaidRequested == Spec => PaidIsRequested
<1>1. Init => PortfolioInv
  BY InitInv
<1>2. PortfolioInv /\ [Next]_vars => PortfolioInv'
  BY NextKeeps
<1>3. PortfolioInv /\ [Next]_vars =>
        [<<job, entitled>>' = <<job, entitled>> /\ screen' = "paid" /\ screen' # screen
           => \E s \in Snapshots : tiers'[s].tier = "paid"]_vars
  BY NextKeeps DEF PaidStep
<1> QED
  BY <1>1, <1>2, <1>3, PTL DEF Spec, PaidIsRequested

----------------------------------------------------------------------------
(* The figures: their data are of any size, within what a theorem assumes  *)

CONSTANTS Nothing, Garbage
VARIABLE shown
Plan == INSTANCE StrategyPlan
F == INSTANCE ReviewFigures

\* What is assumed of the constants of the figures.
NoNumbers == F!ValuesAssumption /\ F!AbsentAssumption

\* A set of numbers has a least one: what is wrong with a list is wrong at a first place.
Below == {pair \in Nat \X Nat : pair[1] < pair[2]}
LEMMA LeastOf == ASSUME NEW T, T \subseteq Nat, T # {} PROVE \E n \in T : \A k \in T : n <= k
<1>1. IsWellFoundedOn(Below, Nat) BY NatLessThanWellFounded DEF OpToRel, Below
<1>2. PICK n \in T : \A k \in T : <<k, n>> \notin Below BY <1>1, WFMin
<1>3. \A k \in T : ~(k < n) BY <1>2 DEF Below
<1>. QED BY <1>2, <1>3

\* Bounded numbers have a least and a greatest.
LEMMA ExtremesOK ==
    ASSUME NEW bound \in Nat, NEW T, T \subseteq (-bound)..bound, T # {}
    PROVE  /\ F!Least(T) \in T /\ \A v \in T : F!Least(T) <= v
           /\ F!Greatest(T) \in T /\ \A v \in T : v <= F!Greatest(T)
<1>1. \E v \in T : \A w \in T : v <= w
  <2>. DEFINE U == {v + bound : v \in T}
  <2>1. U \subseteq Nat /\ U # {}
    <3>1. \A v \in T : v \in Int /\ -bound <= v /\ v <= bound OBVIOUS
    <3>2. \A v \in T : v + bound \in Nat BY <3>1
    <3>. QED BY <3>2
  <2>2. PICK u \in U : \A k \in U : u <= k BY <2>1, LeastOf
  <2>3. PICK v \in T : u = v + bound OBVIOUS
  <2>4. ASSUME NEW w \in T PROVE v <= w
    <3>1. w + bound \in U OBVIOUS
    <3>2. v + bound <= w + bound BY <2>2, <2>3, <3>1
    <3>3. v \in Int /\ w \in Int OBVIOUS
    <3>. QED BY <3>2, <3>3
  <2>. QED BY <2>4
<1>2. \E v \in T : \A w \in T : w <= v
  <2>. DEFINE U == {bound - v : v \in T}
  <2>1. U \subseteq Nat /\ U # {}
    <3>1. \A v \in T : v \in Int /\ -bound <= v /\ v <= bound OBVIOUS
    <3>2. \A v \in T : bound - v \in Nat BY <3>1
    <3>. QED BY <3>2
  <2>2. PICK u \in U : \A k \in U : u <= k BY <2>1, LeastOf
  <2>3. PICK v \in T : u = bound - v OBVIOUS
  <2>4. ASSUME NEW w \in T PROVE w <= v
    <3>1. bound - w \in U OBVIOUS
    <3>2. bound - v <= bound - w BY <2>2, <2>3, <3>1
    <3>3. v \in Int /\ w \in Int OBVIOUS
    <3>. QED BY <3>2, <3>3
  <2>. QED BY <2>4
<1>. QED BY <1>1, <1>2 DEF F!Least, F!Greatest

\* The largest of some numbers.
LEMMA GreatestOfTwo == ASSUME NEW a \in Int, NEW b \in Int PROVE F!Greatest({a, b}) = IF a >= b THEN a ELSE b
<1>. DEFINE m == IF a >= b THEN a ELSE b
<1>1. m \in {a, b} /\ \A w \in {a, b} : w <= m OBVIOUS
<1>2. F!Greatest({a, b}) \in {a, b} /\ \A w \in {a, b} : w <= F!Greatest({a, b}) BY <1>1 DEF F!Greatest
<1>. QED BY <1>1, <1>2

\* The sums of the beginnings of a list.
SumsUpTo(s, n, f) == f = [i \in 0..n |-> IF i = 0 THEN 0 ELSE s[i] + f[i - 1]]

\* Every list of numbers has these sums.
LEMMA SumExists ==
    ASSUME NEW s, NEW len \in Nat, \A i \in 1..len : s[i] \in Int
    PROVE  \A n \in 0..len : \E f \in [0..n -> Int] : SumsUpTo(s, n, f)
<1>. DEFINE Summed(n) == \E f \in [0..n -> Int] : SumsUpTo(s, n, f)
            T == {n \in 0..len : ~Summed(n)}
<1>1. SUFFICES ASSUME T # {} PROVE FALSE OBVIOUS
<1>2. PICK n \in T : \A k \in T : n <= k
  <2>1. T \subseteq Nat OBVIOUS
  <2>. QED BY <1>1, <2>1, LeastOf
<1>3. CASE n = 0
  <2>1. [i \in 0..0 |-> 0] \in [0..0 -> Int] /\ SumsUpTo(s, 0, [i \in 0..0 |-> 0]) BY DEF SumsUpTo
  <2>. QED BY <1>2, <1>3, <2>1
<1>4. CASE n # 0
  <2>1. n - 1 \in 0..len /\ n - 1 \notin T /\ n \in 1..len BY <1>2, <1>4
  <2>2. PICK g \in [0..(n - 1) -> Int] : SumsUpTo(s, n - 1, g) BY <2>1
  <2>. DEFINE f == [i \in 0..n |-> IF i = n THEN s[n] + g[n - 1] ELSE g[i]]
  <2>3. f \in [0..n -> Int] BY <2>1, <2>2
  <2>4. ASSUME NEW i \in 0..n PROVE f[i] = IF i = 0 THEN 0 ELSE s[i] + f[i - 1]
    <3>1. CASE i = n BY <2>1, <3>1
    <3>2. CASE i # n
      <4>1. i \in 0..(n - 1) BY <2>1, <3>2
      <4>2. g[i] = IF i = 0 THEN 0 ELSE s[i] + g[i - 1] BY <2>2, <4>1 DEF SumsUpTo
      <4>3. i # 0 => f[i - 1] = g[i - 1] BY <2>1, <4>1
      <4>. QED BY <3>2, <4>1, <4>2, <4>3
    <3>. QED BY <3>1, <3>2
  <2>5. SumsUpTo(s, n, f) BY <2>4 DEF SumsUpTo
  <2>. QED BY <1>2, <2>3, <2>5
<1>. QED BY <1>3, <1>4

\* The sums of a list of numbers: numbers, the last of them its total.
Sum(s) == CHOOSE f : f = [i \in 0..Len(s) |-> IF i = 0 THEN 0 ELSE s[i] + f[i - 1]]
LEMMA SumOf ==
    ASSUME NEW s, Len(s) \in Nat, \A i \in 1..Len(s) : s[i] \in Int
    PROVE  /\ F!TotalOf(s) = Sum(s)[Len(s)]
           /\ Sum(s) = [i \in 0..Len(s) |-> IF i = 0 THEN 0 ELSE s[i] + Sum(s)[i - 1]]
           /\ \A i \in 0..Len(s) : Sum(s)[i] \in Int
<1>. DEFINE n0 == Len(s)
            T == {n \in 0..Len(s) : Sum(s)[n] \notin Int}
<1>1. PICK f \in [0..n0 -> Int] : SumsUpTo(s, n0, f)
  <2>1. \A n \in 0..n0 : \E f \in [0..n -> Int] : SumsUpTo(s, n, f) BY SumExists
  <2>. QED BY <2>1
<1>2. f = [i \in 0..Len(s) |-> IF i = 0 THEN 0 ELSE s[i] + f[i - 1]] BY <1>1 DEF SumsUpTo
<1>3. Sum(s) = [i \in 0..Len(s) |-> IF i = 0 THEN 0 ELSE s[i] + Sum(s)[i - 1]] BY <1>2 DEF Sum
<1>4. ASSUME T # {} PROVE FALSE
  <2>1. T \subseteq Nat OBVIOUS
  <2>2. PICK n \in T : \A k \in T : n <= k BY <1>4, <2>1, LeastOf
  <2>3. n # 0 BY <1>3, <2>2
  <2>4. n - 1 \in 0..Len(s) /\ n - 1 \notin T /\ n \in 1..Len(s) BY <2>2, <2>3
  <2>5. Sum(s)[n] = s[n] + Sum(s)[n - 1] BY <1>3, <2>3, <2>4
  <2>. QED BY <2>2, <2>4, <2>5
<1>5. F!TotalOf(s) = Sum(s)[Len(s)] BY DEF F!TotalOf, Sum
<1>. QED BY <1>3, <1>4, <1>5

\* The sum of a list of numbers is a number.
LEMMA TotalIsNumber ==
    ASSUME NEW s, Len(s) \in Nat, \A i \in 1..Len(s) : s[i] \in Int
    PROVE  F!TotalOf(s) \in Int
BY SumOf

\* A multiple is divided without a rest.
LEMMA QuotientOK == ASSUME NEW k \in Int, NEW n \in Nat \ {0} PROVE (k * n) \div n = k
OBVIOUS

\* A larger number gives no smaller quotient.
LEMMA QuotientsGrow ==
    ASSUME NEW a \in Int, NEW b \in Int, a <= b, NEW r \in Nat \ {0}
    PROVE  a \div r <= b \div r
<1>. DEFINE p == a \div r q == b \div r
<1>1. p \in Int /\ q \in Int /\ r * p <= a /\ b < r * (q + 1) OBVIOUS
<1>. HIDE DEF p, q
<1>2. ASSUME p > q PROVE FALSE
  <2>1. p >= q + 1 BY <1>1, <1>2
  <2>2. r * p >= r * (q + 1)
    <3>1. \A x \in Nat : r * x >= 0 OBVIOUS
    <3>2. p - (q + 1) \in Nat /\ r * p = r * (q + 1) + r * (p - (q + 1)) BY <1>1, <2>1
    <3>3. r * (p - (q + 1)) >= 0 BY <3>1, <3>2
    <3>4. r * p \in Int /\ r * (q + 1) \in Int /\ r * (p - (q + 1)) \in Int BY <1>1
    <3>. QED BY <3>2, <3>3, <3>4
  <2>3. r * p \in Int /\ r * (q + 1) \in Int BY <1>1
  <2>. QED BY <1>1, <2>2, <2>3
<1>3. p <= q BY <1>1, <1>2
<1>. QED BY <1>3 DEF p, q

\* A larger number gives a larger product.
LEMMA ProductsGrow ==
    ASSUME NEW a \in Int, NEW b \in Int, a <= b, NEW h \in Nat
    PROVE  a * h <= b * h /\ a * h \in Int /\ b * h \in Int
<1>1. b - a \in Nat /\ b * h = a * h + (b - a) * h OBVIOUS
<1>2. \A x \in Nat : x * h >= 0 OBVIOUS
<1>3. (b - a) * h >= 0 BY <1>1, <1>2
<1>4. a * h \in Int /\ b * h \in Int /\ (b - a) * h \in Int OBVIOUS
<1>. QED BY <1>1, <1>3, <1>4

\* A share of a height is in the height.
LEMMA ShareOfHeight ==
    ASSUME NEW r \in Nat \ {0}, NEW u \in 0..r, NEW h \in Nat
    PROVE  (u * h) \div r \in 0..h
<1>1. 0 * h <= u * h /\ u * h <= r * h /\ u * h \in Int /\ r * h \in Int BY ProductsGrow
<1>2. 0 \div r <= (u * h) \div r /\ (u * h) \div r <= (r * h) \div r
  <2>1. 0 * h = 0 OBVIOUS
  <2>. QED BY <1>1, <2>1, QuotientsGrow
<1>3. 0 \div r = 0 /\ (r * h) \div r = h
  <2>1. r * h = h * r OBVIOUS
  <2>. QED BY <2>1, QuotientOK
<1>4. (u * h) \div r \in Int BY <1>1
<1>. QED BY <1>2, <1>3, <1>4

\* One whole more gives a quotient one larger.
LEMMA QuotientOfNext == ASSUME NEW a \in Int, NEW m \in Nat \ {0} PROVE (a + m) \div m = a \div m + 1
<1>. DEFINE q == a \div m
<1>1. q \in Int /\ m * q <= a /\ a < m * (q + 1) OBVIOUS
<1>. HIDE DEF q
<1>2. m * (q + 1) <= a + m /\ a + m < m * (q + 2) BY <1>1
<1>3. (a + m) \div m = q + 1 BY <1>1, <1>2
<1>. QED BY <1>3 DEF q

----------------------------------------------------------------------------
(* The dates of a plan                                                     *)

\* A date of the calendar; what is no date has no schedule.
DatesOf(m) == {[m |-> m, d |-> d] : d \in 1..Plan!MonthLength(m)}
IsDate(date) == \E m \in Nat : date \in DatesOf(m)

\* A month has 28 to 31 days.
LEMMA MonthOK == ASSUME NEW m \in Nat PROVE Plan!MonthLength(m) \in 28..31
<1>1. m % 12 \in 0..11 OBVIOUS
<1>. DEFINE L == <<31, IF m < 12 THEN 29 ELSE 28, 31, 30, 31, 30, 31, 31, 30, 31, 30, 31>>
<1>2. \A i \in 1..12 : L[i] \in 28..31 OBVIOUS
<1>3. Plan!MonthLength(m) = L[(m % 12) + 1] BY DEF Plan!MonthLength
<1>. HIDE DEF L
<1>. QED BY <1>1, <1>2, <1>3

\* The days from a date to one of the same month or of one of the next two.
DaysBetween(a, b) ==
    LET Before(m, from) == IF m = from THEN 0
                           ELSE Plan!MonthLength(from) + IF m = from + 1 THEN 0 ELSE Plan!MonthLength(from + 1)
    IN Before(b.m, a.m) + b.d - a.d

\* Days are added across the end of a month.
LEMMA DaysOK ==
    ASSUME NEW date, IsDate(date), NEW n \in 1..14
    PROVE  IsDate(Plan!AddDays(date, n)) /\ DaysBetween(date, Plan!AddDays(date, n)) = n
<1>1. PICK m, d : m \in Nat /\ d \in 1..Plan!MonthLength(m) /\ date = [m |-> m, d |-> d]
  BY DEF IsDate, DatesOf
<1>2. Plan!MonthLength(m) \in 28..31 /\ Plan!MonthLength(m + 1) \in 28..31 BY <1>1, MonthOK
<1>3. CASE d + n > Plan!MonthLength(m)
  <2>. DEFINE e == d + n - Plan!MonthLength(m)
  <2>1. Plan!AddDays(date, n) = [m |-> m + 1, d |-> e] BY <1>1, <1>2, <1>3 DEF Plan!AddDays, Plan!Carried
  <2>2. e \in 1..Plan!MonthLength(m + 1) BY <1>1, <1>2, <1>3
  <2>3. IsDate([m |-> m + 1, d |-> e]) BY <1>1, <2>2 DEF IsDate, DatesOf
  <2>4. DaysBetween([m |-> m, d |-> d], [m |-> m + 1, d |-> e]) = n BY <1>1, <1>2 DEF DaysBetween
  <2>. QED BY <1>1, <2>1, <2>3, <2>4
<1>4. CASE ~(d + n > Plan!MonthLength(m))
  <2>1. Plan!AddDays(date, n) = [m |-> m, d |-> d + n] BY <1>1, <1>2, <1>4 DEF Plan!AddDays, Plan!Carried
  <2>2. d + n \in 1..Plan!MonthLength(m) BY <1>1, <1>2, <1>4
  <2>3. IsDate([m |-> m, d |-> d + n]) BY <1>1, <2>2 DEF IsDate, DatesOf
  <2>4. DaysBetween([m |-> m, d |-> d], [m |-> m, d |-> d + n]) = n BY <1>1, <1>2 DEF DaysBetween
  <2>. QED BY <1>1, <2>1, <2>3, <2>4
<1>. QED BY <1>3, <1>4

\* A month later is a date a month of days away, and the same day where each month has it.
LEMMA MonthsOK ==
    ASSUME NEW date, IsDate(date)
    PROVE  /\ IsDate(Plan!AddMonths(date)) /\ DaysBetween(date, Plan!AddMonths(date)) \in 28..31
           /\ date.d <= 28 => Plan!AddMonths(date) = [m |-> date.m + 1, d |-> date.d]
<1>1. PICK m, d : m \in Nat /\ d \in 1..Plan!MonthLength(m) /\ date = [m |-> m, d |-> d]
  BY DEF IsDate, DatesOf
<1>2. Plan!MonthLength(m) \in 28..31 /\ Plan!MonthLength(m + 1) \in 28..31 /\ Plan!MonthLength(m + 2) \in 28..31
  BY <1>1, MonthOK
<1>3. CASE d > Plan!MonthLength(m + 1)
  <2>. DEFINE e == d - Plan!MonthLength(m + 1)
  <2>1. Plan!AddMonths(date) = [m |-> m + 2, d |-> e] BY <1>1, <1>2, <1>3 DEF Plan!AddMonths, Plan!Carried
  <2>2. e \in 1..Plan!MonthLength(m + 2) BY <1>1, <1>2, <1>3
  <2>3. IsDate([m |-> m + 2, d |-> e]) BY <1>1, <2>2 DEF IsDate, DatesOf
  <2>4. DaysBetween([m |-> m, d |-> d], [m |-> m + 2, d |-> e]) = Plan!MonthLength(m)
    BY <1>1, <1>2 DEF DaysBetween
  <2>. QED BY <1>1, <1>2, <1>3, <2>1, <2>3, <2>4
<1>4. CASE ~(d > Plan!MonthLength(m + 1))
  <2>1. Plan!AddMonths(date) = [m |-> m + 1, d |-> d] BY <1>1, <1>2, <1>4 DEF Plan!AddMonths, Plan!Carried
  <2>2. d \in 1..Plan!MonthLength(m + 1) BY <1>1, <1>2, <1>4
  <2>3. IsDate([m |-> m + 1, d |-> d]) BY <1>1, <2>2 DEF IsDate, DatesOf
  <2>4. DaysBetween([m |-> m, d |-> d], [m |-> m + 1, d |-> d]) = Plan!MonthLength(m)
    BY <1>1, <1>2 DEF DaysBetween
  <2>. QED BY <1>1, <1>2, <2>1, <2>3, <2>4
<1>. QED BY <1>3, <1>4

\* The dates of a schedule, at the pace of its plan.
Paced(dates, next, frequency) ==
    /\ dates # <<>> => dates[1] = next
    /\ \A i \in 2..Len(dates) :
          /\ frequency \in Plan!Days => DaysBetween(dates[i - 1], dates[i]) = Plan!Stride[frequency]
          /\ frequency = "monthly" => DaysBetween(dates[i - 1], dates[i]) \in 28..31
          /\ frequency = "monthly" /\ dates[1].d <= 28 => dates[i] = [m |-> dates[1].m + i - 1, d |-> dates[1].d]

\* The schedule of a plan is at its pace.
LEMMA ScheduleOK ==
    ASSUME NEW next, NEW frequency, IsDate(next) \/ next \in {Nothing, Garbage}
    PROVE  Paced(Plan!BuildDcaSchedule(next, frequency), next, frequency)
<1>. DEFINE After(date) == IF frequency \in Plan!Days THEN Plan!AddDays(date, Plan!Stride[frequency])
                           ELSE Plan!AddMonths(date)
            dates == Plan!BuildDcaSchedule(next, frequency)
            second == After(next) third == After(second) fourth == After(third)
<1>1. CASE next \in {Nothing, Garbage} \/ frequency = Nothing
  <2>1. dates = <<>> BY <1>1 DEF Plan!BuildDcaSchedule
  <2>. QED BY <2>1 DEF Paced
<1>2. CASE ~(next \in {Nothing, Garbage} \/ frequency = Nothing) /\ frequency \notin Plan!Days \cup {"monthly"}
  <2>1. dates = <<next>> BY <1>2 DEF Plan!BuildDcaSchedule
  <2>. QED BY <2>1 DEF Paced
<1>3. CASE ~(next \in {Nothing, Garbage} \/ frequency = Nothing) /\ frequency \in Plan!Days \cup {"monthly"}
  <2>1. dates = <<next, second, third, fourth>> BY <1>3 DEF Plan!BuildDcaSchedule
  <2>2. IsDate(next) BY <1>3
  <2>3. ASSUME NEW date, IsDate(date)
        PROVE  /\ IsDate(After(date))
               /\ frequency \in Plan!Days => DaysBetween(date, After(date)) = Plan!Stride[frequency]
               /\ frequency = "monthly" => DaysBetween(date, After(date)) \in 28..31
               /\ frequency = "monthly" /\ date.d <= 28 => After(date) = [m |-> date.m + 1, d |-> date.d]
    <3>1. frequency \in Plan!Days => Plan!Stride[frequency] \in 1..14 BY DEF Plan!Days, Plan!Stride
    <3>2. "monthly" \notin Plan!Days BY DEF Plan!Days
    <3>3. CASE frequency \in Plan!Days BY <2>3, <3>1, <3>2, <3>3, DaysOK
    <3>4. CASE frequency \notin Plan!Days BY <2>3, <3>2, <3>4, MonthsOK
    <3>. QED BY <3>3, <3>4
  <2>. HIDE DEF After, dates
  <2>4. IsDate(second) /\ IsDate(third) BY <2>2, <2>3
  <2>5. PICK m, d : m \in Nat /\ d \in 1..Plan!MonthLength(m) /\ next = [m |-> m, d |-> d]
    BY <2>2 DEF IsDate, DatesOf
  <2>6. ASSUME frequency = "monthly", next.d <= 28
        PROVE  second = [m |-> m + 1, d |-> d] /\ third = [m |-> m + 2, d |-> d] /\ fourth = [m |-> m + 3, d |-> d]
    <3>1. second = [m |-> m + 1, d |-> d] BY <2>2, <2>3, <2>5, <2>6
    <3>2. third = [m |-> m + 2, d |-> d] BY <2>3, <2>4, <2>5, <2>6, <3>1
    <3>3. fourth = [m |-> m + 3, d |-> d] BY <2>3, <2>4, <2>5, <2>6, <3>2
    <3>. QED BY <3>1, <3>2, <3>3
  <2>7. /\ frequency \in Plan!Days => /\ DaysBetween(next, second) = Plan!Stride[frequency]
                                      /\ DaysBetween(second, third) = Plan!Stride[frequency]
                                      /\ DaysBetween(third, fourth) = Plan!Stride[frequency]
        /\ frequency = "monthly" => /\ DaysBetween(next, second) \in 28..31 /\ DaysBetween(second, third) \in 28..31
                                    /\ DaysBetween(third, fourth) \in 28..31
    BY <2>2, <2>3, <2>4
  <2>. HIDE DEF second, third, fourth
  <2>8. Len(dates) = 4 /\ dates[1] = next /\ dates[2] = second /\ dates[3] = third /\ dates[4] = fourth BY <2>1
  <2>9. ASSUME NEW i \in 2..4
        PROVE  /\ frequency \in Plan!Days => DaysBetween(dates[i - 1], dates[i]) = Plan!Stride[frequency]
               /\ frequency = "monthly" => DaysBetween(dates[i - 1], dates[i]) \in 28..31
               /\ frequency = "monthly" /\ dates[1].d <= 28 => dates[i] = [m |-> dates[1].m + i - 1, d |-> dates[1].d]
    <3>1. CASE i = 2 BY <2>5, <2>6, <2>7, <2>8, <3>1
    <3>2. CASE i = 3 BY <2>5, <2>6, <2>7, <2>8, <3>2
    <3>3. CASE i = 4 BY <2>5, <2>6, <2>7, <2>8, <3>3
    <3>. QED BY <2>9, <3>1, <3>2, <3>3
  <2>10. Paced(dates, next, frequency) BY <2>8, <2>9 DEF Paced
  <2>. QED BY <2>10 DEF dates
<1>. QED BY <1>1, <1>2, <1>3

\* The dates of an S05 plan begin with the next one of the plan and follow at its pace,
\* whatever dates, frequency and candles the plan has.
THEOREM ScheduleKeepsPaceHolds ==
    ASSUME Plan!Drawn("plan") => Plan!PlanData(shown)
    PROVE  Plan!ScheduleKeepsPace
<1>. DEFINE next == Plan!Str(shown.p, "next_execution_at")
            frequency == Plan!Str(shown.p, "frequency")
            dates == Plan!Panel(shown, Plan!BuildChartCandles(shown.series)).calendar
<1>1. SUFFICES ASSUME Plan!Drawn("plan"), shown.plan = "S05"
               PROVE  Paced(dates, Plan!Date(shown.p), frequency)
  BY DEF Plan!ScheduleKeepsPace, Paced, DaysBetween
<1>2. CASE dates = <<>> BY <1>2 DEF Paced
<1>3. CASE dates # <<>>
  <2>1. dates = Plan!BuildDcaSchedule(next, frequency) BY <1>3 DEF Plan!Panel
  <2>2. next \notin {Nothing, Garbage} BY <1>3, <2>1 DEF Plan!BuildDcaSchedule
  <2>3. Plan!Date(shown.p) = next BY <2>2 DEF Plan!Date
  <2>4. IsDate(next)
    <3>1. next \in [m : Nat, d : 1..31] /\ next.d <= Plan!MonthLength(next.m)
      BY <1>1, <2>2 DEF Plan!PlanData, Plan!IsDate
    <3>. DEFINE m == next.m d == next.d
    <3>2. next = [m |-> m, d |-> d] /\ m \in Nat /\ d \in 1..31 /\ d <= Plan!MonthLength(m) BY <3>1
    <3>3. d \in 1..Plan!MonthLength(m) BY <3>2, MonthOK
    <3>. HIDE DEF m, d
    <3>. QED BY <3>2, <3>3 DEF IsDate, DatesOf
  <2>5. Paced(Plan!BuildDcaSchedule(next, frequency), next, frequency) BY <2>4, ScheduleOK
  <2>. QED BY <2>1, <2>3, <2>5
<1>. QED BY <1>2, <1>3

----------------------------------------------------------------------------
(* The review                                                              *)

\* What is not there is no number, no action and no cost.
LEMMA Absent ==
    ASSUME NoNumbers
    PROVE  /\ Nothing \notin Int /\ Garbage \notin Int /\ Nothing # Garbage /\ Nothing # "remove"
           /\ \A v \in Int : [value |-> v, base |-> TRUE] # Nothing /\ [value |-> v, base |-> FALSE] # Nothing
<1>1. \A v \in Int : /\ [value |-> v, base |-> TRUE] \in [value : Int, base : BOOLEAN]
                     /\ [value |-> v, base |-> FALSE] \in [value : Int, base : BOOLEAN]
  OBVIOUS
<1>2. Nothing \notin [value : Int, base : BOOLEAN] /\ Nothing # "remove" BY DEF NoNumbers, F!AbsentAssumption
<1>3. Nothing \notin Int /\ Garbage \notin Int /\ Nothing # Garbage BY DEF NoNumbers, F!ValuesAssumption
<1>4. ASSUME NEW v \in Int PROVE [value |-> v, base |-> TRUE] # Nothing /\ [value |-> v, base |-> FALSE] # Nothing
  BY <1>1, <1>2, Zenon
<1>. QED BY <1>2, <1>3, <1>4, Zenon

\* The value in the draft is the value the server books.
LEMMA DraftOK ==
    ASSUME NoNumbers, F!ReviewData(shown), NEW a, F!Reviewable(a, shown), F!Sensible(a)
    PROVE  /\ F!DraftValue(a, shown) = F!Booked(a, F!EditOf(a), shown)
           /\ F!DraftValue(a, shown) \in Int \cup {Nothing}
           /\ a.removed => F!DraftValue(a, shown) = Nothing
<1>. DEFINE edit == F!EditOf(a) rate == shown.rate
<1>1. rate \in Nat \ {0} /\ F!BaseFxRate(shown) = rate BY DEF F!ReviewData
<1>2. CASE a.removed
  <2>1. F!DraftValue(a, shown) = Nothing BY <1>2 DEF F!DraftValue
  <2>2. edit.action = "remove" BY <1>2 DEF F!EditOf
  <2>3. F!Booked(a, edit, shown) = Nothing BY <2>2 DEF F!Booked
  <2>. QED BY <2>1, <2>3
<1>3. CASE ~a.removed /\ a.price = Nothing
  <2>1. F!Priced(a) = Nothing /\ F!PricedDisplay(a, shown) = Nothing
    BY <1>3 DEF F!Priced, F!ValueAt, F!Falsy, F!PricedDisplay
  <2>2. edit.action = Nothing BY <1>3 DEF F!EditOf
  <2>3. edit.manual = IF a.manual \in {Nothing, Garbage} THEN Nothing ELSE a.manual
    BY <1>3, Absent DEF F!EditOf, F!ParseNumber, F!Sensible, F!Reviewable
  <2>4. F!DraftValue(a, shown) = IF a.manual \in {Nothing, Garbage} THEN Nothing ELSE a.manual * rate
    <3>1. CASE a.manual = Nothing BY <1>1, <1>3, <2>1, <3>1 DEF F!DraftValue
    <3>2. CASE a.manual = Garbage BY <1>1, <1>3, <2>1, <3>2 DEF F!DraftValue, F!ParseNumber
    <3>3. CASE a.manual \notin {Nothing, Garbage} BY <1>1, <1>3, <2>1, <3>3 DEF F!DraftValue, F!ParseNumber
    <3>. QED BY <3>1, <3>2, <3>3
  <2>5. F!Booked(a, edit, shown) = IF a.manual \in {Nothing, Garbage} THEN Nothing ELSE a.manual * rate
    <3>1. CASE a.manual \in {Nothing, Garbage}
      BY <1>3, <2>2, <2>3, <3>1, Absent DEF F!Booked, F!ValueAt, F!Falsy
    <3>2. CASE a.manual \notin {Nothing, Garbage}
      <4>1. a.manual \in Nat \ {0} BY <3>2 DEF F!Reviewable, F!Sensible
      <4>2. a.manual * rate \in Nat \ {0} BY <1>1, <4>1
      <4>3. edit.manual = a.manual /\ edit.manual # Nothing BY <2>3, <3>2
      <4>4. ~F!Falsy(a.manual * rate) BY <4>2, Absent DEF F!Falsy
      <4>5. F!Booked(a, edit, shown) = F!ValueAt(Nothing, F!Either(edit.amount, a.amount), a.manual * rate)
        BY <1>3, <2>2, <4>3, Absent DEF F!Booked
      <4>. QED BY <3>2, <4>4, <4>5 DEF F!ValueAt
    <3>. QED BY <3>1, <3>2
  <2>6. a.manual \notin {Nothing, Garbage} => a.manual * rate \in Int BY <1>1 DEF F!Reviewable
  <2>. QED BY <1>3, <2>4, <2>5, <2>6
<1>4. CASE ~a.removed /\ a.price # Nothing
  <2>1. a.price \in Int /\ a.amount \in Nat \ {0} /\ a.manual = Nothing /\ a.text \in Int \cup {Nothing, Garbage}
    BY <1>4 DEF F!Reviewable
  <2>2. F!Priced(a) = a.price * a.amount /\ a.price * a.amount \in Int
    BY <1>4, <2>1 DEF F!Priced, F!ValueAt
  <2>. DEFINE typed == F!ParseNumber(a.text)
  <2>3. typed = Nothing \/ (typed \in Nat \ {0} /\ typed = a.text)
    BY <2>1 DEF F!ParseNumber, F!Sensible
  <2>4. edit.action = Nothing /\ edit.amount = IF typed = Nothing \/ typed = a.amount THEN Nothing ELSE typed
    <3>1. edit.action = Nothing BY <1>4 DEF F!EditOf
    <3>2. CASE typed = Nothing BY <1>4, <3>2 DEF F!EditOf
    <3>3. CASE typed # Nothing
      <4>1. typed \in Nat \ {0} /\ typed = a.text BY <2>3, <3>3
      <4>2. edit.amount = IF a.text > 0 /\ a.text # a.amount THEN a.text ELSE Nothing BY <1>4, <3>3 DEF F!EditOf
      <4>. QED BY <3>1, <3>3, <4>1, <4>2
    <3>. QED BY <3>1, <3>2, <3>3
  <2>5. F!Booked(a, edit, shown) = a.price * F!Either(edit.amount, a.amount)
    BY <1>4, <2>4, Absent DEF F!Booked, F!ValueAt
  <2>6. F!DraftValue(a, shown) = IF typed = Nothing THEN a.price * a.amount ELSE ((a.price * a.amount) * typed) \div a.amount
    <3>1. F!Priced(a) # Nothing BY <2>2, Absent
    <3>2. CASE typed = Nothing BY <1>4, <2>1, <2>2, <3>1, <3>2 DEF F!DraftValue
    <3>3. CASE typed # Nothing
      <4>1. Nothing \notin {typed, F!Priced(a)} /\ ~(a.amount <= 0) BY <2>1, <3>1, <3>3
      <4>. QED BY <1>4, <2>1, <2>2, <3>1, <3>3, <4>1 DEF F!DraftValue
    <3>. QED BY <3>2, <3>3
  <2>7. CASE typed = Nothing BY <1>4, <2>2, <2>4, <2>5, <2>6, <2>7 DEF F!Either
  <2>8. CASE typed # Nothing
    <3>1. typed \in Nat \ {0} BY <2>3, <2>8
    <3>2. (a.price * a.amount) * typed = (a.price * typed) * a.amount BY <2>1, <3>1
    <3>3. a.price * typed \in Int BY <2>1, <3>1
    <3>4. F!DraftValue(a, shown) = a.price * typed BY <2>1, <2>6, <2>8, <3>2, <3>3, QuotientOK
    <3>5. F!Either(edit.amount, a.amount) = typed BY <2>4, <2>8, Absent DEF F!Either
    <3>. QED BY <1>4, <2>5, <3>3, <3>4, <3>5
  <2>. QED BY <2>7, <2>8
<1>. QED BY <1>2, <1>3, <1>4 DEF F!Reviewable

\* The cost on the card is the cost the server books, in its currency.
LEMMA CostOK ==
    ASSUME NoNumbers, F!ReviewData(shown), NEW a, F!Reviewable(a, shown), F!Sensible(a), ~a.removed
    PROVE  LET cost == F!CostShown(a, shown) booked == F!CostBooked(a, F!EditOf(a), shown)
           IN IF cost = Nothing THEN F!Falsy(booked)
              ELSE booked = (IF cost.base THEN cost.value * shown.rate ELSE cost.value)
<1>. DEFINE edit == F!EditOf(a) cost == F!CostShown(a, shown) booked == F!CostBooked(a, edit, shown) rate == shown.rate
<1>1. rate \in Nat \ {0} BY DEF F!ReviewData
<1>2. a.avg # Nothing => a.avg \in Nat /\ a.avg \div rate \in Nat /\ a.avg = (a.avg \div rate) * rate
  <2>1. SUFFICES ASSUME a.avg # Nothing PROVE a.avg \in Nat /\ a.avg \div rate \in Nat /\ a.avg = (a.avg \div rate) * rate
    OBVIOUS
  <2>2. PICK n \in Nat : a.avg = n * rate BY <2>1 DEF F!Reviewable
  <2>3. a.avg \div rate = n BY <1>1, <2>2, QuotientOK
  <2>. QED BY <1>1, <2>2, <2>3
<1>3. a.cost \in Int \cup {Nothing, Garbage} /\ (a.cost \in {Nothing, Garbage} \/ a.cost > 0)
  BY DEF F!Reviewable, F!Sensible
<1>4. edit.avg = IF a.cost \in {Nothing, Garbage} THEN Nothing ELSE a.cost
  <2>1. CASE a.cost \in {Nothing, Garbage} BY <2>1 DEF F!EditOf, F!ParseNumber
  <2>2. CASE a.cost \notin {Nothing, Garbage}
    <3>1. a.cost >= 0 BY <1>3, <2>2
    <3>. QED BY <2>2, <3>1 DEF F!EditOf, F!ParseNumber
  <2>. QED BY <2>1, <2>2
<1>5. CASE a.cost \notin {Nothing, Garbage}
  <2>1. a.cost \in Nat \ {0} BY <1>3, <1>5
  <2>2. booked = a.cost * rate BY <1>4, <1>5 DEF F!CostBooked
  <2>3. a.cost # Nothing /\ ~(a.cost <= 0) BY <1>5, <2>1
  <2>4. cost = [value |-> a.cost, base |-> TRUE] BY <1>5, <2>3 DEF F!CostShown, F!ParseNumber, F!Either
  <2>5. cost # Nothing BY <2>1, <2>4, Absent
  <2>. QED BY <2>2, <2>4, <2>5
<1>6. CASE a.cost \in {Nothing, Garbage} /\ a.avg = Nothing
  <2>1. booked = Nothing BY <1>4, <1>6 DEF F!CostBooked
  <2>2. cost = Nothing BY <1>6 DEF F!CostShown, F!ParseNumber, F!Either
  <2>. QED BY <2>1, <2>2 DEF F!Falsy
<1>7. CASE a.cost = Garbage /\ a.avg # Nothing
  <2>1. booked = a.avg BY <1>4, <1>7 DEF F!CostBooked
  <2>2. CASE a.avg = 0
    <3>1. cost = Nothing BY <1>7, <2>2, Absent DEF F!CostShown, F!ParseNumber, F!Either
    <3>. QED BY <2>1, <2>2, <3>1 DEF F!Falsy
  <2>3. CASE a.avg # 0
    <3>1. ~(a.avg <= 0) BY <1>2, <1>7, <2>3
    <3>2. cost = [value |-> a.avg, base |-> FALSE] BY <1>7, <3>1, Absent DEF F!CostShown, F!ParseNumber,
         F!Either
    <3>3. cost # Nothing BY <1>2, <1>7, <3>2, Absent
    <3>. QED BY <2>1, <3>2, <3>3
  <2>. QED BY <2>2, <2>3
<1>8. CASE a.cost = Nothing /\ a.avg # Nothing
  <2>. DEFINE display == a.avg \div rate
  <2>1. booked = a.avg BY <1>4, <1>8 DEF F!CostBooked
  <2>2. a.avg = display * rate /\ display \in Nat /\ display # Nothing BY <1>2, <1>8, Absent
  <2>3. cost = IF display <= 0 THEN Nothing ELSE [value |-> display, base |-> TRUE]
    BY <1>8, <2>2 DEF F!CostShown, F!Either
  <2>. HIDE DEF display
  <2>4. CASE display = 0
    <3>1. cost = Nothing BY <2>3, <2>4
    <3>2. a.avg = 0 BY <1>1, <2>2, <2>4
    <3>. QED BY <2>1, <3>1, <3>2 DEF F!Falsy
  <2>5. CASE display # 0
    <3>1. cost = [value |-> display, base |-> TRUE] BY <2>2, <2>3, <2>5
    <3>2. cost # Nothing BY <2>2, <3>1, Absent
    <3>. QED BY <2>1, <2>2, <3>1, <3>2
  <2>. QED BY <2>4, <2>5
<1>. QED BY <1>5, <1>6, <1>7, <1>8

\* The draft and the cards show what the server books from the edits that are sent,
\* for any list of assets and any rate of the user's currency.
THEOREM DraftMatchesSentHolds ==
    ASSUME NoNumbers, F!Drawn("review") => F!ReviewData(shown)
    PROVE  F!DraftMatchesSent
<1>1. SUFFICES ASSUME F!Reviewed, NEW i \in DOMAIN shown.assets
               PROVE  LET a == shown.assets[i]
                          edit == F!EditOf(a)
                          cost == F!CostShown(a, shown)
                      IN /\ F!DraftValue(a, shown) = F!Booked(a, edit, shown)
                         /\ ~a.removed => IF cost = Nothing THEN F!Falsy(F!CostBooked(a, edit, shown))
                               ELSE F!CostBooked(a, edit, shown) = (IF cost.base THEN cost.value * shown.rate ELSE cost.value)
  BY DEF F!DraftMatchesSent
<1>2. F!ReviewData(shown) /\ F!Reviewable(shown.assets[i], shown) /\ F!Sensible(shown.assets[i])
  BY <1>1 DEF F!Reviewed, F!ReviewData
<1>. QED BY <1>2, DraftOK, CostOK

\* The assets marked as ignored are those below one per cent of what the server books,
\* however long the list of assets is.
THEOREM IgnoredIsLeftOutHolds ==
    ASSUME NoNumbers, F!Drawn("review") => F!ReviewData(shown)
    PROVE  F!IgnoredIsLeftOut
<1>. DEFINE Value(i) == F!Booked(shown.assets[i], F!EditOf(shown.assets[i]), shown)
            values == [i \in DOMAIN shown.assets |-> F!Either(Value(i), 0)]
            total == F!TotalOf(values)
<1>1. SUFFICES ASSUME F!Reviewed
               PROVE  \A i \in DOMAIN shown.assets :
                         Value(i) # Nothing /\ Value(i) > 0 => F!Ignored(shown.assets[i], shown) = (100 * Value(i) < total)
  BY DEF F!IgnoredIsLeftOut
<1>2. F!ReviewData(shown) BY <1>1 DEF F!Reviewed
<1>3. \A i \in DOMAIN shown.assets :
         /\ F!DraftValue(shown.assets[i], shown) = Value(i) /\ Value(i) \in Int \cup {Nothing}
         /\ shown.assets[i].removed \in BOOLEAN /\ (shown.assets[i].removed => Value(i) = Nothing)
  <2>1. ASSUME NEW i \in DOMAIN shown.assets
        PROVE  F!Reviewable(shown.assets[i], shown) /\ F!Sensible(shown.assets[i])
    BY <1>1, <1>2, <2>1 DEF F!Reviewed, F!ReviewData
  <2>. QED BY <1>2, <2>1, DraftOK DEF F!Reviewable
<1>. HIDE DEF Value
<1>4. total \in Int
  <2>1. Len(values) \in Nat /\ \A i \in 1..Len(values) : values[i] \in Int
    <3>1. DOMAIN shown.assets = 1..Len(shown.assets) /\ Len(shown.assets) \in Nat BY <1>2 DEF F!ReviewData
    <3>2. Len(values) = Len(shown.assets) BY <3>1
    <3>. QED BY <1>3, <3>1, <3>2 DEF F!Either
  <2>. HIDE DEF values
  <2>. QED BY <2>1, TotalIsNumber
<1>5. F!DraftTotal(shown) = total
  <2>1. [i \in DOMAIN shown.assets |-> F!Either(F!DraftValue(shown.assets[i], shown), 0)] = values BY <1>3
  <2>. HIDE DEF values
  <2>. QED BY <2>1 DEF F!DraftTotal
<1>. HIDE DEF total
<1>6. ASSUME NEW i \in DOMAIN shown.assets, Value(i) # Nothing, Value(i) > 0
      PROVE  F!Ignored(shown.assets[i], shown) = (100 * Value(i) < total)
  <2>1. Value(i) \in Nat \ {0} /\ ~shown.assets[i].removed BY <1>3, <1>6
  <2>2. F!LowValueThreshold(shown) = IF total <= 0 THEN 0 ELSE total BY <1>5 DEF F!LowValueThreshold
  <2>3. F!Ignored(shown.assets[i], shown) =
           (F!LowValueThreshold(shown) > 0 /\ 100 * Value(i) < F!LowValueThreshold(shown))
    BY <1>3, <1>6, <2>1 DEF F!Ignored
  <2>. QED BY <1>4, <2>1, <2>2, <2>3
<1>. QED BY <1>6

\* The review and the list of holdings name a stock of Hong Kong alike, and write no
\* symbol after the name of any other asset.
THEOREM NamesAgreeHolds == F!NamesAgree
<1>1. SUFFICES ASSUME NEW i \in DOMAIN shown.assets
               PROVE  LET a == shown.assets[i]
                          label == F!HoldingLabel([symbol |-> a.symbol, name |-> a.name, asset_type |-> a.type, mic |-> a.mic])
                      IN Len(label) = 2 \/ Len(F!AssetIdentity(a).title) = 2 => label = F!AssetIdentity(a).title
  BY DEF F!NamesAgree
<1>. DEFINE a == shown.assets[i]
            holding == [symbol |-> a.symbol, name |-> a.name, asset_type |-> a.type, mic |-> a.mic]
            symbol == F!NormalizeHKSymbol(a.symbol)
            hongKong == a.type = "stock" /\ (a.mic = "XHKG" \/ a.symbol.market = "hk")
<1>4. F!HoldingLabel(holding) = IF a.name # Nothing /\ hongKong THEN <<a.name, symbol>> ELSE <<symbol>>
  BY DEF F!HoldingLabel
<1>2. F!AssetIdentity(a).title = IF a.name = Nothing THEN <<symbol>> ELSE IF hongKong THEN <<a.name, symbol>> ELSE <<a.name>>
  BY DEF F!AssetIdentity
<1>. HIDE DEF symbol, hongKong
<1>3. Len(<<symbol>>) = 1 /\ Len(<<a.name>>) = 1 OBVIOUS
<1>. QED BY <1>4, <1>2, <1>3

----------------------------------------------------------------------------
(* The candle chart: what is drawn is in the plot                          *)

\* The prices that are drawn.
OnChart == F!Extremes(shown) \cup F!Values(shown.lines) \cup UNION {F!Values(s) : s \in F!Values(shown.series)}

\* The prices the scale is made for: those drawn, and those between them.
Covered == {v \in Int : \E a \in OnChart, b \in OnChart : a <= v /\ v <= b}

\* The scale of a chart holds every price that is drawn.
LEMMA ScaleOK ==
    ASSUME NEW bound \in Nat, F!CandleData(shown, bound), F!ShowChart(shown)
    PROVE  LET scale == F!Scale(shown)
           IN /\ scale.low \in Int /\ scale.range \in Nat \ {0}
              /\ OnChart \subseteq Covered /\ \A v \in Covered : 100 * v - scale.low \in 0..scale.range
<1>. DEFINE scale == F!Scale(shown) least == F!Least(OnChart) r == F!Greatest(OnChart) - F!Least(OnChart)
<1>1. OnChart \subseteq (-bound)..bound
  <2>1. F!Extremes(shown) \subseteq (-bound)..bound BY DEF F!Extremes, F!Values, F!CandleData, F!Upright
  <2>2. F!Values(shown.lines) \subseteq (-bound)..bound BY DEF F!Values, F!CandleData
  <2>3. \A s \in F!Values(shown.series) : F!Values(s) \subseteq (-bound)..bound
    <3>1. \A s \in F!Values(shown.series) : \E i \in DOMAIN shown.series : s = shown.series[i] BY DEF F!Values
    <3>. QED BY <3>1 DEF F!CandleData
  <2>. QED BY <2>1, <2>2, <2>3 DEF OnChart
<1>2. OnChart # {}
  <2>1. 1 \in DOMAIN shown.candles BY DEF F!CandleData, F!ShowChart
  <2>2. shown.candles[1] \in F!Values(shown.candles) BY <2>1 DEF F!Values, F!CandleData, F!Upright
  <2>3. shown.candles[1].high \in F!Extremes(shown) BY <2>2 DEF F!Extremes
  <2>. QED BY <2>3 DEF OnChart
<1>. DEFINE most == F!Greatest(OnChart)
<1>3. /\ least \in OnChart /\ \A v \in OnChart : least <= v
      /\ most \in OnChart /\ \A v \in OnChart : v <= most
  BY <1>1, <1>2, ExtremesOK
<1>. HIDE DEF least, most
<1>9. \A v \in OnChart : v \in Int BY <1>1
<1>10. least \in Int /\ most \in Int /\ least <= most BY <1>3, <1>9
<1>4. least \in Int /\ r \in Nat /\ \A v \in Covered : v - least \in 0..r
  <2>1. r = most - least BY DEF most, least
  <2>2. ASSUME NEW v \in Covered PROVE least <= v /\ v <= most /\ v \in Int
    <3>1. PICK a \in OnChart, b \in OnChart : a <= v /\ v <= b /\ v \in Int BY DEF Covered
    <3>2. least <= a /\ b <= most /\ a \in Int /\ b \in Int BY <1>3, <1>9
    <3>. QED BY <1>10, <3>1, <3>2
  <2>. HIDE DEF r
  <2>. QED BY <1>10, <2>1, <2>2
<1>5. scale = [low |-> 100 * least - (IF r = 0 THEN 100 ELSE 6 * r), range |-> IF r = 0 THEN 200 ELSE 112 * r]
  BY DEF F!Scale, F!ScaleOf, F!Margined, F!One, OnChart, least
<1>. HIDE DEF scale, r
<1>6. scale.low = 100 * least - (IF r = 0 THEN 100 ELSE 6 * r) /\ scale.range = (IF r = 0 THEN 200 ELSE 112 * r)
  BY <1>5
<1>7. ASSUME NEW v \in Covered PROVE 100 * v - scale.low \in 0..scale.range
  <2>1. v \in Int /\ v - least \in 0..r BY <1>4 DEF Covered
  <2>. QED BY <1>4, <1>6, <2>1
<1>11. OnChart \subseteq Covered BY <1>9 DEF Covered
<1>8. scale.low \in Int /\ scale.range \in Nat \ {0} BY <1>4, <1>6
<1>. QED BY <1>7, <1>8, <1>11 DEF scale

\* What is drawn is drawn in the plot, the higher the larger.
LEMMA PointOK ==
    ASSUME NEW bound \in Nat, F!CandleData(shown, bound), F!ShowChart(shown)
    PROVE  LET plot == F!PlotArea(shown) Y(v) == F!ValueToChartY(v, shown)
           IN /\ \A v \in Covered : Y(v) \in plot.top..plot.top + plot.height
              /\ \A v, w \in Covered : v <= w => Y(w) <= Y(v)
<1>. DEFINE plot == F!PlotArea(shown) scale == F!Scale(shown) Y(v) == F!ValueToChartY(v, shown)
            Share(v) == ((100 * v - scale.low) * plot.height) \div scale.range
<1>1. plot.top \in Int /\ plot.height \in Nat BY DEF F!CandleData
<1>2. /\ scale.low \in Int /\ scale.range \in Nat \ {0}
      /\ \A v \in Covered : v \in Int /\ 100 * v - scale.low \in 0..scale.range
  BY ScaleOK DEF Covered
<1>3. \A v : Y(v) = plot.top + plot.height - Share(v) BY DEF F!ValueToChartY, F!OnScale, F!One
<1>. HIDE DEF plot, scale, Y
<1>4. ASSUME NEW v \in Covered PROVE Share(v) \in 0..plot.height
  <2>1. 100 * v - scale.low \in 0..scale.range BY <1>2
  <2>. QED BY <1>1, <1>2, <2>1, ShareOfHeight
<1>5. ASSUME NEW v \in Covered, NEW w \in Covered, v <= w PROVE Share(v) <= Share(w)
  <2>. DEFINE a == 100 * v - scale.low b == 100 * w - scale.low
  <2>1. a \in Int /\ b \in Int /\ a <= b
    <3>1. v \in Int /\ w \in Int BY <1>2
    <3>. QED BY <1>2, <1>5, <3>1
  <2>. HIDE DEF a, b
  <2>2. a * plot.height <= b * plot.height /\ a * plot.height \in Int /\ b * plot.height \in Int
    BY <1>1, <2>1, ProductsGrow
  <2>3. (a * plot.height) \div scale.range <= (b * plot.height) \div scale.range BY <1>2, <2>2, QuotientsGrow
  <2>. QED BY <2>3 DEF a, b
<1>. HIDE DEF Share
<1>6. ASSUME NEW v \in Covered PROVE Y(v) \in plot.top..plot.top + plot.height BY <1>1, <1>3, <1>4
<1>7. ASSUME NEW v \in Covered, NEW w \in Covered, v <= w PROVE Y(w) <= Y(v)
  <2>1. Share(v) \in 0..plot.height /\ Share(w) \in 0..plot.height /\ Share(v) <= Share(w) BY <1>4, <1>5, <1>7
  <2>. QED BY <1>1, <1>3, <2>1
<1>. QED BY <1>6, <1>7 DEF plot, Y

\* Candles stand side by side.
LEMMA PlaceOK ==
    ASSUME NEW bound \in Nat, F!CandleData(shown, bound), F!ShowChart(shown), NEW i \in 1..Len(shown.candles)
    PROVE  /\ F!CandleX(i, shown) \in F!PlotArea(shown).left..F!PlotArea(shown).left + F!PlotArea(shown).width
           /\ i > 1 => F!CandleX(i, shown) > F!CandleX(i - 1, shown)
<1>. DEFINE plot == F!PlotArea(shown) n == Len(shown.candles) At(k) == ((2 * k - 1) * plot.width) \div (2 * n)
<1>1. plot.left \in Int /\ plot.width \in Nat /\ n \in Nat /\ plot.width >= n /\ n > 1
  BY DEF F!CandleData, F!ShowChart
<1>2. \A k : F!CandleX(k, shown) = plot.left + At(k) BY DEF F!CandleX
<1>. HIDE DEF plot, n
<1>3. At(i) \in 0..plot.width
  <2>. DEFINE u == 2 * i - 1 r == 2 * n
  <2>1. u \in 0..r /\ r \in Nat \ {0} BY <1>1 DEF n
  <2>. HIDE DEF u, r
  <2>2. (u * plot.width) \div r \in 0..plot.width BY <1>1, <2>1, ShareOfHeight
  <2>. QED BY <2>2 DEF u, r
<1>4. ASSUME i > 1 PROVE At(i - 1) \in Int /\ At(i) >= At(i - 1) + 1
  <2>. DEFINE a == (2 * (i - 1) - 1) * plot.width b == (2 * i - 1) * plot.width m == 2 * n
  <2>1. a \in Int /\ b \in Int /\ m \in Nat \ {0} /\ b = a + 2 * plot.width BY <1>1
  <2>0. m <= 2 * plot.width BY <1>1
  <2>. HIDE DEF a, b, m
  <2>2. a + m <= b /\ a + m \in Int BY <1>1, <2>0, <2>1
  <2>3. (a + m) \div m <= b \div m BY <2>1, <2>2, QuotientsGrow
  <2>4. (a + m) \div m = a \div m + 1 BY <2>1, QuotientOfNext
  <2>5. a \div m \in Int /\ b \div m \in Int BY <2>1
  <2>. QED BY <2>3, <2>4, <2>5 DEF a, b, m
<1>. HIDE DEF At
<1>5. i > 1 => At(i - 1) \in Int BY <1>4
<1>. QED BY <1>1, <1>2, <1>3, <1>4, <1>5 DEF plot

\* A body lies between its ends.
LEMMA BodyOK ==
    ASSUME NEW high \in Int, NEW low \in Int, NEW open \in high..low, NEW close \in high..low
    PROVE  LET shape == F!Shape(0, high, low, open, close, TRUE)
           IN high <= shape.top /\ shape.top + shape.height - 1 <= low
<1>. DEFINE top == F!Least({open, close}) height == F!Greatest({1, open - close, close - open})
<1>1. top \in {open, close} /\ top <= open /\ top <= close
  <2>1. \E v \in {open, close} : \A w \in {open, close} : v <= w
    <3>1. CASE open <= close BY <3>1
    <3>2. CASE ~(open <= close) BY <3>2
    <3>. QED BY <3>1, <3>2
  <2>. QED BY <2>1 DEF F!Least
<1>2. height \in {1, open - close, close - open}
  <2>. DEFINE T == {1, open - close, close - open}
  <2>1. \E v \in T : \A w \in T : w <= v
    <3>1. CASE open = close BY <3>1
    <3>2. CASE open > close BY <3>2
    <3>3. CASE open < close BY <3>3
    <3>. QED BY <3>1, <3>2, <3>3
  <2>. QED BY <2>1 DEF F!Greatest
<1>. HIDE DEF top, height
<1>3. high <= top /\ top + height - 1 <= low BY <1>1, <1>2
<1>4. F!Shape(0, high, low, open, close, TRUE).top = top /\ F!Shape(0, high, low, open, close, TRUE).height = height
  BY DEF F!Shape, top, height
<1>. QED BY <1>3, <1>4

\* Everything is drawn inside the plot, each candle to the right of the one before it,
\* its body between the ends of its wick, for any prices, lines, series and sizes.
THEOREM DrawnInPlotHolds ==
    ASSUME NoNumbers, NEW bound \in Nat, F!Drawn("candles") /\ F!ShowChart(shown) => F!CandleData(shown, bound)
    PROVE  F!DrawnInPlot
<1>. DEFINE plot == F!PlotArea(shown) shapes == F!CandleShapes(shown) Inside(y) == y \in plot.top..plot.top + plot.height
            Y(v) == F!ValueToChartY(v, shown)
<1>1. SUFFICES ASSUME F!Drawn("candles"), F!ShowChart(shown)
      PROVE  /\ \A i \in DOMAIN shapes :
                 /\ Inside(shapes[i].high) /\ Inside(shapes[i].low)
                 /\ shapes[i].high <= shapes[i].top /\ shapes[i].top + shapes[i].height - 1 <= shapes[i].low
                 /\ shapes[i].x \in plot.left..plot.left + plot.width
                 /\ i > 1 => shapes[i].x > shapes[i - 1].x
             /\ \A i \in DOMAIN shown.lines : Inside(Y(shown.lines[i]))
             /\ \A i \in DOMAIN shown.series : \A v \in F!Values(shown.series[i]) : Inside(Y(v))
             /\ \A i \in 1..3 : Inside(plot.top + plot.height
                    - ((F!PriceLabels(shown)[i] - F!Scale(shown).low) * plot.height) \div F!Scale(shown).range)
             /\ F!TimeLabels(shown) \subseteq DOMAIN shapes
  BY DEF F!DrawnInPlot
<1>2. F!CandleData(shown, bound) BY <1>1
<1>3. /\ \A v \in Covered : Inside(Y(v))
      /\ \A v, w \in Covered : v <= w => Y(w) <= Y(v)
  BY <1>1, <1>2, PointOK
<1>13. OnChart \subseteq Covered BY <1>1, <1>2, ScaleOK
<1>4. Garbage \notin Int BY DEF NoNumbers, F!ValuesAssumption
<1>5. DOMAIN shapes = 1..Len(shown.candles) /\ Len(shown.candles) \in Nat /\ Len(shown.candles) > 1
  BY <1>1, <1>2 DEF F!CandleData, F!CandleShapes, F!ShowChart
<1>6. ASSUME NEW i \in 1..Len(shown.candles)
      PROVE  /\ shapes[i].high = Y(shown.candles[i].high) /\ shapes[i].low = Y(shown.candles[i].low)
             /\ shapes[i].x = F!CandleX(i, shown)
             /\ shapes[i].top = F!Least({Y(shown.candles[i].open), Y(shown.candles[i].close)})
             /\ shapes[i].height = F!Greatest({1, Y(shown.candles[i].open) - Y(shown.candles[i].close),
                                               Y(shown.candles[i].close) - Y(shown.candles[i].open)})
  <2>. DEFINE c == shown.candles[i]
  <2>1. shapes[i] = F!Shape(F!CandleX(i, shown), Y(c.high), Y(c.low), Y(c.open), Y(c.close), c.close >= c.open)
    BY <1>2 DEF F!CandleShapes, F!CandleData
  <2>. HIDE DEF shapes, Y
  <2>. QED BY <2>1 DEF F!Shape
<1>. HIDE DEF shapes
<1>7. ASSUME NEW i \in 1..Len(shown.candles)
      PROVE  /\ Inside(shapes[i].high) /\ Inside(shapes[i].low)
             /\ shapes[i].high <= shapes[i].top /\ shapes[i].top + shapes[i].height - 1 <= shapes[i].low
  <2>. DEFINE c == shown.candles[i]
  <2>1. F!Upright(c, bound) /\ c \in F!Values(shown.candles)
    <3>1. i \in DOMAIN shown.candles BY <1>2 DEF F!CandleData
    <3>2. F!Upright(c, bound) BY <1>2, <3>1 DEF F!CandleData
    <3>. QED BY <3>1, <3>2 DEF F!Upright, F!Values
  <2>. HIDE DEF c
  <2>2. c.high \in OnChart /\ c.low \in OnChart
    <3>1. {c.high, c.low} \subseteq F!Extremes(shown) BY <2>1 DEF F!Extremes
    <3>. QED BY <3>1 DEF OnChart
  <2>10. c.open \in Int /\ c.close \in Int /\ c.high \in Int /\ c.low \in Int
    <3>1. {c.open, c.close, c.high, c.low} \subseteq (-bound)..bound BY <2>1 DEF F!Upright
    <3>2. (-bound)..bound \subseteq Int OBVIOUS
    <3>. QED BY <3>1, <3>2
  <2>3. c.high \in Covered /\ c.low \in Covered /\ c.open \in Covered /\ c.close \in Covered
    <3>1. c.open \in Covered BY <2>1, <2>2, <2>10 DEF F!Upright, Covered
    <3>2. c.close \in Covered BY <2>1, <2>2, <2>10 DEF F!Upright, Covered
    <3>. QED BY <1>13, <2>2, <3>1, <3>2
  <2>4. /\ c.low <= c.open /\ c.low <= c.close /\ c.open <= c.high /\ c.close <= c.high BY <2>1 DEF F!Upright
  <2>. DEFINE high == Y(c.high) low == Y(c.low) open == Y(c.open) close == Y(c.close)
  <2>. HIDE DEF Y
  <2>5. /\ Inside(high) /\ Inside(low) /\ Inside(open) /\ Inside(close)
        /\ high <= open /\ high <= close /\ open <= low /\ close <= low
    BY <1>3, <2>3, <2>4
  <2>6. plot.top \in Int /\ plot.height \in Nat BY <1>2 DEF F!CandleData
  <2>7. /\ shapes[i].high = high /\ shapes[i].low = low /\ shapes[i].top = F!Least({open, close})
        /\ shapes[i].height = F!Greatest({1, open - close, close - open})
    BY <1>6 DEF c
  <2>. HIDE DEF high, low, open, close, plot
  <2>8. high \in Int /\ low \in Int /\ open \in high..low /\ close \in high..low BY <2>5, <2>6
  <2>9. high <= F!Least({open, close}) /\ F!Least({open, close}) + F!Greatest({1, open - close, close - open}) - 1 <= low
    BY <2>8, BodyOK DEF F!Shape
  <2>. QED BY <2>5, <2>7, <2>9
<1>8. ASSUME NEW i \in 1..Len(shown.candles)
      PROVE  shapes[i].x \in plot.left..plot.left + plot.width /\ (i > 1 => shapes[i].x > shapes[i - 1].x)
  <2>1. i > 1 => i - 1 \in 1..Len(shown.candles) BY <1>5
  <2>2. shapes[i].x = F!CandleX(i, shown) /\ (i > 1 => shapes[i - 1].x = F!CandleX(i - 1, shown)) BY <1>6, <2>1
  <2>3. /\ F!CandleX(i, shown) \in plot.left..plot.left + plot.width
        /\ i > 1 => F!CandleX(i, shown) > F!CandleX(i - 1, shown)
    BY <1>1, <1>2, PlaceOK
  <2>. QED BY <2>2, <2>3
<1>9. ASSUME NEW i \in DOMAIN shown.lines PROVE Inside(Y(shown.lines[i]))
  <2>1. shown.lines[i] \in (-bound)..bound BY <1>2 DEF F!CandleData
  <2>2. shown.lines[i] # Garbage BY <1>4, <2>1
  <2>3. shown.lines[i] \in OnChart BY <2>2 DEF OnChart, F!Values
  <2>. QED BY <1>3, <1>13, <2>3
<1>10. ASSUME NEW i \in DOMAIN shown.series, NEW v \in F!Values(shown.series[i]) PROVE Inside(Y(v))
  <2>1. shown.series[i] \in F!Values(shown.series) BY <1>2 DEF F!CandleData, F!Values
  <2>2. v \in OnChart BY <2>1 DEF OnChart
  <2>. QED BY <1>3, <1>13, <2>2
<1>11. ASSUME NEW i \in 1..3
       PROVE  Inside(plot.top + plot.height
                    - ((F!PriceLabels(shown)[i] - F!Scale(shown).low) * plot.height) \div F!Scale(shown).range)
  <2>. DEFINE low == F!Scale(shown).low range == F!Scale(shown).range
  <2>1. low \in Int /\ range \in Nat \ {0} BY <1>1, <1>2, ScaleOK
  <2>2. F!PriceLabels(shown) = <<low + range, (2 * low + range) \div 2, low>> BY DEF F!PriceLabels
  <2>. HIDE DEF low, range
  <2>3. F!PriceLabels(shown)[i] - low \in 0..range
    <3>1. CASE i = 1 BY <2>1, <2>2, <3>1
    <3>2. CASE i = 2 BY <2>1, <2>2, <3>2
    <3>3. CASE i = 3 BY <2>1, <2>2, <3>3
    <3>. QED BY <3>1, <3>2, <3>3
  <2>4. plot.top \in Int /\ plot.height \in Nat BY <1>2 DEF F!CandleData
  <2>5. ((F!PriceLabels(shown)[i] - low) * plot.height) \div range \in 0..plot.height
    BY <2>1, <2>3, <2>4, ShareOfHeight
  <2>. HIDE DEF plot
  <2>6. Inside(plot.top + plot.height - ((F!PriceLabels(shown)[i] - low) * plot.height) \div range)
    <3>. DEFINE y == ((F!PriceLabels(shown)[i] - low) * plot.height) \div range
    <3>1. y \in 0..plot.height BY <2>5
    <3>. HIDE DEF y
    <3>2. Inside(plot.top + plot.height - y) BY <2>4, <3>1
    <3>. QED BY <3>2 DEF y
  <2>. QED BY <2>6 DEF low, range
<1>12. F!TimeLabels(shown) \subseteq 1..Len(shown.candles)
  <2>1. \A n \in Nat : n > 1 => {1, n \div 2 + 1, n} \subseteq 1..n OBVIOUS
  <2>. QED BY <1>5, <2>1 DEF F!TimeLabels
<1>. QED BY <1>5, <1>7, <1>8, <1>9, <1>10, <1>11, <1>12

----------------------------------------------------------------------------
(* The candle chart: the labels of the lines                               *)

\* The labels of the lines, from the top to the bottom.
NextLabel(ys, i, above, first, last) == F!Greatest({F!Clamp(ys[i], first, last), above + F!labelGap})
SpreadUpTo(ys, n, f, first, last) ==
    f = [i \in 0..n |-> IF i = 0 THEN -1000 ELSE NextLabel(ys, i, f[i - 1], first, last)]

\* A label is in the plot and a gap below the one above it.
LEMMA LabelBelow ==
    ASSUME NEW ys, NEW i, ys[i] \in Int, NEW above \in Int, NEW first \in Int, NEW last \in Int, first <= last
    PROVE  /\ NextLabel(ys, i, above, first, last) \in Int
           /\ NextLabel(ys, i, above, first, last) >= first
           /\ NextLabel(ys, i, above, first, last) >= above + F!labelGap
<1>1. F!Clamp(ys[i], first, last) \in first..last BY DEF F!Clamp
<1>2. above + F!labelGap \in Int BY DEF F!labelGap
<1>. QED BY <1>1, <1>2, GreatestOfTwo DEF NextLabel

\* The labels of every list of lines have their places.
LEMMA SpreadExists ==
    ASSUME NEW ys, NEW len \in Nat, \A i \in 1..len : ys[i] \in Int, NEW first \in Int, NEW last \in Int, first <= last
    PROVE  \A n \in 0..len : \E f \in [0..n -> Int] : SpreadUpTo(ys, n, f, first, last)
<1>. DEFINE Done(n) == \E f \in [0..n -> Int] : SpreadUpTo(ys, n, f, first, last)
            T == {n \in 0..len : ~Done(n)}
<1>1. SUFFICES ASSUME T # {} PROVE FALSE OBVIOUS
<1>2. PICK n \in T : \A k \in T : n <= k
  <2>1. T \subseteq Nat OBVIOUS
  <2>. QED BY <1>1, <2>1, LeastOf
<1>3. CASE n = 0
  <2>1. [i \in 0..0 |-> -1000] \in [0..0 -> Int] /\ SpreadUpTo(ys, 0, [i \in 0..0 |-> -1000], first, last)
    BY DEF SpreadUpTo
  <2>. QED BY <1>2, <1>3, <2>1
<1>4. CASE n # 0
  <2>1. n - 1 \in 0..len /\ n - 1 \notin T /\ n \in 1..len BY <1>2, <1>4
  <2>2. PICK g \in [0..(n - 1) -> Int] : SpreadUpTo(ys, n - 1, g, first, last) BY <2>1
  <2>. DEFINE f == [i \in 0..n |-> IF i = n THEN NextLabel(ys, n, g[n - 1], first, last) ELSE g[i]]
  <2>3. f \in [0..n -> Int]
    <3>1. g[n - 1] \in Int BY <2>1, <2>2
    <3>2. NextLabel(ys, n, g[n - 1], first, last) \in Int BY <2>1, <3>1, LabelBelow
    <3>. QED BY <2>1, <2>2, <3>2
  <2>4. ASSUME NEW i \in 0..n PROVE f[i] = IF i = 0 THEN -1000 ELSE NextLabel(ys, i, f[i - 1], first, last)
    <3>1. CASE i = n BY <2>1, <3>1
    <3>2. CASE i # n
      <4>1. i \in 0..(n - 1) BY <2>1, <3>2
      <4>2. g[i] = IF i = 0 THEN -1000 ELSE NextLabel(ys, i, g[i - 1], first, last) BY <2>2, <4>1 DEF SpreadUpTo
      <4>3. i # 0 => f[i - 1] = g[i - 1] BY <2>1, <4>1
      <4>. QED BY <3>2, <4>1, <4>2, <4>3
    <3>. QED BY <3>1, <3>2
  <2>5. SpreadUpTo(ys, n, f, first, last) BY <2>4 DEF SpreadUpTo
  <2>. QED BY <1>2, <2>3, <2>5
<1>. QED BY <1>3, <1>4

\* Each label lies at least a gap below the one above it, and none above the plot.
LEMMA SpreadOK ==
    ASSUME NEW ys \in Seq(Int), NEW first \in Int, NEW last \in Int, first <= last
    PROVE  LET at == F!Spread(ys, first, last)
           IN /\ DOMAIN at = 1..Len(ys) /\ Len(at) = Len(ys) /\ at \in Seq(Int)
              /\ \A i \in 1..Len(ys) : at[i] >= first /\ (i > 1 => at[i] >= at[i - 1] + F!labelGap)
<1>. DEFINE n0 == Len(ys)
            at == CHOOSE f : SpreadUpTo(ys, n0, f, first, last)
<1>1. n0 \in Nat /\ \A i \in 1..n0 : ys[i] \in Int OBVIOUS
<1>2. PICK f \in [0..n0 -> Int] : SpreadUpTo(ys, n0, f, first, last)
  <2>1. \A n \in 0..n0 : \E f \in [0..n -> Int] : SpreadUpTo(ys, n, f, first, last) BY <1>1, SpreadExists
  <2>. QED BY <1>1, <2>1
<1>3. SpreadUpTo(ys, n0, at, first, last) BY <1>2
<1>4. F!Spread(ys, first, last) = [i \in DOMAIN ys |-> at[i]] BY DEF F!Spread, SpreadUpTo, NextLabel
<1>. HIDE DEF at
<1>5. at = [i \in 0..n0 |-> IF i = 0 THEN -1000 ELSE NextLabel(ys, i, at[i - 1], first, last)]
  BY <1>3 DEF SpreadUpTo
<1>. DEFINE T == {n \in 0..n0 : at[n] \notin Int}
<1>6. ASSUME T # {} PROVE FALSE
  <2>1. T \subseteq Nat OBVIOUS
  <2>2. PICK n \in T : \A k \in T : n <= k BY <1>6, <2>1, LeastOf
  <2>3. n # 0 BY <1>5, <2>2
  <2>4. n - 1 \in 0..n0 /\ n - 1 \notin T /\ n \in 1..n0 BY <1>1, <2>2, <2>3
  <2>5. at[n] = NextLabel(ys, n, at[n - 1], first, last)
    <3>1. n \in 0..n0 /\ n # 0 BY <2>2, <2>3
    <3>. QED BY ONLY <1>5, <3>1
  <2>6. at[n] \in Int BY <1>1, <2>4, <2>5, LabelBelow
  <2>. QED BY <2>2, <2>6
<1>7. ASSUME NEW i \in 1..n0 PROVE at[i] \in Int /\ at[i] >= first /\ at[i] >= at[i - 1] + F!labelGap
  <2>1. i - 1 \in 0..n0 /\ i \in 0..n0 /\ i # 0 BY <1>1
  <2>2. at[i - 1] \in Int BY <1>6, <2>1
  <2>3. at[i] = NextLabel(ys, i, at[i - 1], first, last) BY ONLY <1>5, <2>1
  <2>. QED BY <1>1, <2>2, <2>3, LabelBelow
<1>. DEFINE shownAt == [i \in 1..n0 |-> at[i]]
<1>8. F!Spread(ys, first, last) = shownAt BY <1>4
<1>9. shownAt \in Seq(Int) /\ Len(shownAt) = n0 /\ DOMAIN shownAt = 1..n0 BY <1>1, <1>7
<1>10. \A i \in 1..n0 : shownAt[i] >= first /\ (i > 1 => shownAt[i] >= shownAt[i - 1] + F!labelGap)
  BY <1>1, <1>7
<1>. QED BY <1>8, <1>9, <1>10

\* The lowest label is the last.
LEMMA LastIsLowest ==
    ASSUME NEW at \in Seq(Int), \A i \in 2..Len(at) : at[i] >= at[i - 1]
    PROVE  \A i \in 1..Len(at) : at[i] <= at[Len(at)]
<1>. DEFINE n0 == Len(at) T == {m \in 0..(n0 - 1) : at[n0 - m] > at[n0]}
<1>0. n0 \in Nat /\ \A i \in 1..n0 : at[i] \in Int OBVIOUS
<1>1. ASSUME T # {} PROVE FALSE
  <2>1. T \subseteq Nat OBVIOUS
  <2>2. PICK m \in T : \A k \in T : m <= k BY <1>1, <2>1, LeastOf
  <2>3. m # 0
    <3>1. n0 \in 1..n0 /\ at[n0] \in Int BY <1>0, <2>2
    <3>2. ASSUME m = 0 PROVE at[n0] > at[n0]
      <4>1. n0 - m = n0 BY <1>0, <3>2
      <4>. QED BY <2>2, <4>1
    <3>. QED BY <3>1, <3>2
  <2>4. m \in 1..(n0 - 1) /\ at[n0 - m] > at[n0] /\ \A k \in T : m <= k BY <1>0, <2>2, <2>3
  <2>. DEFINE j == n0 - m
  <2>7. j \in 1..n0 /\ j + 1 \in 2..n0 /\ j + 1 \in 1..n0 /\ n0 \in 1..n0 BY <1>0, <2>4
  <2>5. \A a \in Nat : \A b \in 1..(a - 1) : b - 1 \in 0..(a - 1) /\ a - (b - 1) = a - b + 1 OBVIOUS
  <2>15. n0 \in Nat /\ m \in 1..(n0 - 1) BY <1>0, <2>4
  <2>9. m - 1 \in 0..(n0 - 1) /\ n0 - (m - 1) = j + 1
    <3>. HIDE DEF n0, T
    <3>. QED BY <2>15, <2>5
  <2>10. m - 1 \notin T
    <3>1. ~(m <= m - 1) BY <2>15
    <3>. HIDE DEF T
    <3>. QED BY <2>2, <3>1
  <2>11. ~(at[j + 1] > at[n0]) BY <2>9, <2>10
  <2>12. at[j] > at[n0] BY <2>4
  <2>. HIDE DEF T, j
  <2>13. at[j + 1] >= at[(j + 1) - 1] BY <2>7
  <2>14. (j + 1) - 1 = j BY <1>0, <2>7
  <2>6. at[j + 1] >= at[j] BY <2>13, <2>14
  <2>8. at[j] \in Int /\ at[j + 1] \in Int /\ at[n0] \in Int BY <1>0, <2>7
  <2>. QED BY <2>6, <2>8, <2>11, <2>12
<1>2. ASSUME NEW i \in 1..n0 PROVE at[i] <= at[n0]
  <2>1. n0 - i \in 0..(n0 - 1) /\ n0 - (n0 - i) = i BY <1>0
  <2>2. ~(at[i] > at[n0]) BY <1>1, <2>1
  <2>3. at[i] \in Int /\ at[n0] \in Int BY <1>0
  <2>. QED BY <2>2, <2>3
<1>. QED BY <1>2

\* The labels of the lines are in the plot and in the order of the lines, and touch only
\* where they had to be pushed up, for any number of lines.
THEOREM LabelsInPlotHolds ==
    ASSUME F!Drawn("candles") => F!LabelData(shown)
    PROVE  F!LabelsInPlot
<1>. DEFINE first == F!First(shown) last == F!Last(shown) at == F!Adjusted(shown) overflow == F!Overflow(shown)
            labels == F!Labels(shown)
<1>1. SUFFICES ASSUME F!Drawn("candles")
               PROVE  \A i \in DOMAIN labels :
                   /\ labels[i] \in first..last
                   /\ i > 1 => /\ labels[i] >= labels[i - 1]
                               /\ overflow <= 0 => labels[i] - labels[i - 1] >= F!labelGap
  BY DEF F!LabelsInPlot
<1>2. first \in Int /\ last \in Int /\ first <= last
  BY <1>1 DEF F!First, F!Last, F!labelHeight, F!LabelData
<1>3. at = F!Spread(F!Sorted(shown), first, last) BY DEF F!Adjusted
<1>4. overflow = IF at = <<>> THEN 0 ELSE at[Len(at)] - last BY DEF F!Overflow, F!Excess
<1>5. labels = IF overflow <= 0 THEN at ELSE [i \in DOMAIN at |-> F!Greatest({first, at[i] - overflow})]
  BY DEF F!Labels, F!Raised
<1>. HIDE DEF first, last, at, overflow, labels
<1>6. /\ at \in Seq(Int)
      /\ \A i \in 1..Len(at) : at[i] >= first /\ (i > 1 => at[i] >= at[i - 1] + F!labelGap)
  <2>1. F!Sorted(shown) \in Seq(Int) BY <1>1 DEF F!LabelData
  <2>. QED BY <1>2, <1>3, <2>1, SpreadOK
<1>7. DOMAIN at = 1..Len(at) /\ Len(at) \in Nat /\ \A i \in 1..Len(at) : at[i] \in Int BY <1>6
<1>8. \A i \in 1..Len(at) : at[i] <= at[Len(at)]
  <2>1. \A i \in 2..Len(at) : at[i] >= at[i - 1]
    <3>1. ASSUME NEW i \in 2..Len(at) PROVE at[i] >= at[i - 1]
      <4>1. i \in 1..Len(at) /\ i - 1 \in 1..Len(at) /\ i > 1 BY <1>7
      <4>2. at[i] >= at[i - 1] + F!labelGap /\ at[i] \in Int /\ at[i - 1] \in Int BY <1>6, <1>7, <4>1
      <4>. QED BY <4>2 DEF F!labelGap
    <3>. QED BY <3>1
  <2>. QED BY <1>6, <2>1, LastIsLowest
<1>9. ASSUME NEW i \in 1..Len(at) PROVE at[i] - overflow <= last /\ overflow \in Int /\ at[i] \in Int
  <2>1. at # <<>> /\ Len(at) \in 1..Len(at) BY <1>7
  <2>2. overflow = at[Len(at)] - last BY <1>4, <2>1
  <2>. QED BY <1>2, <1>7, <1>8, <2>1, <2>2
<1>10. CASE overflow <= 0
  <2>1. labels = at BY <1>5, <1>10
  <2>2. ASSUME NEW i \in 1..Len(at) PROVE at[i] <= last BY <1>2, <1>7, <1>9, <1>10
  <2>3. ASSUME NEW i \in 1..Len(at), i > 1 PROVE at[i] >= at[i - 1] /\ at[i] - at[i - 1] >= F!labelGap
    <3>1. i - 1 \in 1..Len(at) BY <1>7, <2>3
    <3>2. at[i] >= at[i - 1] + F!labelGap /\ at[i] \in Int /\ at[i - 1] \in Int BY <1>6, <1>7, <2>3, <3>1
    <3>. QED BY <3>2 DEF F!labelGap
  <2>. QED BY <1>2, <1>6, <1>7, <2>1, <2>2, <2>3
<1>11. CASE ~(overflow <= 0)
  <2>1. labels = [i \in 1..Len(at) |-> F!Greatest({first, at[i] - overflow})] BY <1>5, <1>7, <1>11
  <2>2. ASSUME NEW i \in 1..Len(at)
        PROVE  labels[i] = IF first >= at[i] - overflow THEN first ELSE at[i] - overflow
    <3>1. at[i] - overflow \in Int BY <1>9
    <3>. QED BY <1>2, <2>1, <3>1, GreatestOfTwo
  <2>3. ASSUME NEW i \in 1..Len(at) PROVE labels[i] \in first..last BY <1>2, <1>9, <2>2
  <2>4. ASSUME NEW i \in 1..Len(at), i > 1 PROVE labels[i] >= labels[i - 1]
    <3>1. i - 1 \in 1..Len(at) BY <1>7, <2>4
    <3>2. at[i] >= at[i - 1] + F!labelGap BY <1>6, <2>4
    <3>3. at[i] \in Int /\ at[i - 1] \in Int /\ overflow \in Int BY <1>9, <3>1
    <3>4. at[i] - overflow >= at[i - 1] - overflow BY <3>2, <3>3 DEF F!labelGap
    <3>. QED BY <1>2, <2>2, <3>1, <3>3, <3>4
  <2>. QED BY <1>11, <2>1, <2>3, <2>4
<1>. QED BY <1>10, <1>11

----------------------------------------------------------------------------
(* The candle chart: the pieces of a series                                *)

\* What is drawn of a series up to a value, as the app goes along it.
NoPieces == [done |-> {}, current |-> <<>>]
Grown(s, i, r) ==
    IF s[i] = Garbage THEN [done |-> F!Pieces(r), current |-> <<>>] ELSE [r EXCEPT !.current = Append(@, i)]
RunsUpTo(s, n, f) == f = [i \in 0..n |-> IF i = 0 THEN NoPieces ELSE Grown(s, i, f[i - 1])]

\* Every series is gone along.
LEMMA RunsExist == ASSUME NEW s, NEW len \in Nat PROVE \A n \in 0..len : \E f : RunsUpTo(s, n, f)
<1>. DEFINE Done(n) == \E f : RunsUpTo(s, n, f)
            T == {n \in 0..len : ~Done(n)}
<1>1. SUFFICES ASSUME T # {} PROVE FALSE OBVIOUS
<1>2. PICK n \in T : \A k \in T : n <= k
  <2>1. T \subseteq Nat OBVIOUS
  <2>. QED BY <1>1, <2>1, LeastOf
<1>3. CASE n = 0
  <2>1. RunsUpTo(s, 0, [i \in 0..0 |-> NoPieces]) BY DEF RunsUpTo
  <2>. QED BY <1>2, <1>3, <2>1
<1>4. CASE n # 0
  <2>1. n - 1 \in 0..len /\ n - 1 \notin T /\ n \in 1..len BY <1>2, <1>4
  <2>2. PICK g : RunsUpTo(s, n - 1, g) BY <2>1
  <2>. DEFINE f == [i \in 0..n |-> IF i = n THEN Grown(s, n, g[n - 1]) ELSE g[i]]
  <2>4. ASSUME NEW i \in 0..n PROVE f[i] = IF i = 0 THEN NoPieces ELSE Grown(s, i, f[i - 1])
    <3>1. CASE i = n BY <2>1, <3>1
    <3>2. CASE i # n
      <4>1. i \in 0..(n - 1) BY <2>1, <3>2
      <4>2. g[i] = IF i = 0 THEN NoPieces ELSE Grown(s, i, g[i - 1]) BY <2>2, <4>1 DEF RunsUpTo
      <4>3. i # 0 => f[i - 1] = g[i - 1] BY <2>1, <4>1
      <4>. QED BY <3>2, <4>1, <4>2, <4>3
    <3>. QED BY <3>1, <3>2
  <2>5. RunsUpTo(s, n, f)
    <3>1. f = [i \in 0..n |-> f[i]] OBVIOUS
    <3>. HIDE DEF f
    <3>. QED BY <2>4, <3>1 DEF RunsUpTo
  <2>. QED BY <1>2, <2>5
<1>. QED BY <1>3, <1>4

\* The values without a gap that reach up to n begin at a; the others ended before n.
Beginning(s, n, a) ==
    a \in 1..(n + 1) /\ (\A k \in a..n : s[k] # Garbage) /\ (a = 1 \/ s[a - 1] = Garbage)
Piece(a, n) == [k \in 1..(n - a + 1) |-> a + k - 1]
Ended(s, n) ==
    {r \in (1..n) \X (1..n) : /\ r[1] <= r[2] /\ \A k \in r[1]..r[2] : s[k] # Garbage
                              /\ r[1] = 1 \/ s[r[1] - 1] = Garbage
                              /\ r[2] < n /\ s[r[2] + 1] = Garbage}
Ends(pieces) == {<<p[1], p[Len(p)]>> : p \in pieces}
RunKnown(s, n, r, a) ==
    /\ r = [done |-> r.done, current |-> Piece(a, n)]
    /\ Beginning(s, n, a) /\ Ends(r.done) = Ended(s, n)

\* A piece is a list of places from its beginning to its end.
LEMMA PieceOK ==
    ASSUME NEW n \in Nat, NEW a \in 1..(n + 1)
    PROVE  /\ Piece(a, n) \in Seq(Nat) /\ Len(Piece(a, n)) = n - a + 1
           /\ a = n + 1 => Piece(a, n) = <<>>
           /\ a # n + 1 => Piece(a, n) # <<>> /\ Piece(a, n)[1] = a /\ Piece(a, n)[Len(Piece(a, n))] = n
           /\ Append(Piece(a, n), n + 1) = Piece(a, n + 1)
<1>. DEFINE len == n - a + 1
<1>1. len \in Nat /\ (a = n + 1 <=> len = 0) OBVIOUS
<1>2. Piece(a, n) = [k \in 1..len |-> a + k - 1] BY DEF Piece
<1>3. \A k \in 1..len : a + k - 1 \in Nat OBVIOUS
<1>. HIDE DEF len
<1>4. Piece(a, n) \in Seq(Nat) /\ Len(Piece(a, n)) = len BY <1>1, <1>2, <1>3
<1>5. a = n + 1 => Piece(a, n) = <<>> BY <1>1, <1>4
<1>6. a # n + 1 => Piece(a, n) # <<>> /\ Piece(a, n)[1] = a /\ Piece(a, n)[len] = n
  <2>1. SUFFICES ASSUME a # n + 1 PROVE Piece(a, n) # <<>> /\ Piece(a, n)[1] = a /\ Piece(a, n)[len] = n OBVIOUS
  <2>2. 1 \in 1..len /\ len \in 1..len BY <1>1, <2>1
  <2>3. Piece(a, n)[1] = a + 1 - 1 /\ Piece(a, n)[len] = a + len - 1 BY <1>2, <2>2
  <2>4. a + 1 - 1 = a /\ a + len - 1 = n BY DEF len
  <2>. QED BY <1>1, <1>4, <2>1, <2>3, <2>4
<1>7. Append(Piece(a, n), n + 1) = Piece(a, n + 1)
  <2>. DEFINE longer == Append(Piece(a, n), n + 1)
  <2>1. longer \in Seq(Nat) /\ Len(longer) = len + 1 BY <1>1, <1>4
  <2>2. \A k \in 1..(len + 1) : longer[k] = a + k - 1
    <3>1. ASSUME NEW k \in 1..len PROVE longer[k] = a + k - 1 BY <1>1, <1>2, <1>4
    <3>2. longer[len + 1] = n + 1 BY <1>4
    <3>3. a + (len + 1) - 1 = n + 1 BY DEF len
    <3>4. \A k \in 1..(len + 1) : k \in 1..len \/ k = len + 1 BY <1>1
    <3>. QED BY <3>1, <3>2, <3>3, <3>4
  <2>3. n + 1 - a + 1 = len + 1 BY DEF len
  <2>4. longer = [k \in 1..(len + 1) |-> longer[k]] BY <1>1, <2>1
  <2>. HIDE DEF longer
  <2>5. longer = [k \in 1..(len + 1) |-> a + k - 1] BY <2>2, <2>4
  <2>6. Piece(a, n + 1) = [k \in 1..(len + 1) |-> a + k - 1] BY <2>3 DEF Piece
  <2>. QED BY <2>5, <2>6 DEF longer
<1>. QED BY <1>1, <1>4, <1>5, <1>6, <1>7 DEF len

\* The piece that ends at n, when there is one.
LEMMA PiecesOK ==
    ASSUME NEW s, NEW n \in Nat, NEW r, NEW a, RunKnown(s, n, r, a)
    PROVE  Ends(F!Pieces(r)) = Ended(s, n) \cup (IF a = n + 1 THEN {} ELSE {<<a, n>>})
<1>1. a \in 1..(n + 1) /\ r.current = Piece(a, n) /\ Ends(r.done) = Ended(s, n)
  <2>1. a \in 1..(n + 1) BY DEF RunKnown, Beginning
  <2>2. r.current = Piece(a, n) BY DEF RunKnown
  <2>. QED BY <2>1, <2>2 DEF RunKnown
<1>2. CASE a = n + 1
  <2>1. F!Pieces(r) = r.done BY <1>1, <1>2, PieceOK DEF F!Pieces
  <2>. QED BY <1>1, <1>2, <2>1
<1>3. CASE a # n + 1
  <2>1. F!Pieces(r) = r.done \cup {Piece(a, n)} BY <1>1, <1>3, PieceOK DEF F!Pieces
  <2>2. <<Piece(a, n)[1], Piece(a, n)[Len(Piece(a, n))]>> = <<a, n>> BY <1>1, <1>3, PieceOK
  <2>3. Ends(r.done \cup {Piece(a, n)}) = Ends(r.done) \cup {<<a, n>>} BY <2>2 DEF Ends
  <2>. QED BY <1>1, <1>3, <2>1, <2>3
<1>. QED BY <1>2, <1>3

\* The gapless values up to n are one run, and it is the one with this beginning.
LEMMA BeginningIsOne ==
    ASSUME NEW s, NEW n \in Nat, NEW a, Beginning(s, n, a), NEW b \in 1..n
    PROVE  (\A k \in b..n : s[k] # Garbage) /\ (b = 1 \/ s[b - 1] = Garbage) <=> b = a
<1>1. a \in 1..(n + 1) BY DEF Beginning
<1>2. ASSUME \A k \in b..n : s[k] # Garbage, b = 1 \/ s[b - 1] = Garbage, b < a PROVE FALSE
  <2>1. a - 1 \in b..n /\ a # 1 BY <1>1, <1>2
  <2>. QED BY <1>2, <2>1 DEF Beginning
<1>3. ASSUME \A k \in b..n : s[k] # Garbage, b = 1 \/ s[b - 1] = Garbage, b > a PROVE FALSE
  <2>1. b - 1 \in a..n /\ b # 1 BY <1>1, <1>3
  <2>. QED BY <1>3, <2>1 DEF Beginning
<1>4. b = a \/ b < a \/ b > a BY <1>1
<1>. QED BY <1>2, <1>3, <1>4 DEF Beginning

\* One value more.
LEMMA RunGrows ==
    ASSUME NEW s, NEW n \in Nat, NEW r, NEW a, RunKnown(s, n, r, a)
    PROVE  \E b : RunKnown(s, n + 1, Grown(s, n + 1, r), b)
<1>. DEFINE i == n + 1 grown == Grown(s, i, r)
<1>1. a \in 1..(n + 1) /\ Beginning(s, n, a) BY DEF RunKnown, Beginning
<1>2. CASE s[i] = Garbage
  <2>1. grown = [done |-> F!Pieces(r), current |-> <<>>] BY <1>2 DEF Grown
  <2>2. Piece(i + 1, i) = <<>>
    <3>1. i \in Nat /\ i + 1 \in 1..(i + 1) OBVIOUS
    <3>. HIDE DEF i
    <3>. QED BY <3>1, PieceOK
  <2>3. Beginning(s, i, i + 1)
    <3>1. i + 1 \in 1..(i + 1) /\ (i + 1)..i = {} /\ (i + 1) - 1 = i OBVIOUS
    <3>. HIDE DEF i
    <3>. QED BY <1>2, <3>1 DEF Beginning
  <2>4. Ended(s, i) = Ended(s, n) \cup (IF a = n + 1 THEN {} ELSE {<<a, n>>})
    <3>1. ASSUME NEW x \in 1..i, NEW y \in 1..i
          PROVE  <<x, y>> \in Ended(s, i) <=> <<x, y>> \in Ended(s, n) \/ (a # n + 1 /\ x = a /\ y = n)
      <4>. DEFINE Gapless == x <= y /\ (\A k \in x..y : s[k] # Garbage) /\ (x = 1 \/ s[x - 1] = Garbage)
      <4>1. <<x, y>> \in Ended(s, i) <=> Gapless /\ y < i /\ s[y + 1] = Garbage BY DEF Ended
      <4>2. CASE y < n
        <5>1. <<x, y>> \in Ended(s, n) <=> Gapless /\ y < n /\ s[y + 1] = Garbage BY <4>2 DEF Ended
        <5>. QED BY <4>1, <4>2, <5>1
      <4>3. CASE y = n
        <5>1. <<x, y>> \notin Ended(s, n) BY <4>3 DEF Ended
        <5>2. x <= n => (Gapless <=> x = a) BY <1>1, <4>3, BeginningIsOne
        <5>3. a # n + 1 => a <= n BY <1>1
        <5>4. Gapless => x <= n BY <4>3
        <5>. QED BY <1>2, <4>1, <4>3, <5>1, <5>2, <5>3, <5>4
      <4>4. CASE y = i
        <5>1. <<x, y>> \notin Ended(s, n) /\ ~(y < i) BY <4>4 DEF Ended
        <5>. QED BY <4>1, <4>4, <5>1
      <4>. QED BY <4>2, <4>3, <4>4
    <3>2. Ended(s, i) \subseteq (1..i) \X (1..i) /\ Ended(s, n) \subseteq (1..i) \X (1..i) BY DEF Ended
    <3>3. a # n + 1 => a \in 1..i /\ n \in 1..i BY <1>1
    <3>. HIDE DEF i
    <3>. QED BY <3>1, <3>2, <3>3
  <2>7. grown.done = F!Pieces(r) BY <2>1
  <2>8. Ends(F!Pieces(r)) = Ended(s, n) \cup (IF a = n + 1 THEN {} ELSE {<<a, n>>}) BY PiecesOK
  <2>5. Ends(grown.done) = Ended(s, i)
    <3>. HIDE DEF grown, i
    <3>. QED BY <2>4, <2>7, <2>8
  <2>6. RunKnown(s, i, grown, i + 1)
    <3>1. grown = [done |-> grown.done, current |-> <<>>] BY <2>1
    <3>. HIDE DEF grown, i
    <3>. QED BY <2>2, <2>3, <2>5, <3>1 DEF RunKnown
  <2>. QED BY <2>6
<1>3. CASE s[i] # Garbage
  <2>1. grown = [done |-> r.done, current |-> Piece(a, i)]
    <3>1. r = [done |-> r.done, current |-> Piece(a, n)] BY DEF RunKnown
    <3>2. Append(Piece(a, n), i) = Piece(a, i) BY <1>1, PieceOK
    <3>3. grown = [r EXCEPT !.current = Append(@, i)] BY <1>3 DEF Grown
    <3>4. [r EXCEPT !.current = Append(@, i)] = [done |-> r.done, current |-> Append(Piece(a, n), i)] BY <3>1
    <3>. QED BY <3>2, <3>3, <3>4
  <2>2. Beginning(s, i, a)
    <3>1. a \in 1..(i + 1) /\ \A k \in a..i : k \in a..n \/ k = i BY <1>1
    <3>. QED BY <1>1, <1>3, <3>1 DEF Beginning
  <2>3. Ended(s, i) = Ended(s, n)
    <3>1. ASSUME NEW x \in 1..i, NEW y \in 1..i PROVE <<x, y>> \in Ended(s, i) <=> <<x, y>> \in Ended(s, n)
      <4>. DEFINE Gapless == x <= y /\ (\A k \in x..y : s[k] # Garbage) /\ (x = 1 \/ s[x - 1] = Garbage)
      <4>1. <<x, y>> \in Ended(s, i) <=> Gapless /\ y < i /\ s[y + 1] = Garbage BY DEF Ended
      <4>2. CASE y < n
        <5>1. <<x, y>> \in Ended(s, n) <=> Gapless /\ y < n /\ s[y + 1] = Garbage BY <4>2 DEF Ended
        <5>. QED BY <4>1, <4>2, <5>1
      <4>3. CASE y >= n
        <5>1. <<x, y>> \notin Ended(s, n) BY <4>3 DEF Ended
        <5>2. y < i => y + 1 = i BY <4>3
        <5>. QED BY <1>3, <4>1, <5>1, <5>2
      <4>. QED BY <4>2, <4>3
    <3>2. Ended(s, i) \subseteq (1..i) \X (1..i) /\ Ended(s, n) \subseteq (1..i) \X (1..i) BY DEF Ended
    <3>. HIDE DEF i
    <3>. QED BY <3>1, <3>2
  <2>4. grown.done = r.done BY <2>1
  <2>5. RunKnown(s, i, grown, a)
    <3>1. grown = [done |-> grown.done, current |-> Piece(a, i)] BY <2>1
    <3>. HIDE DEF grown, i
    <3>. QED BY <2>2, <2>3, <2>4, <3>1 DEF RunKnown
  <2>. QED BY <2>5
<1>. QED BY <1>2, <1>3

\* The pieces of a series are its runs.
LEMMA SegmentsOK ==
    ASSUME NEW S, NEW s \in Seq(S)
    PROVE  LET runs == {r \in (DOMAIN s) \X (DOMAIN s) :
                           /\ r[1] <= r[2] /\ \A k \in r[1]..r[2] : s[k] # Garbage
                           /\ r[1] = 1 \/ s[r[1] - 1] = Garbage
                           /\ r[2] = Len(s) \/ s[r[2] + 1] = Garbage}
           IN Ends(F!Segments(s)) = runs
<1>. DEFINE n0 == Len(s)
            run == CHOOSE f : RunsUpTo(s, n0, f)
            T == {n \in 0..n0 : ~\E a : RunKnown(s, n, run[n], a)}
<1>1. n0 \in Nat /\ DOMAIN s = 1..n0 OBVIOUS
<1>2. RunsUpTo(s, n0, run)
  <2>1. \A n \in 0..n0 : \E f : RunsUpTo(s, n, f) BY <1>1, RunsExist
  <2>2. \E f : RunsUpTo(s, n0, f) BY <1>1, <2>1
  <2>. QED BY <2>2
<1>3. F!Segments(s) = F!Pieces(run[n0]) BY DEF F!Segments, RunsUpTo, NoPieces, Grown
<1>. HIDE DEF run
<1>4. run = [i \in 0..n0 |-> IF i = 0 THEN NoPieces ELSE Grown(s, i, run[i - 1])] BY <1>2 DEF RunsUpTo
<1>. HIDE DEF n0
<1>5. RunKnown(s, 0, run[0], 1)
  <2>1. run[0] = NoPieces BY <1>1, <1>4
  <2>2. Piece(1, 0) = <<>> BY PieceOK
  <2>3. Beginning(s, 0, 1) BY DEF Beginning
  <2>4. Ends({}) = {} /\ Ended(s, 0) = {} BY DEF Ends, Ended
  <2>5. NoPieces.done = {} /\ NoPieces = [done |-> NoPieces.done, current |-> <<>>] BY DEF NoPieces
  <2>6. run[0] = [done |-> run[0].done, current |-> Piece(1, 0)] BY <2>1, <2>2, <2>5
  <2>7. Ends(run[0].done) = Ended(s, 0) BY <2>1, <2>4, <2>5
  <2>. QED BY <2>3, <2>6, <2>7 DEF RunKnown
<1>6. ASSUME T # {} PROVE FALSE
  <2>1. T \subseteq Nat BY <1>1
  <2>2. PICK n \in T : \A k \in T : n <= k BY <1>6, <2>1, LeastOf
  <2>3. n # 0 BY <1>5, <2>2
  <2>. DEFINE m == n - 1
  <2>4. m \in Nat /\ m \in 0..n0 /\ m + 1 = n /\ n \in 0..n0 BY <1>1, <2>2, <2>3
  <2>5. m \notin T
    <3>1. ~(n <= m) BY <2>4
    <3>. HIDE DEF T, m
    <3>. QED BY <2>2, <3>1
  <2>6. PICK a : RunKnown(s, m, run[m], a) BY <2>4, <2>5
  <2>7. run[n] = Grown(s, n, run[m]) BY <1>4, <2>3, <2>4
  <2>8. \E b : RunKnown(s, m + 1, Grown(s, m + 1, run[m]), b)
    <3>. HIDE DEF m
    <3>. QED BY <2>4, <2>6, RunGrows
  <2>. QED BY <2>2, <2>4, <2>7, <2>8
<1>7. PICK a : RunKnown(s, n0, run[n0], a)
  <2>1. n0 \in 0..n0 BY <1>1
  <2>. QED BY <1>6, <2>1
<1>8. Ends(F!Segments(s)) = Ended(s, n0) \cup (IF a = n0 + 1 THEN {} ELSE {<<a, n0>>})
  BY <1>1, <1>3, <1>7, PiecesOK
<1>. DEFINE runs == {r \in (1..n0) \X (1..n0) :
                           /\ r[1] <= r[2] /\ \A k \in r[1]..r[2] : s[k] # Garbage
                           /\ r[1] = 1 \/ s[r[1] - 1] = Garbage
                           /\ r[2] = n0 \/ s[r[2] + 1] = Garbage}
<1>9. a \in 1..(n0 + 1) /\ Beginning(s, n0, a) BY <1>7 DEF RunKnown, Beginning
<1>14. n0 \in Nat BY <1>1
<1>15. Beginning(s, n0, a) BY <1>9
<1>16. ASSUME NEW b \in 1..n0 PROVE (\A k \in b..n0 : s[k] # Garbage) /\ (b = 1 \/ s[b - 1] = Garbage) <=> b = a
  <2>. HIDE DEF runs, T
  <2>. QED BY <1>14, <1>15, BeginningIsOne
<1>10. ASSUME NEW x \in 1..n0, NEW y \in 1..n0
       PROVE  <<x, y>> \in runs <=> <<x, y>> \in Ended(s, n0) \/ (a # n0 + 1 /\ x = a /\ y = n0)
  <2>. DEFINE Gapless == x <= y /\ (\A k \in x..y : s[k] # Garbage) /\ (x = 1 \/ s[x - 1] = Garbage)
  <2>1. <<x, y>> \in runs <=> Gapless /\ (y = n0 \/ s[y + 1] = Garbage) OBVIOUS
  <2>2. <<x, y>> \in Ended(s, n0) <=> Gapless /\ y < n0 /\ s[y + 1] = Garbage BY DEF Ended
  <2>3. CASE y < n0 BY <1>1, <2>1, <2>2, <2>3
  <2>4. CASE y = n0
    <3>3. (\A k \in x..n0 : s[k] # Garbage) /\ (x = 1 \/ s[x - 1] = Garbage) <=> x = a
      BY <1>16
    <3>4. x <= y BY <1>1, <2>4
    <3>1. Gapless <=> x = a BY <2>4, <3>3, <3>4
    <3>2. x = a => a # n0 + 1 BY <1>1
    <3>. QED BY <1>1, <2>1, <2>2, <2>4, <3>1, <3>2
  <2>. QED BY <1>1, <2>3, <2>4
<1>11. runs \subseteq (1..n0) \X (1..n0) /\ Ended(s, n0) \subseteq (1..n0) \X (1..n0) BY DEF Ended
<1>12. a # n0 + 1 => a \in 1..n0 /\ n0 \in 1..n0 BY <1>1, <1>9
<1>13. Ends(F!Segments(s)) = runs
  <2>. HIDE DEF runs
  <2>. QED BY <1>8, <1>10, <1>11, <1>12
<1>. QED BY <1>1, <1>13 DEF n0

\* A series is drawn in pieces, one for each run of values between two gaps,
\* however long the series and wherever its gaps are.
THEOREM PiecesAreRunsHolds ==
    ASSUME NEW S, F!Drawn("candles") => \A i \in DOMAIN shown.series : shown.series[i] \in Seq(S)
    PROVE  F!PiecesAreRuns
BY SegmentsOK DEF F!PiecesAreRuns, Ends

----------------------------------------------------------------------------
(* The gauge                                                               *)

\* A score is from 0 to 100, in tenths.
LEMMA ScoreOK == ASSUME NEW v \in Int \cup {Garbage} PROVE F!ClampScore(v) \in 0..1000
BY DEF F!ClampScore, F!Clamp

\* The needle ends inside the arcs, and the texts are below it.
LEMMA DialOK ==
    ASSUME NEW size \in Nat, size >= 30
    PROVE  LET dial == F!Dial(size)
           IN /\ 0 < dial.needle /\ dial.needle < dial.radius - dial.stroke \div 2
              /\ dial.radius + dial.stroke \div 2 + 2 <= dial.center + dial.stroke
              /\ dial.value > dial.center /\ dial.label > dial.value /\ dial.height > dial.label
<1>. DEFINE dial == F!Dial(size)
            stroke == F!Greatest({8, F!Rounded(size, 7)})
            tick == F!Greatest({6, F!Rounded(size, 5)})
            radius == F!Rounded(size, 42)
            center == radius + stroke \div 2 + tick
            text == F!Greatest({18, F!Rounded(size, 20)})
            below == F!Greatest({6, F!Rounded(text, 38)})
            valueY == center + stroke \div 2 + below
            large == F!Greatest({1200, (size * 85) \div 10})
            font == (large + 50) \div 100
            labelY == valueY + F!Rounded(font, 135)
<1>1. dial = [center |-> center, radius |-> radius, stroke |-> stroke, tick |-> tick, value |-> valueY, label |-> labelY,
              needle |-> radius - F!Rounded(stroke, 135), height |-> labelY + F!Rounded(font, 120)]
  BY DEF F!Dial
<1>2. stroke \in Nat /\ stroke >= 8 /\ (stroke = 8 \/ 100 * stroke <= 7 * size + 50)
  <2>1. F!Rounded(size, 7) \in Int /\ 100 * F!Rounded(size, 7) <= 7 * size + 50 BY DEF F!Rounded
  <2>. QED BY <2>1, GreatestOfTwo
<1>3. tick \in Nat /\ tick >= 6
  <2>1. F!Rounded(size, 5) \in Int BY DEF F!Rounded
  <2>. QED BY <2>1, GreatestOfTwo
<1>4. radius \in Nat /\ 100 * radius >= 42 * size - 50 BY DEF F!Rounded
<1>5. text \in Int
  <2>1. F!Rounded(size, 20) \in Int BY DEF F!Rounded
  <2>. QED BY <2>1, GreatestOfTwo
<1>. HIDE DEF stroke, tick, radius, text
<1>6. below \in Nat /\ below >= 6
  <2>1. F!Rounded(text, 38) \in Int BY <1>5 DEF F!Rounded
  <2>. QED BY <2>1, GreatestOfTwo
<1>7. large \in Int /\ large >= 1200
  <2>1. (size * 85) \div 10 \in Int OBVIOUS
  <2>. QED BY <2>1, GreatestOfTwo
<1>. HIDE DEF below, large
<1>8. font \in Nat /\ font >= 12 BY <1>7
<1>. HIDE DEF font
<1>9. F!Rounded(font, 135) > 0 /\ F!Rounded(font, 135) \in Int /\ F!Rounded(font, 120) > 0 /\ F!Rounded(font, 120) \in Int
  BY <1>8 DEF F!Rounded
<1>10. /\ F!Rounded(stroke, 135) \in Int /\ F!Rounded(stroke, 135) > stroke \div 2
       /\ 100 * F!Rounded(stroke, 135) <= 135 * stroke + 50
  BY <1>2 DEF F!Rounded
<1>11. stroke \div 2 \in Nat /\ 2 * (stroke \div 2) <= stroke /\ 2 * (stroke \div 2) >= stroke - 1 BY <1>2
<1>12. radius - F!Rounded(stroke, 135) > 0 BY <1>2, <1>4, <1>10
<1>. QED BY <1>1, <1>2, <1>3, <1>4, <1>6, <1>9, <1>10, <1>11, <1>12

\* The needle has the colour of the arc it points at and the dial has room for it and for
\* its texts, for any score and any size from 30 pixels on.
THEOREM NeedleFitsDialHolds ==
    ASSUME F!Drawn("gauge") => F!GaugeData(shown)
    PROVE  F!NeedleFitsDial
<1>1. SUFFICES ASSUME F!Drawn("gauge") PROVE
         LET n == F!Needle(shown)
         IN n.color \notin {"border", "muted"} =>
                 \E i \in 1..4 : /\ F!Arcs[i].color = n.color
                                 /\ F!Angle(F!Arcs[i].from) <= n.angle
                                 /\ n.angle < F!Angle(F!Arcs[i].to) \/ (n.angle = F!Angle(1000) /\ i = 4)
  BY DialOK DEF F!NeedleFitsDial, F!GaugeData
<1>. DEFINE n == F!Needle(shown) score == F!ClampScore(shown.value)
<1>2. SUFFICES ASSUME n.color \notin {"border", "muted"}
      PROVE \E i \in 1..4 : /\ F!Arcs[i].color = n.color
                            /\ F!Angle(F!Arcs[i].from) <= n.angle
                            /\ n.angle < F!Angle(F!Arcs[i].to) \/ (n.angle = F!Angle(1000) /\ i = 4)
  OBVIOUS
<1>3. ~shown.locked /\ shown.value # Nothing BY <1>2 DEF F!Needle
<1>4. score \in 0..1000
  <2>1. shown.value \in Int \cup {Nothing, Garbage} BY <1>1 DEF F!GaugeData
  <2>2. shown.value \in Int \cup {Garbage} BY <1>3, <2>1
  <2>3. F!ClampScore(shown.value) \in 0..1000 BY <2>2 DEF F!ClampScore, F!Clamp
  <2>. QED BY <2>3
<1>5. n.color = F!ScoreColor(score) /\ n.angle = 18 * score BY <1>3 DEF F!Needle, F!Angle
<1>. HIDE DEF n, score
<1>6. CASE score < 500
  <2>1. n.color = F!Arcs[1].color BY <1>4, <1>5, <1>6 DEF F!ScoreColor, F!Arcs
  <2>. QED BY <1>4, <1>5, <1>6, <2>1 DEF F!Angle, F!Arcs
<1>7. CASE score >= 500 /\ score < 700
  <2>1. n.color = F!Arcs[2].color BY <1>4, <1>5, <1>7 DEF F!ScoreColor, F!Arcs
  <2>. QED BY <1>4, <1>5, <1>7, <2>1 DEF F!Angle, F!Arcs
<1>8. CASE score >= 700 /\ score < 900
  <2>1. n.color = F!Arcs[3].color BY <1>4, <1>5, <1>8 DEF F!ScoreColor, F!Arcs
  <2>. QED BY <1>4, <1>5, <1>8, <2>1 DEF F!Angle, F!Arcs
<1>9. CASE score >= 900
  <2>1. n.color = F!Arcs[4].color BY <1>4, <1>5, <1>9 DEF F!ScoreColor, F!Arcs
  <2>. QED BY <1>4, <1>5, <1>9, <2>1 DEF F!Angle, F!Arcs
<1>. QED BY <1>4, <1>6, <1>7, <1>8, <1>9

----------------------------------------------------------------------------
(* The radar                                                               *)

\* Numbers between two bounds.
Bounded(T) == \E bound \in Nat : T \subseteq (-bound)..bound

\* One number is between two bounds.
LEMMA BoundedOne == ASSUME NEW a \in Int PROVE Bounded({a})
<1>1. CASE a >= 0
  <2>1. a \in Nat /\ {a} \subseteq (-a)..a BY <1>1
  <2>. QED BY <2>1 DEF Bounded
<1>2. CASE a < 0
  <2>1. -a \in Nat /\ {a} \subseteq (-(-a))..(-a) BY <1>2
  <2>. QED BY <2>1 DEF Bounded
<1>. QED BY <1>1, <1>2

\* Two bounded sets are bounded together.
LEMMA BoundedBoth == ASSUME NEW S, NEW T, Bounded(S), Bounded(T) PROVE Bounded(S \cup T)
<1>1. PICK a \in Nat : S \subseteq (-a)..a BY DEF Bounded
<1>2. PICK b \in Nat : T \subseteq (-b)..b BY DEF Bounded
<1>3. a + b \in Nat /\ (-a)..a \subseteq (-(a + b))..(a + b) /\ (-b)..b \subseteq (-(a + b))..(a + b) OBVIOUS
<1>4. S \cup T \subseteq (-(a + b))..(a + b) BY <1>1, <1>2, <1>3
<1>. QED BY <1>3, <1>4 DEF Bounded

\* The room for four labels is enough for each of them.
LEMMA RoomOK ==
    ASSUME NEW p \in [1..4 -> Int], NEW q \in [1..4 -> Int]
    PROVE  LET room == F!Greatest({0} \cup UNION {{p[i], q[i]} : i \in 1..4})
           IN room \in Nat /\ \A i \in 1..4 : p[i] <= room /\ q[i] <= room
<1>. DEFINE T == {0} \cup UNION {{p[i], q[i]} : i \in 1..4}
            Pair(i) == {p[i]} \cup {q[i]}
<1>1. \A i \in 1..4 : Bounded(Pair(i)) BY BoundedOne, BoundedBoth
<1>2. Bounded({0}) BY BoundedOne
<1>3. T = (({0} \cup Pair(1)) \cup Pair(2)) \cup (Pair(3) \cup Pair(4)) OBVIOUS
<1>. HIDE DEF Pair
<1>4. Bounded(({0} \cup Pair(1)) \cup Pair(2)) /\ Bounded(Pair(3) \cup Pair(4))
  <2>1. Bounded({0} \cup Pair(1)) BY <1>1, <1>2, BoundedBoth
  <2>2. Bounded(({0} \cup Pair(1)) \cup Pair(2)) BY <1>1, <2>1, BoundedBoth
  <2>3. Bounded(Pair(3) \cup Pair(4)) BY <1>1, BoundedBoth
  <2>. QED BY <2>2, <2>3
<1>5. Bounded(T) BY <1>3, <1>4, BoundedBoth
<1>6. PICK bound \in Nat : T \subseteq (-bound)..bound BY <1>5 DEF Bounded
<1>7. 0 \in T /\ \A i \in 1..4 : p[i] \in T /\ q[i] \in T OBVIOUS
<1>. HIDE DEF T
<1>8. F!Greatest(T) \in T /\ \A v \in T : v <= F!Greatest(T) BY <1>6, <1>7, ExtremesOK
<1>9. F!Greatest(T) \in Nat
  <2>1. F!Greatest(T) \in (-bound)..bound /\ 0 <= F!Greatest(T) BY <1>6, <1>7, <1>8
  <2>. QED BY <2>1
<1>. QED BY <1>7, <1>8, <1>9 DEF T

\* The rings of a radar have a size.
LEMMA RadiusOK == ASSUME F!RadarData(shown) PROVE F!Radius(shown) \in Nat /\ F!Divisions(shown) \in Nat \ {0}
<1>1. shown.size \in Nat /\ shown.divisions \in Int BY DEF F!RadarData
<1>2. F!Divisions(shown) \in Nat \ {0} BY <1>1, GreatestOfTwo DEF F!Divisions
<1>3. F!Gap(1, shown) \in Int
  <2>1. F!Rounded(shown.size, 7) \in Int BY <1>1 DEF F!Rounded
  <2>2. F!Greatest({10, F!Rounded(shown.size, 7)}) \in Int BY <2>1, GreatestOfTwo
  <2>. QED BY <2>2 DEF F!Gap, F!Sin
<1>4. F!Greatest({12, F!Rounded(shown.size, 6)}) \in Int
  <2>1. F!Rounded(shown.size, 6) \in Int BY <1>1 DEF F!Rounded
  <2>. QED BY <2>1, GreatestOfTwo
<1>5. shown.size \div 2 - F!Greatest({12, F!Rounded(shown.size, 6)}) - F!Gap(1, shown) \in Int
  BY <1>1, <1>3, <1>4
<1>6. F!Radius(shown) \in Nat
  <2>. DEFINE room == shown.size \div 2 - F!Greatest({12, F!Rounded(shown.size, 6)}) - F!Gap(1, shown)
  <2>1. F!Radius(shown) = F!Greatest({0, room}) BY DEF F!Radius
  <2>2. room \in Int BY <1>5
  <2>. HIDE DEF room
  <2>3. F!Greatest({0, room}) \in Nat BY <2>2, GreatestOfTwo
  <2>. QED BY <2>1, <2>3
<1>. QED BY <1>2, <1>6

\* A label has a distance from its axis.
LEMMA GapOK == ASSUME F!RadarData(shown), NEW i \in 1..4 PROVE F!Gap(i, shown) \in Int
<1>1. shown.size \in Nat BY DEF F!RadarData
<1>. DEFINE gap == F!Greatest({10, F!Rounded(shown.size, 7)})
<1>2. gap \in Int
  <2>1. F!Rounded(shown.size, 7) \in Int BY <1>1 DEF F!Rounded
  <2>. QED BY <2>1, GreatestOfTwo
<1>. HIDE DEF gap
<1>3. F!Greatest({4, F!Rounded(gap, 60)}) \in Int
  <2>1. F!Rounded(gap, 60) \in Int BY <1>2 DEF F!Rounded
  <2>. QED BY <2>1, GreatestOfTwo
<1>4. F!Gap(i, shown) = IF ~shown.labels THEN 0 ELSE IF F!Sin[i] = 0 THEN gap ELSE F!Greatest({4, F!Rounded(gap, 60)})
  BY DEF F!Gap, gap
<1>. QED BY <1>2, <1>3, <1>4

\* On the four axes a point is as far from the centre as it is to be.
Apart(p, center) == F!Greatest({p.x - center.x, center.x - p.x}) + F!Greatest({p.y - center.y, center.y - p.y})
LEMMA TowardOK ==
    ASSUME NEW i \in 1..4, NEW far \in Nat, NEW center, center.x \in Int, center.y \in Int
    PROVE  /\ F!Toward(i, far, center).x \in Int /\ F!Toward(i, far, center).y \in Int
           /\ Apart(F!Toward(i, far, center), center) = far
<1>. DEFINE p == F!Toward(i, far, center)
<1>1. p.x = center.x + F!Sin[i] * far /\ p.y = center.y - F!Cos[i] * far BY DEF F!Toward
<1>2. \/ F!Sin[i] = 0 /\ F!Cos[i] = 1
      \/ F!Sin[i] = 1 /\ F!Cos[i] = 0
      \/ F!Sin[i] = 0 /\ F!Cos[i] = -1
      \/ F!Sin[i] = -1 /\ F!Cos[i] = 0
  BY DEF F!Sin, F!Cos
<1>. HIDE DEF p
<1>3. p.x \in Int /\ p.y \in Int BY <1>1, <1>2
<1>4. \/ p.x = center.x /\ p.y = center.y - far
      \/ p.x = center.x + far /\ p.y = center.y
      \/ p.x = center.x /\ p.y = center.y + far
      \/ p.x = center.x - far /\ p.y = center.y
  BY <1>1, <1>2
<1>5. \A a, b \in Int : F!Greatest({a - b, b - a}) = IF a - b >= b - a THEN a - b ELSE b - a
  BY GreatestOfTwo
<1>6. Apart(p, center) = (IF p.x - center.x >= center.x - p.x THEN p.x - center.x ELSE center.x - p.x)
                         + (IF p.y - center.y >= center.y - p.y THEN p.y - center.y ELSE center.y - p.y)
  BY <1>3, <1>5 DEF Apart
<1>7. Apart(p, center) = far BY <1>3, <1>4, <1>6
<1>. QED BY <1>3, <1>7 DEF p

\* A label has a box.
LEMMA BoxOK ==
    ASSUME F!RadarData(shown), NEW i \in 1..4
    PROVE  LET box == F!LabelBox(i, shown)
           IN box.left \in Int /\ box.right \in Int /\ box.top \in Int /\ box.bottom \in Int
<1>1. shown.size \in Nat /\ shown.widths[i] \in Nat BY DEF F!RadarData
<1>. DEFINE at == F!Toward(i, F!Radius(shown) + F!Gap(i, shown), [x |-> shown.size \div 2, y |-> shown.size \div 2])
            box == F!LabelBox(i, shown) x == at.x y == at.y w == shown.widths[i]
<1>2. x \in Int /\ y \in Int
  <2>1. F!Radius(shown) + F!Gap(i, shown) \in Int BY RadiusOK, GapOK
  <2>2. F!Sin[i] \in Int /\ F!Cos[i] \in Int BY DEF F!Sin, F!Cos
  <2>3. shown.size \div 2 \in Int BY <1>1
  <2>. QED BY <2>1, <2>2, <2>3 DEF F!Toward
<1>3. box = F!BoxAt(x, y, w, F!Anchor[i], F!Baseline[i]) BY DEF F!LabelBox
<1>. HIDE DEF x, y, w, box
<1>4. w \in Int BY <1>1 DEF w
<1>5. /\ F!Anchor[i] \in {"middle", "start", "end"} /\ F!Baseline[i] \in {"auto", "central", "hanging"}
  BY DEF F!Anchor, F!Baseline
<1>6. box.left \in Int /\ box.right \in Int
  <2>1. CASE F!Anchor[i] = "start" BY <1>2, <1>3, <1>4, <2>1 DEF F!BoxAt
  <2>2. CASE F!Anchor[i] = "end" BY <1>2, <1>3, <1>4, <2>2 DEF F!BoxAt
  <2>3. CASE F!Anchor[i] = "middle" BY <1>2, <1>3, <1>4, <2>3 DEF F!BoxAt
  <2>. QED BY <1>5, <2>1, <2>2, <2>3
<1>7. box.top \in Int /\ box.bottom \in Int
  <2>1. CASE F!Baseline[i] = "hanging" BY <1>2, <1>3, <1>4, <2>1 DEF F!BoxAt, F!fontSize
  <2>2. CASE F!Baseline[i] = "central" BY <1>2, <1>3, <1>4, <2>2 DEF F!BoxAt, F!fontSize
  <2>3. CASE F!Baseline[i] = "auto" BY <1>2, <1>3, <1>4, <2>3 DEF F!BoxAt, F!fontSize
  <2>. QED BY <1>5, <2>1, <2>2, <2>3
<1>. QED BY <1>6, <1>7 DEF box

\* The canvas has room for the labels, on both sides alike.
LEMMA ExtraOK ==
    ASSUME F!RadarData(shown)
    PROVE  LET extra == F!Extra(shown)
           IN /\ extra.x \in Nat /\ extra.y \in Nat
              /\ shown.labels => \A i \in 1..4 :
                    LET box == F!LabelBox(i, shown)
                    IN /\ 0 <= box.left + extra.x /\ box.right <= shown.size + extra.x
                       /\ 0 <= box.top + extra.y /\ box.bottom <= shown.size + extra.y
<1>. DEFINE extra == F!Extra(shown) Box(i) == F!LabelBox(i, shown) size == shown.size
            pad == F!Greatest({2, F!Rounded(shown.size, 2)})
            left == [i \in 1..4 |-> -Box(i).left] right == [i \in 1..4 |-> Box(i).right - size]
            above == [i \in 1..4 |-> pad - Box(i).top] below == [i \in 1..4 |-> Box(i).bottom - (size - pad)]
            boxes == {Box(i) : i \in 1..4}
<1>1. size \in Nat BY DEF F!RadarData
<1>2. pad \in Nat
  <2>1. F!Rounded(size, 2) \in Int BY <1>1 DEF F!Rounded
  <2>. QED BY <2>1, GreatestOfTwo
<1>3. \A i \in 1..4 : Box(i).left \in Int /\ Box(i).right \in Int /\ Box(i).top \in Int /\ Box(i).bottom \in Int
  BY BoxOK
<1>4. CASE ~shown.labels BY <1>4 DEF F!Extra
<1>5. CASE shown.labels
  <2>1. extra = [x |-> F!Greatest({0} \cup UNION {{-b.left, b.right - size} : b \in boxes}),
                 y |-> F!Greatest({0} \cup UNION {{pad - b.top, b.bottom - (size - pad)} : b \in boxes})]
    BY <1>5 DEF F!Extra
  <2>. HIDE DEF Box, size, pad, extra
  <2>2. UNION {{-b.left, b.right - size} : b \in boxes} = UNION {{left[i], right[i]} : i \in 1..4}
    <3>1. {{-b.left, b.right - size} : b \in boxes} = {{left[i], right[i]} : i \in 1..4} OBVIOUS
    <3>. QED BY <3>1
  <2>3. UNION {{pad - b.top, b.bottom - (size - pad)} : b \in boxes} = UNION {{above[i], below[i]} : i \in 1..4}
    <3>1. {{pad - b.top, b.bottom - (size - pad)} : b \in boxes} = {{above[i], below[i]} : i \in 1..4} OBVIOUS
    <3>. QED BY <3>1
  <2>4. left \in [1..4 -> Int] /\ right \in [1..4 -> Int] /\ above \in [1..4 -> Int] /\ below \in [1..4 -> Int]
    BY <1>1, <1>2, <1>3
  <2>5. extra.x = F!Greatest({0} \cup UNION {{left[i], right[i]} : i \in 1..4})
        /\ extra.y = F!Greatest({0} \cup UNION {{above[i], below[i]} : i \in 1..4})
    <3>. HIDE DEF boxes, left, right, above, below
    <3>. QED BY <2>1, <2>2, <2>3
  <2>6. /\ extra.x \in Nat /\ \A i \in 1..4 : left[i] <= extra.x /\ right[i] <= extra.x
        /\ extra.y \in Nat /\ \A i \in 1..4 : above[i] <= extra.y /\ below[i] <= extra.y
    <3>. HIDE DEF left, right, above, below
    <3>. QED BY <2>4, <2>5, RoomOK
  <2>7. ASSUME NEW i \in 1..4
        PROVE  /\ 0 <= Box(i).left + extra.x /\ Box(i).right <= size + extra.x
               /\ 0 <= Box(i).top + extra.y /\ Box(i).bottom <= size + extra.y
    <3>1. -Box(i).left <= extra.x /\ Box(i).right - size <= extra.x BY <2>6
    <3>2. pad - Box(i).top <= extra.y /\ Box(i).bottom - (size - pad) <= extra.y BY <2>6
    <3>3. Box(i).left \in Int /\ Box(i).right \in Int /\ Box(i).top \in Int /\ Box(i).bottom \in Int BY <1>3
    <3>. QED BY <1>1, <1>2, <2>6, <3>1, <3>2, <3>3
  <2>. QED BY <2>6, <2>7 DEF Box, size, extra
<1>. QED BY <1>4, <1>5

\* The labels of the radar are inside its canvas, its centre is in the middle, and its
\* values are inside its rings, however long the labels are and whatever the values.
THEOREM RadarFitsCanvasHolds ==
    ASSUME F!Drawn("radar") => F!RadarData(shown)
    PROVE  F!RadarFitsCanvas
<1>. DEFINE extra == F!Extra(shown) center == F!Center(shown) radius == F!Radius(shown) n == F!Divisions(shown)
            Reached(k, i) == Apart(F!Ring(k, i, shown), center)
<1>1. SUFFICES ASSUME F!Drawn("radar")
      PROVE  /\ shown.labels => \A i \in 1..4 :
                   /\ 0 <= F!LabelBox(i, shown).left + extra.x /\ F!LabelBox(i, shown).right <= shown.size + extra.x
                   /\ 0 <= F!LabelBox(i, shown).top + extra.y /\ F!LabelBox(i, shown).bottom <= shown.size + extra.y
             /\ 2 * center.x = shown.size + 2 * extra.x /\ 2 * center.y = shown.size + 2 * extra.y
             /\ \A w \in F!Wedges :
                  /\ Apart(F!ValuePoint(w[2], shown), center) <= [k \in 1..n |-> Reached(k, w[1])][n]
                  /\ \A k \in 2..n : [j \in 1..n |-> Reached(j, w[1])][k - 1] < [j \in 1..n |-> Reached(j, w[1])][k]
  BY DEF F!RadarFitsCanvas, Apart
<1>2. F!RadarData(shown) BY <1>1
<1>3. /\ extra.x \in Nat /\ extra.y \in Nat
      /\ shown.labels => \A i \in 1..4 :
             /\ 0 <= F!LabelBox(i, shown).left + extra.x /\ F!LabelBox(i, shown).right <= shown.size + extra.x
             /\ 0 <= F!LabelBox(i, shown).top + extra.y /\ F!LabelBox(i, shown).bottom <= shown.size + extra.y
  BY <1>2, ExtraOK
<1>4. PICK half \in Nat : shown.size = 2 * half BY <1>2 DEF F!RadarData
<1>5. center.x = half + extra.x /\ center.y = half + extra.y
  <2>1. shown.size \div 2 = half BY <1>4
  <2>. QED BY <2>1 DEF F!Center
<1>6. radius \in Nat /\ n \in Nat \ {0} /\ radius >= n BY <1>2, RadiusOK DEF F!RadarData
<1>. HIDE DEF extra, center, radius, n
<1>7. center.x \in Int /\ center.y \in Int BY <1>3, <1>4, <1>5
<1>8. ASSUME NEW k \in 0..n, NEW i \in 1..4 PROVE Reached(k, i) = (k * radius) \div n /\ (k * radius) \div n \in Nat
  <2>1. (k * radius) \div n \in Nat BY <1>6, ShareOfHeight
  <2>2. F!Ring(k, i, shown) = F!Toward(i, (k * radius) \div n, center) BY DEF F!Ring, F!At, center, radius, n
  <2>. QED BY <1>7, <2>1, <2>2, TowardOK
<1>9. ASSUME NEW i \in 1..4 PROVE Apart(F!ValuePoint(i, shown), center) <= radius
  <2>. DEFINE score == F!ClampScore(shown.values[i]) far == (score * radius) \div 1000
  <2>0. shown.values[i] \in Int \cup {Garbage} BY <1>2, Zenon DEF F!RadarData
  <2>1. score \in 0..1000
    <3>. DEFINE v == shown.values[i]
    <3>1. v \in Int \cup {Garbage} BY <2>0
    <3>. HIDE DEF v
    <3>2. F!ClampScore(v) \in 0..1000 BY ONLY <3>1 DEF F!ClampScore, F!Clamp
    <3>. QED BY ONLY <3>2 DEF v
  <2>4. 1000 \in Nat \ {0} OBVIOUS
  <2>2. far \in 0..radius
    <3>. HIDE DEF score
    <3>. QED BY <1>6, <2>1, <2>4, ShareOfHeight
  <2>3. F!ValuePoint(i, shown) = F!Toward(i, far, center) BY DEF F!ValuePoint, F!At, center, radius
  <2>. HIDE DEF far
  <2>5. far \in Nat BY <1>6, <2>2
  <2>6. Apart(F!ValuePoint(i, shown), center) = far BY <1>7, <2>3, <2>5, TowardOK
  <2>. QED BY <1>6, <2>2, <2>6
<1>10. ASSUME NEW i \in 1..4 PROVE Reached(n, i) = radius
  <2>1. n * radius = radius * n /\ (radius * n) \div n = radius BY <1>6, QuotientOK
  <2>2. n \in 0..n BY <1>6
  <2>. QED BY <1>8, <2>1, <2>2
<1>11. ASSUME NEW i \in 1..4, NEW k \in 2..n PROVE Reached(k - 1, i) < Reached(k, i)
  <2>. DEFINE a == (k - 1) * radius b == k * radius
  <2>1. k \in 0..n /\ k - 1 \in 0..n BY <1>6
  <2>2. Reached(k, i) = b \div n /\ Reached(k - 1, i) = a \div n BY <1>8, <2>1
  <2>3. a \in Int /\ b \in Int /\ a + n <= b BY <1>6
  <2>. HIDE DEF a, b
  <2>4. (a + n) \div n <= b \div n BY <1>6, <2>3, QuotientsGrow
  <2>5. (a + n) \div n = a \div n + 1 BY <1>6, <2>3, QuotientOfNext
  <2>6. a \div n \in Int /\ b \div n \in Int BY <1>6, <2>3
  <2>. QED BY <2>2, <2>4, <2>5, <2>6
<1>12. \A w \in F!Wedges : w[1] \in 1..4 /\ w[2] \in 1..4 BY DEF F!Wedges
<1>13. n \in 1..n /\ \A k \in 2..n : k \in 1..n /\ k - 1 \in 1..n BY <1>6
<1>14. 2 * center.x = shown.size + 2 * extra.x /\ 2 * center.y = shown.size + 2 * extra.y BY <1>3, <1>4, <1>5
<1>. HIDE DEF Reached
<1>. QED BY <1>3, <1>9, <1>10, <1>11, <1>12, <1>13, <1>14

----------------------------------------------------------------------------
(* The ring of an allocation                                               *)

\* The total of the beginning of a list.
LEMMA TotalOfTake ==
    ASSUME NEW s \in Seq(Int), NEW n \in 0..Len(s)
    PROVE  F!TotalOf(F!Take(s, n)) = Sum(s)[n]
<1>. DEFINE t == F!Take(s, n)
<1>1. t \in Seq(Int) /\ Len(t) = n /\ \A i \in 1..n : t[i] = s[i]
  <2>1. t = SubSeq(s, 1, n)
    <3>1. CASE n < Len(s) BY <3>1 DEF F!Take
    <3>2. CASE ~(n < Len(s)) BY <3>2 DEF F!Take
    <3>. QED BY <3>1, <3>2
  <2>2. \A i \in 1..n : s[i] \in Int OBVIOUS
  <2>. HIDE DEF t
  <2>3. t \in Seq(Int) /\ Len(t) = n BY <2>1, <2>2, SubSeqProperties
  <2>4. \A i \in 1..n : t[i] = s[i] BY <2>1, <2>2, SubSeqProperties
  <2>. QED BY <2>3, <2>4
<1>. HIDE DEF t
<1>2. F!TotalOf(t) = Sum(t)[n] /\ Sum(t) = [i \in 0..n |-> IF i = 0 THEN 0 ELSE t[i] + Sum(t)[i - 1]]
  <2>1. Len(t) \in Nat /\ \A i \in 1..Len(t) : t[i] \in Int BY <1>1
  <2>. QED BY <1>1, <2>1, SumOf
<1>3. Sum(s) = [i \in 0..Len(s) |-> IF i = 0 THEN 0 ELSE s[i] + Sum(s)[i - 1]]
  <2>1. Len(s) \in Nat /\ \A i \in 1..Len(s) : s[i] \in Int OBVIOUS
  <2>. QED BY <2>1, SumOf
<1>. DEFINE T == {i \in 0..n : Sum(t)[i] # Sum(s)[i]}
<1>4. ASSUME T # {} PROVE FALSE
  <2>1. T \subseteq Nat OBVIOUS
  <2>. HIDE DEF T
  <2>2. PICK i \in T : \A k \in T : i <= k BY <1>4, <2>1, LeastOf
  <2>3. i \in 0..n /\ Sum(t)[i] # Sum(s)[i] BY <2>2 DEF T
  <2>4. i # 0 BY <1>2, <1>3, <2>3
  <2>5. i - 1 \in 0..n /\ i - 1 \notin T BY <2>2, <2>3, <2>4
  <2>6. Sum(t)[i - 1] = Sum(s)[i - 1] BY <2>5 DEF T
  <2>7. Sum(t)[i] = t[i] + Sum(t)[i - 1] BY <1>2, <2>3, <2>4
  <2>8. i \in 0..Len(s) /\ i \in 1..n BY <2>3, <2>4
  <2>9. Sum(s)[i] = s[i] + Sum(s)[i - 1] BY <1>3, <2>4, <2>8
  <2>. QED BY <1>1, <2>3, <2>6, <2>7, <2>8, <2>9
<1>. QED BY <1>2, <1>4

\* The arcs of a ring follow each other from its beginning to its end, for any parts.
THEOREM RingClosesHolds ==
    ASSUME F!Drawn("ring") => F!RingData(shown)
    PROVE  F!RingCloses
<1>. DEFINE s == F!Shares(shown) arcs == F!ArcsOfRing(shown)
<1>1. SUFFICES ASSUME F!Drawn("ring"), arcs # <<>>
               PROVE  /\ arcs[1].from = 0
                      /\ arcs[Len(arcs)].from + arcs[Len(arcs)].length = F!TotalOf(s)
                      /\ \A i \in 2..Len(arcs) : arcs[i].from = arcs[i - 1].from + arcs[i - 1].length
  BY DEF F!RingCloses
<1>2. s \in Seq(Int) BY <1>1 DEF F!RingData
<1>3. arcs = [i \in DOMAIN s |-> [from |-> F!TotalOf(F!Take(s, i - 1)), length |-> s[i]]] BY DEF F!ArcsOfRing
<1>. HIDE DEF s, arcs
<1>4. DOMAIN s = 1..Len(s) /\ Len(s) \in Nat BY <1>2
<1>5. Len(arcs) = Len(s) /\ \A i \in 1..Len(s) : arcs[i].from = Sum(s)[i - 1] /\ arcs[i].length = s[i]
  <2>1. Len(arcs) = Len(s) BY <1>3, <1>4
  <2>2. ASSUME NEW i \in 1..Len(s) PROVE F!TotalOf(F!Take(s, i - 1)) = Sum(s)[i - 1]
    <3>1. i - 1 \in 0..Len(s) BY <1>4
    <3>. QED BY <1>2, <3>1, TotalOfTake
  <2>. QED BY <1>3, <1>4, <2>1, <2>2
<1>6. Len(s) # 0
  <2>1. ASSUME Len(s) = 0 PROVE arcs = <<>>
    <3>1. DOMAIN s = {} BY <1>4, <2>1
    <3>. QED BY <1>3, <3>1
  <2>. QED BY <1>1, <2>1
<1>7. /\ F!TotalOf(s) = Sum(s)[Len(s)]
      /\ Sum(s) = [i \in 0..Len(s) |-> IF i = 0 THEN 0 ELSE s[i] + Sum(s)[i - 1]]
      /\ \A i \in 0..Len(s) : Sum(s)[i] \in Int
  <2>1. \A i \in 1..Len(s) : s[i] \in Int BY <1>2
  <2>. QED BY <1>4, <2>1, SumOf
<1>8. Sum(s)[0] = 0 BY <1>4, <1>7
<1>9. ASSUME NEW i \in 1..Len(s) PROVE Sum(s)[i] = s[i] + Sum(s)[i - 1] /\ Sum(s)[i - 1] \in Int /\ s[i] \in Int
  <2>1. i \in 0..Len(s) /\ i # 0 /\ i - 1 \in 0..Len(s) BY <1>4
  <2>2. Sum(s)[i] = s[i] + Sum(s)[i - 1] BY <1>7, <2>1
  <2>3. s[i] \in Int BY <1>2
  <2>4. Sum(s)[i - 1] \in Int
    <3>. HIDE DEF Sum
    <3>. QED BY <1>7, <2>1
  <2>. QED BY <2>2, <2>3, <2>4
<1>10. 1 \in 1..Len(s) /\ Len(s) \in 1..Len(s) BY <1>4, <1>6
<1>11. arcs[1].from = 0
  <2>1. arcs[1].from = Sum(s)[1 - 1] BY <1>5, <1>10
  <2>. QED BY <1>8, <2>1
<1>12. arcs[Len(arcs)].from + arcs[Len(arcs)].length = F!TotalOf(s)
  <2>1. arcs[Len(arcs)].from = Sum(s)[Len(s) - 1] /\ arcs[Len(arcs)].length = s[Len(s)] BY <1>5, <1>10
  <2>2. Sum(s)[Len(s)] = s[Len(s)] + Sum(s)[Len(s) - 1] /\ Sum(s)[Len(s) - 1] \in Int /\ s[Len(s)] \in Int
    BY <1>9, <1>10
  <2>. QED BY <1>7, <2>1, <2>2
<1>13. ASSUME NEW i \in 2..Len(arcs) PROVE arcs[i].from = arcs[i - 1].from + arcs[i - 1].length
  <2>1. i \in 1..Len(s) /\ i - 1 \in 1..Len(s) BY <1>4, <1>5
  <2>2. arcs[i].from = Sum(s)[i - 1] BY <1>5, <2>1
  <2>3. arcs[i - 1].from = Sum(s)[(i - 1) - 1] /\ arcs[i - 1].length = s[i - 1] BY <1>5, <2>1
  <2>4. Sum(s)[i - 1] = s[i - 1] + Sum(s)[(i - 1) - 1] /\ Sum(s)[(i - 1) - 1] \in Int /\ s[i - 1] \in Int
    BY <1>9, <2>1
  <2>. QED BY <2>2, <2>3, <2>4
<1>. QED BY <1>11, <1>12, <1>13

(****************************** The readouts *******************************)

\* The steps of the texts: a unit, and what the last place of a shortened amount counts.
Steps == {1, 10, 100, 10000, 100000, 10000000, 100000000}

\* The digits are the amount up to half a step, and have its sign.
LEMMA DigitsOK ==
    ASSUME NEW v \in Int, NEW step \in Steps, step = 1 \/ F!Abs(v) >= step
    PROVE  LET read == F!Digits(v, step) * step
           IN /\ F!Abs(read - v) <= (step + 1) \div 2
              /\ (read < 0) = (v < 0)
<1>1. CASE step = 1 BY <1>1 DEF F!Digits, F!Abs
<1>2. CASE step = 10 BY <1>2 DEF F!Digits, F!Abs
<1>3. CASE step = 100 BY <1>3 DEF F!Digits, F!Abs
<1>4. CASE step = 10000 BY <1>4 DEF F!Digits, F!Abs
<1>5. CASE step = 100000 BY <1>5 DEF F!Digits, F!Abs
<1>6. CASE step = 10000000 BY <1>6 DEF F!Digits, F!Abs
<1>7. CASE step = 100000000 BY <1>7 DEF F!Digits, F!Abs
<1>. QED BY <1>1, <1>2, <1>3, <1>4, <1>5, <1>6, <1>7 DEF Steps

\* Where the number of a text is, where its unit, and the suffix that follows the number.
ReadAt(text, at, unit, suffix) ==
    /\ at \in DOMAIN text.parts /\ unit \in DOMAIN text.parts
    /\ suffix = IF at < Len(text.parts) /\ text.parts[at + 1] \in {"K", "M", "B"} THEN text.parts[at + 1] ELSE "units"
    /\ \A i \in DOMAIN text.parts : text.parts[i] = "#" <=> i = at
    /\ \A i \in DOMAIN text.parts : text.parts[i] \notin {"#", suffix} <=> i = unit

\* What a text reads back as.
LEMMA ReadsOK ==
    ASSUME NEW text, NEW at, NEW unit, NEW suffix, ReadAt(text, at, unit, suffix)
    PROVE  /\ F!Reads(text).value = text.digits * F!DigitStep(suffix, text.places)
           /\ F!Reads(text).step = F!DigitStep(suffix, text.places)
           /\ F!Reads(text).units = 1
<1>. USE DEF ReadAt
<1>1. (CHOOSE i \in DOMAIN text.parts : text.parts[i] = "#") = at OBVIOUS
<1>2. {i \in DOMAIN text.parts : text.parts[i] \notin {"#", suffix}} = {unit} OBVIOUS
<1>3. F!Cardinality({unit}) = 1
  <2>1. F!Cardinality({unit}) = Cardinality({unit}) BY DEF F!Cardinality, Cardinality
  <2>. QED BY <2>1, FS_Singleton
<1>. QED BY <1>1, <1>2, <1>3 DEF F!Reads

\* What the property asks of one text.
ReadsBack(text, v) ==
    LET read == F!Reads(text)
    IN /\ F!Abs(read.value - v) <= (read.step + 1) \div 2
       /\ (read.value < 0) = (v < 0)
       /\ read.units = 1

\* A text reads back when its suffix follows the digits, on either side of the unit.
LEMMA TextOK ==
    ASSUME NEW v \in Int, NEW u, u \notin {"#", "units", "K", "M", "B"}, NEW suffix \in {"units", "K", "M", "B"}, NEW text,
           text.parts \in (IF suffix = "units" THEN {<<u, "#">>, <<"#", u>>} ELSE {<<u, "#", suffix>>, <<"#", suffix, u>>}),
           F!DigitStep(suffix, text.places) \in Steps,
           F!DigitStep(suffix, text.places) = 1 \/ F!Abs(v) >= F!DigitStep(suffix, text.places),
           text.digits = F!Digits(v, F!DigitStep(suffix, text.places))
    PROVE  ReadsBack(text, v)
<1>1. \E at, unit : ReadAt(text, at, unit, suffix)
  <2>1. CASE text.parts = <<u, "#">> /\ suffix = "units"
    <3>1. DOMAIN text.parts = 1..2 /\ Len(text.parts) = 2 BY <2>1
    <3>2. text.parts[1] = u /\ text.parts[2] = "#" BY <2>1
    <3>3. ReadAt(text, 2, 1, suffix) BY <2>1, <3>1, <3>2 DEF ReadAt
    <3>. QED BY <3>3
  <2>2. CASE text.parts = <<"#", u>> /\ suffix = "units"
    <3>1. DOMAIN text.parts = 1..2 /\ Len(text.parts) = 2 BY <2>2
    <3>2. text.parts[1] = "#" /\ text.parts[2] = u BY <2>2
    <3>3. ReadAt(text, 1, 2, suffix) BY <2>2, <3>1, <3>2 DEF ReadAt
    <3>. QED BY <3>3
  <2>3. CASE text.parts = <<u, "#", suffix>> /\ suffix # "units"
    <3>1. DOMAIN text.parts = 1..3 /\ Len(text.parts) = 3 BY <2>3
    <3>2. text.parts[1] = u /\ text.parts[2] = "#" /\ text.parts[3] = suffix BY <2>3
    <3>3. ReadAt(text, 2, 1, suffix) BY <2>3, <3>1, <3>2 DEF ReadAt
    <3>. QED BY <3>3
  <2>4. CASE text.parts = <<"#", suffix, u>> /\ suffix # "units"
    <3>1. DOMAIN text.parts = 1..3 /\ Len(text.parts) = 3 BY <2>4
    <3>2. text.parts[1] = "#" /\ text.parts[2] = suffix /\ text.parts[3] = u BY <2>4
    <3>3. ReadAt(text, 1, 3, suffix) BY <2>4, <3>1, <3>2 DEF ReadAt
    <3>. QED BY <3>3
  <2>. QED BY <2>1, <2>2, <2>3, <2>4
<1>2. /\ F!Reads(text).value = text.digits * F!DigitStep(suffix, text.places)
      /\ F!Reads(text).step = F!DigitStep(suffix, text.places)
      /\ F!Reads(text).units = 1
  BY <1>1, ReadsOK
<1>3. LET read == F!Digits(v, F!DigitStep(suffix, text.places)) * F!DigitStep(suffix, text.places)
      IN /\ F!Abs(read - v) <= (F!DigitStep(suffix, text.places) + 1) \div 2
         /\ (read < 0) = (v < 0)
  BY DigitsOK
<1>. QED BY <1>2, <1>3 DEF ReadsBack

\* Without a suffix and places the digits count units.
LEMMA WholeOK == ASSUME NEW suffix, suffix \notin {"K", "M", "B"} PROVE F!DigitStep(suffix, 0) = 1
BY DEF F!DigitStep, F!Per, F!Power

\* The three ways to write an amount, in the parts the code puts together.
LEMMA CurrencyOK ==
    ASSUME NEW v \in Int, NEW unit, F!NormalizeMoneyUnit(unit) \notin {"#", "units", "K", "M", "B"}
    PROVE  ReadsBack(F!Currency(v, unit), v)
<1>. DEFINE u == F!NormalizeMoneyUnit(unit) text == F!Currency(v, unit)
<1>1. F!DigitStep("units", 0) = 1 BY WholeOK
<1>2. text.digits = F!Digits(v, F!DigitStep("units", 0)) /\ text.places = 0 /\ text.parts \in {<<u, "#">>, <<"#", u>>}
  BY DEF F!Currency, F!MoneyAmount, F!FormatUnit, F!Number
<1>3. u \notin {"#", "units", "K", "M", "B"} OBVIOUS
<1>. HIDE DEF u, text
<1>4. ReadsBack(text, v)
  <2>1. F!DigitStep("units", text.places) = 1 BY <1>1, <1>2
  <2>2. 1 \in Steps BY DEF Steps
  <2>. QED BY <1>1, <1>2, <1>3, <2>1, <2>2, TextOK
<1>. QED BY <1>4 DEF text

LEMMA CompactOK ==
    ASSUME NEW v \in Int, NEW unit, F!NormalizeMoneyUnit(unit) \notin {"#", "units", "K", "M", "B"}
    PROVE  ReadsBack(F!CompactCurrency(v, unit), v)
<1>. DEFINE u == F!NormalizeMoneyUnit(unit) text == F!CompactCurrency(v, unit)
            suffix == IF F!Abs(v) < 999950 THEN "K" ELSE IF F!Abs(v) < 999950000 THEN "M" ELSE "B"
<1>1. CASE F!Abs(v) < 100000
  <2>1. text = F!Currency(v, unit) BY <1>1 DEF F!CompactCurrency
  <2>. QED BY <2>1, CurrencyOK
<1>2. CASE ~(F!Abs(v) < 100000)
  <2>1. /\ text.digits = F!Digits(v, F!DigitStep(suffix, 1)) /\ text.places = 1
        /\ text.parts \in {<<u, "#", suffix>>, <<"#", suffix, u>>}
    BY <1>2 DEF F!CompactCurrency, F!Number
  <2>2. F!Abs(v) \in Int BY DEF F!Abs
  <2>3. F!DigitStep(suffix, 1) \in Steps /\ F!Abs(v) >= F!DigitStep(suffix, 1)
    <3>1. F!DigitStep("K", 1) = 100 /\ F!DigitStep("M", 1) = 100000 /\ F!DigitStep("B", 1) = 100000000
      BY DEF F!DigitStep, F!Per, F!Power
    <3>. QED BY <1>2, <2>2, <3>1 DEF Steps
  <2>4. u \notin {"#", "units", "K", "M", "B"} /\ suffix \in {"units", "K", "M", "B"} /\ suffix # "units" OBVIOUS
  <2>. HIDE DEF u, text, suffix
  <2>5. ReadsBack(text, v) BY <2>1, <2>3, <2>4, TextOK
  <2>. QED BY <2>5 DEF text
<1>. QED BY <1>1, <1>2

LEMMA Appended == ASSUME NEW x, NEW y, NEW z PROVE Append(<<x, y>>, z) = <<x, y, z>>
<1>. DEFINE T == {x, y, z}
<1>1. <<x, y>> \in Seq(T) /\ z \in T /\ Len(<<x, y>>) = 2 /\ <<x, y>>[1] = x /\ <<x, y>>[2] = y OBVIOUS
<1>2. PICK s : s = Append(<<x, y>>, z) OBVIOUS
<1>3. s \in Seq(T) /\ Len(s) = 3 /\ s[1] = x /\ s[2] = y /\ s[3] = z
  <2>. HIDE DEF T
  <2>. QED BY <1>1, <1>2, AppendProperties
<1>4. s = <<x, y, z>> BY <1>3
<1>. QED BY <1>2, <1>4

LEMMA TotalOK ==
    ASSUME NEW v \in Int, NEW unit, F!NormalizeMoneyUnit(unit) \notin {"#", "units", "K", "M", "B"}
    PROVE  ReadsBack(F!PortfolioTotal(v, unit), v)
<1>. DEFINE u == F!NormalizeMoneyUnit(unit) text == F!PortfolioTotal(v, unit) suffix == F!Suffix(v)
<1>1. CASE F!Abs(v) < 1000
  <2>1. text = F!Currency(v, unit) BY <1>1 DEF F!PortfolioTotal
  <2>. QED BY <2>1, CurrencyOK
<1>2. CASE ~(F!Abs(v) < 1000)
  <2>1. /\ text.digits = F!Digits(v, F!DigitStep(suffix, 2)) /\ text.places = 2
        /\ text.parts \in {<<u, "#", suffix>>, <<"#", suffix, u>>}
    <3>1. text.digits = F!Digits(v, F!DigitStep(suffix, 2)) /\ text.places = 2
      BY <1>2 DEF F!PortfolioTotal, F!Number, F!MoneyAmount, F!FormatUnit
    <3>2. CASE F!SupportsIntl(u)
      <4>1. text.parts = Append(<<u, "#">>, suffix) BY <1>2, <3>2 DEF F!PortfolioTotal, F!Number, F!MoneyAmount
      <4>2. Append(<<u, "#">>, suffix) = <<u, "#", suffix>> BY Appended
      <4>. QED BY <3>1, <4>1, <4>2
    <3>3. CASE ~F!SupportsIntl(u)
      <4>1. text.parts = <<"#", suffix, u>> BY <1>2, <3>3 DEF F!PortfolioTotal, F!Number, F!MoneyAmount, F!FormatUnit
      <4>. QED BY <3>1, <4>1
    <3>. QED BY <3>2, <3>3
  <2>2. F!Abs(v) \in Int BY DEF F!Abs
  <2>3. F!DigitStep(suffix, 2) \in Steps /\ F!Abs(v) >= F!DigitStep(suffix, 2)
    <3>1. F!DigitStep("K", 2) = 10 /\ F!DigitStep("M", 2) = 10000 /\ F!DigitStep("B", 2) = 10000000
      BY DEF F!DigitStep, F!Per, F!Power
    <3>. QED BY <1>2, <2>2, <3>1 DEF Steps, F!Suffix
  <2>4. u \notin {"#", "units", "K", "M", "B"} /\ suffix \in {"units", "K", "M", "B"} /\ suffix # "units" BY DEF F!Suffix
  <2>. HIDE DEF u, text, suffix
  <2>5. ReadsBack(text, v) BY <2>1, <2>3, <2>4, TextOK
  <2>. QED BY <2>5 DEF text
<1>. QED BY <1>1, <1>2

\* An amount can be read back from its text, whatever the amount and the unit.
THEOREM AmountsReadBackHolds ==
    ASSUME F!Drawn("amount") => F!AmountData(shown)
    PROVE  F!AmountsReadBack
<1>1. SUFFICES ASSUME F!Drawn("amount"),
                      NEW text \in {F!Currency(shown.value, shown.unit), F!CompactCurrency(shown.value, shown.unit),
                                    F!PortfolioTotal(shown.value, shown.unit)}
               PROVE  ReadsBack(text, shown.value)
  BY DEF F!AmountsReadBack, ReadsBack
<1>2. shown.value \in Int /\ F!NormalizeMoneyUnit(shown.unit) \notin {"#", "units", "K", "M", "B"} BY <1>1 DEF F!AmountData
<1>. QED BY <1>2, CurrencyOK, CompactOK, TotalOK

\* What is not there is neither a number nor a word.
NoWords == F!ValuesAssumption /\ F!WordAssumption

\* What is not there is no level and no strategy.
LEMMA NoWord == ASSUME NoWords PROVE Nothing \notin F!Tones /\ Nothing \notin {"high", "low"} /\ Nothing \notin F!Dictionary.strategyName
<1>1. {"severity", "strategyName"} \subseteq DOMAIN F!Dictionary BY DEF F!Dictionary
<1>2. F!Dictionary["severity"] = F!Tones \cup {"unknown"} BY DEF F!Dictionary
<1>3. {"high", "low"} \subseteq F!Tones BY DEF F!Tones
<1>4. \A family \in DOMAIN F!Dictionary : Nothing \notin F!Dictionary[family] BY DEF NoWords, F!WordAssumption
<1>5. Nothing \notin F!Dictionary["severity"] /\ Nothing \notin F!Dictionary["strategyName"] BY <1>1, <1>4
<1>. QED BY <1>2, <1>3, <1>5

\* What the health card says of one score and one volatility.
Consistent(s, status) ==
    /\ status = Nothing /\ s.score # Nothing /\ ~s.locked => s.gauge = F!ColorOf[s.status]
    /\ s.score = Nothing /\ status = Nothing => s.status = Nothing
    /\ (s.level = "high") = (s.bar = "danger")
    /\ s.level = "low" => s.bar = "success"
    /\ s.number = Nothing => s.filled = 0

\* The health card of any score and volatility is consistent.
LEMMA SpotlightOK ==
    ASSUME NoWords, NEW score \in Int \cup {Nothing}, NEW status, NEW volatility \in Int \cup {Nothing}, NEW locked \in BOOLEAN
    PROVE  Consistent(F!HealthSpotlight(score, status, volatility, locked), status)
<1>. DEFINE s == F!HealthSpotlight(score, status, volatility, locked)
<1>1. /\ s.score = score /\ s.locked = locked /\ s.status = F!Either(status, F!HealthStatusFromScore(score))
      /\ s.gauge = F!Needle([value |-> score, locked |-> locked]).color
      /\ s.level = F!VolatilityLevel(volatility) /\ s.bar = F!VolatilityColor(volatility) /\ s.number = volatility
      /\ s.filled = (F!Clamp(F!Either(volatility, 0), 0, 1000) + 5) \div 10
  BY DEF F!HealthSpotlight
<1>2. Nothing \notin Int /\ Garbage \notin Int /\ Nothing \notin {"high", "low"}
  BY NoWord DEF NoWords, F!ValuesAssumption
<1>. HIDE DEF s
<1>3. ASSUME status = Nothing, score # Nothing, ~locked PROVE s.gauge = F!ColorOf[s.status]
  <2>1. s.status = F!HealthStatusFromScore(score) BY <1>1, <1>3 DEF F!Either
  <2>2. s.gauge = F!ScoreColor(F!ClampScore(score)) BY <1>1, <1>3 DEF F!Needle
  <2>3. score \in Int /\ F!ClampScore(score) = F!Clamp(score, 0, 1000) BY <1>2, <1>3 DEF F!ClampScore
  <2>4. CASE score < 500
    <3>1. s.status = "critical" /\ s.gauge = "danger" BY <1>3, <2>1, <2>2, <2>3, <2>4 DEF F!HealthStatusFromScore, F!ScoreColor, F!Clamp
    <3>. QED BY <3>1 DEF F!ColorOf
  <2>5. CASE score >= 500 /\ score < 700
    <3>1. s.status = "warning" /\ s.gauge = "warning" BY <1>3, <2>1, <2>2, <2>3, <2>5 DEF F!HealthStatusFromScore, F!ScoreColor, F!Clamp
    <3>. QED BY <3>1 DEF F!ColorOf
  <2>6. CASE score >= 700 /\ score < 900
    <3>1. s.status = "stable" /\ s.gauge = "success" BY <1>3, <2>1, <2>2, <2>3, <2>6 DEF F!HealthStatusFromScore, F!ScoreColor, F!Clamp
    <3>. QED BY <3>1 DEF F!ColorOf
  <2>7. CASE score >= 900
    <3>1. s.status = "excellent" /\ s.gauge = "accent" BY <1>3, <2>1, <2>2, <2>3, <2>7 DEF F!HealthStatusFromScore, F!ScoreColor, F!Clamp
    <3>. QED BY <3>1 DEF F!ColorOf
  <2>. QED BY <2>3, <2>4, <2>5, <2>6, <2>7
<1>4. score = Nothing /\ status = Nothing => s.status = Nothing BY <1>1 DEF F!Either, F!HealthStatusFromScore
<1>5. (s.level = "high") = (s.bar = "danger") /\ (s.level = "low" => s.bar = "success")
  <2>1. CASE volatility = Nothing
    <3>1. s.level = Nothing /\ s.bar = "muted" BY <1>1, <2>1 DEF F!VolatilityLevel, F!VolatilityColor
    <3>2. s.level # "high" /\ s.level # "low" BY <1>2, <3>1
    <3>. QED BY <3>1, <3>2
  <2>2. CASE volatility # Nothing BY <1>1, <2>2 DEF F!VolatilityLevel, F!VolatilityColor
  <2>. QED BY <2>1, <2>2
<1>6. volatility = Nothing => s.filled = 0 BY <1>1 DEF F!Either, F!Clamp
<1>. QED BY <1>1, <1>3, <1>4, <1>5, <1>6 DEF Consistent, s

\* The health card of every screen is that of some score and some volatility.
THEOREM BadgeAgreesWithGaugeHolds ==
    ASSUME NoWords, F!Drawn("report") => F!ReportData(shown)
    PROVE  F!BadgeAgreesWithGauge
<1>. DEFINE Number == Int \cup {Nothing}
<1>1. SUFFICES ASSUME F!Drawn("report"), NEW s \in {page.health : page \in F!Screens} \cup {F!AssetsSpotlight(shown)}
               PROVE  Consistent(s, shown.status)
  BY DEF F!BadgeAgreesWithGauge, Consistent
<1>2. shown.header \in Number /\ shown.fixed \in Number /\ shown.headerVolatility \in Number
      /\ shown.fixedVolatility \in Number /\ shown.preview \in Number /\ shown.paid \in BOOLEAN
  BY <1>1 DEF F!ReportData
<1>3. \A v, w \in Number : F!Either(v, w) \in Number BY DEF F!Either
<1>4. s \in {F!ReportSpotlight(shown), F!PreviewSpotlight(shown), F!ArchivedSpotlight(shown), F!AssetsSpotlight(shown)}
  <2>1. F!ReportScreen(shown).state = "report" => F!ReportScreen(shown).health = F!ReportSpotlight(shown) BY DEF F!ReportScreen
  <2>2. F!PreviewScreen(shown).state = "report" => F!PreviewScreen(shown).health = F!PreviewSpotlight(shown) BY DEF F!PreviewScreen
  <2>3. F!ArchivedScreen(shown).state = "report" => F!ArchivedScreen(shown).health = F!ArchivedSpotlight(shown) BY DEF F!ArchivedScreen
  <2>. QED BY <1>1, <2>1, <2>2, <2>3 DEF F!Screens
<1>5. \E score \in Number, volatility \in Number, locked \in BOOLEAN : s = F!HealthSpotlight(score, shown.status, volatility, locked)
  <2>1. CASE s = F!ReportSpotlight(shown) BY <1>2, <1>3, <2>1 DEF F!ReportSpotlight
  <2>2. CASE s = F!PreviewSpotlight(shown) BY <1>2, <1>3, <2>2 DEF F!PreviewSpotlight
  <2>3. CASE s = F!ArchivedSpotlight(shown) BY <1>2, <1>3, <2>3 DEF F!ArchivedSpotlight
  <2>4. CASE s = F!AssetsSpotlight(shown)
    <3>. DEFINE other == IF shown.paid THEN Nothing ELSE shown.preview score == F!Either(shown.fixed, other)
    <3>1. other \in Number BY <1>2
    <3>2. score \in Number BY <1>2, <1>3, <3>1
    <3>3. s = F!HealthSpotlight(score, shown.status, shown.fixedVolatility, ~shown.paid /\ score = Nothing)
      BY <2>4 DEF F!AssetsSpotlight
    <3>. HIDE DEF score
    <3>4. (~shown.paid /\ score = Nothing) \in BOOLEAN OBVIOUS
    <3>. QED BY <1>2, <3>2, <3>3, <3>4
  <2>. QED BY <1>4, <2>1, <2>2, <2>3, <2>4
<1>. QED BY <1>5, SpotlightOK

\* One report reads alike on its three screens, and on the tab when the portfolio has the numbers.
THEOREM TiersAgreeHolds == F!TiersAgree
<1>. DEFINE Agree(v, w) == v = w \/ Nothing \in {v, w}
            total == F!NetWorth(shown)
            card == F!HealthSpotlight(F!Either(shown.header, shown.fixed), shown.status, shown.headerVolatility, FALSE)
<1>1. SUFFICES ASSUME Agree(shown.header, shown.fixed), shown.headerVolatility # Nothing,
                      Agree(shown.headerVolatility, shown.fixedVolatility), NEW s \in F!Screens, NEW r \in F!Screens
               PROVE  /\ s.health = r.health /\ s.netWorth = r.netWorth
                      /\ shown.fixed # Nothing /\ shown.fixedVolatility # Nothing =>
                           s.health = F!AssetsScreen(shown).health /\ s.netWorth = F!AssetsScreen(shown).netWorth
  BY DEF F!TiersAgree
<1>2. F!ReportSpotlight(shown) = card BY <1>1 DEF F!ReportSpotlight, F!Either
<1>3. F!PreviewSpotlight(shown) = card
  <2>1. F!Either(shown.fixed, shown.header) = F!Either(shown.header, shown.fixed) BY <1>1 DEF F!Either
  <2>2. F!Either(shown.fixedVolatility, shown.headerVolatility) = shown.headerVolatility BY <1>1 DEF F!Either
  <2>. QED BY <2>1, <2>2 DEF F!PreviewSpotlight
<1>4. F!ArchivedSpotlight(shown) = card BY DEF F!ArchivedSpotlight
<1>5. ASSUME shown.fixed # Nothing, shown.fixedVolatility # Nothing PROVE F!AssetsSpotlight(shown) = card
  <2>1. F!Either(shown.header, shown.fixed) = shown.fixed /\ shown.headerVolatility = shown.fixedVolatility
    BY <1>1, <1>5 DEF F!Either
  <2>2. F!Either(shown.fixed, IF shown.paid THEN Nothing ELSE shown.preview) = shown.fixed BY <1>5 DEF F!Either
  <2>. QED BY <1>5, <2>1, <2>2 DEF F!AssetsSpotlight
<1>. HIDE DEF card
<1>6. ASSUME NEW page \in F!Screens 
      PROVE  page.health = card /\ page.netWorth = total /\ shown.query \notin {"loading", "error"}
  <2>1. F!ReportScreen(shown).state = "report" =>
          F!ReportScreen(shown).health = card /\ F!ReportScreen(shown).netWorth = total /\ shown.query \notin {"loading", "error"}
    BY <1>2 DEF F!ReportScreen
  <2>2. F!PreviewScreen(shown).state = "report" =>
          F!PreviewScreen(shown).health = card /\ F!PreviewScreen(shown).netWorth = total /\ shown.query \notin {"loading", "error"}
    BY <1>3 DEF F!PreviewScreen
  <2>3. F!ArchivedScreen(shown).state = "report" =>
          F!ArchivedScreen(shown).health = card /\ F!ArchivedScreen(shown).netWorth = total /\ shown.query \notin {"loading", "error"}
    BY <1>4 DEF F!ArchivedScreen
  <2>. QED BY <2>1, <2>2, <2>3 DEF F!Screens
<1>7. ASSUME shown.query \notin {"loading", "error"}
      PROVE  F!AssetsScreen(shown).health = F!AssetsSpotlight(shown) /\ F!AssetsScreen(shown).netWorth = total
  BY <1>7 DEF F!AssetsScreen
<1>. QED BY <1>1, <1>5, <1>6, <1>7

\* The report a tier leads to is the one its warning looks for: it has one active report.
THEOREM DotAgreesWithDiagnoseHolds ==
    ASSUME F!Drawn("reports") => F!RowData(shown)
    PROVE  F!DotAgreesWithDiagnose
<1>. DEFINE tier == F!Tier(shown)
            Active(t) == {r \in shown.reports : r.is_active /\ r.tier = t}
            Status(t) == {r.status : r \in Active(t)}
            ready == \E r \in shown.reports : r.tier = tier /\ r.status = "ready"
            opened == \E r \in shown.reports : r.is_active /\ r.tier = tier /\ r.status = "ready"
<1>1. SUFFICES ASSUME F!Drawn("reports")
               PROVE  F!DiagnoseDot(shown) = (~(~F!Diagnose(shown).posts /\ opened) /\ ready)
  BY DEF F!DotAgreesWithDiagnose
<1>2. /\ shown.paid \in BOOLEAN
      /\ \A r, s \in shown.reports : r.is_active /\ s.is_active /\ r.tier = s.tier => r = s
  BY <1>1 DEF F!RowData
<1>3. ASSUME opened PROVE Status(tier) = {"ready"}
  <2>1. PICK r \in shown.reports : r.is_active /\ r.tier = tier /\ r.status = "ready" BY <1>3
  <2>2. \A s \in Active(tier) : s = r BY <1>2, <2>1
  <2>3. r \in Active(tier) BY <2>1
  <2>. HIDE DEF Active
  <2>. QED BY <2>1, <2>2, <2>3
<1>4. ASSUME opened PROVE ~F!Diagnose(shown).posts
  <2>. HIDE DEF opened
  <2>1. Status(tier) = {"ready"} BY <1>3, <1>4
  <2>2. CASE shown.paid
    <3>1. Status("paid") = {"ready"} BY <2>1, <2>2 DEF F!Tier
    <3>. QED BY <2>2, <3>1 DEF F!Diagnose
  <2>3. CASE ~shown.paid
    <3>1. Status("preview") = {"ready"} BY <2>1, <2>3 DEF F!Tier
    <3>2. {"ready"} \cap {"ready", "processing"} # {} OBVIOUS
    <3>3. F!Diagnose(shown).posts = (Status("preview") \cap {"ready", "processing"} = {}) BY <2>3 DEF F!Diagnose
    <3>. HIDE DEF Status
    <3>. QED BY <3>1, <3>2, <3>3
  <2>. QED BY <1>2, <2>2, <2>3
<1>5. F!DiagnoseDot(shown) = (ready /\ ~opened) BY DEF F!DiagnoseDot
<1>. HIDE DEF opened, ready
<1>. QED BY <1>4, <1>5

\* A plan without a priority has the severity of a risk it is linked to, the same in the archive.
THEOREM BorrowedBadgesHolds ==
    ASSUME F!Drawn("report") => F!ReportData(shown)
    PROVE  F!BorrowedBadges
<1>. DEFINE risks == F!RisksShown(shown)
            Linked(plan) == {j \in DOMAIN risks : risks[j].risk_id = plan.linked_risk_id}
            severities(plan) == {risks[j].severity : j \in Linked(plan)}
            badges == F!ReportScreen(shown).plans
            archived == F!ArchivedScreen(shown).plans
<1>1. SUFFICES ASSUME F!Drawn("report"), F!ReportScreen(shown).state = "report", NEW i \in DOMAIN shown.plans
               PROVE  /\ shown.plans[i].priority # Nothing => badges[i].badge = shown.plans[i].priority
                      /\ shown.plans[i].priority = Nothing /\ severities(shown.plans[i]) # {} =>
                           badges[i].badge \in severities(shown.plans[i])
                      /\ badges[i].badge = Nothing => severities(shown.plans[i]) \subseteq {Nothing}
                      /\ archived[i].badge = badges[i].badge
  BY DEF F!BorrowedBadges
<1>2. /\ DOMAIN risks = 1..Len(risks) /\ Len(risks) \in Nat
      /\ \A j, k \in DOMAIN risks : risks[j].risk_id = risks[k].risk_id => risks[j].severity = risks[k].severity
  BY <1>1 DEF F!ReportData
<1>3. badges[i].badge = F!PlanBadge(shown.plans[i], shown) /\ archived[i].badge = F!PlanBadge(shown.plans[i], shown)
  <2>1. shown.query \notin {"error", "loading"} /\ shown.isPaidReport BY <1>1 DEF F!ReportScreen
  <2>2. badges = F!PlanCards(shown) /\ archived = F!ArchivedPlans(shown) BY <2>1 DEF F!ReportScreen, F!ArchivedScreen
  <2>3. F!PlanCards(shown)[i].badge = F!PlanBadge(shown.plans[i], shown) BY DEF F!PlanCards
  <2>4. F!ArchivedPlans(shown)[i].badge = F!PlanBadge(shown.plans[i], shown) BY DEF F!ArchivedPlans
  <2>. QED BY <2>2, <2>3, <2>4
<1>4. ASSUME NEW plan
      PROVE  /\ plan.priority # Nothing => F!PlanBadge(plan, shown) = plan.priority
             /\ plan.priority = Nothing /\ severities(plan) # {} => F!PlanBadge(plan, shown) \in severities(plan)
             /\ F!PlanBadge(plan, shown) = Nothing => severities(plan) \subseteq {Nothing}
  <2>1. F!LinkedRisk(plan, shown) = Linked(plan) BY DEF F!LinkedRisk
  <2>2. CASE plan.priority # Nothing
    <3>1. F!PlanBadge(plan, shown) = plan.priority BY <2>2 DEF F!PlanBadge
    <3>. QED BY <2>2, <3>1
  <2>3. CASE plan.priority = Nothing /\ Linked(plan) = {}
    <3>1. severities(plan) = {} BY <2>3
    <3>. HIDE DEF severities
    <3>. QED BY <2>3, <3>1
  <2>4. CASE plan.priority = Nothing /\ Linked(plan) # {}
    <3>1. F!PlanBadge(plan, shown) = risks[F!Least(Linked(plan))].severity BY <2>1, <2>4 DEF F!PlanBadge
    <3>2. F!Least(Linked(plan)) \in Linked(plan)
      <4>1. Linked(plan) \subseteq Nat BY <1>2
      <4>2. \E n \in Linked(plan) : \A k \in Linked(plan) : n <= k BY <2>4, <4>1, LeastOf
      <4>. HIDE DEF Linked
      <4>. QED BY <4>2 DEF F!Least
    <3>. DEFINE first == F!Least(Linked(plan))
    <3>. HIDE DEF first
    <3>3. \A j \in Linked(plan) : risks[j].severity = risks[first].severity BY <1>2, <3>2 DEF first
    <3>4. first \in Linked(plan) BY <3>2 DEF first
    <3>5. F!PlanBadge(plan, shown) = risks[first].severity BY <3>1 DEF first
    <3>. HIDE DEF Linked, risks
    <3>. QED BY <2>4, <3>3, <3>4, <3>5
  <2>. QED BY <2>2, <2>3, <2>4
<1>. HIDE DEF badges, archived, severities
<1>. QED BY <1>3, <1>4

\* The brief is empty only after an answer without one, of a session that is still open.
THEOREM NoFalseEmptyHolds ==
    ASSUME F!Drawn("brief") => F!BriefData(shown)
    PROVE  F!NoFalseEmpty
<1>1. SUFFICES ASSUME F!Drawn("brief"), F!BriefScreen(shown) = "empty", shown.hasAssetKey
               PROVE  /\ shown.hasAccessToken /\ ~shown.authLoading
                      /\ shown.isFetched /\ ~shown.isFetching /\ shown.resp \in {404, 500}
  BY DEF F!NoFalseEmpty
<1>2. ~F!ShouldShowAssetBriefLoading(shown) /\ shown.resp # 200
  BY <1>1 DEF F!BriefScreen, F!BriefQuery
<1>3. ~shown.authLoading /\ shown.hasAccessToken /\ ~shown.isFetching /\ ~shown.isPending /\ shown.isFetched
  BY <1>1, <1>2 DEF F!ShouldShowAssetBriefLoading
<1>4. shown.resp \in {Nothing, 200, 401, 404, 500} /\ shown.resp # Nothing /\ shown.resp # 401
  BY <1>1, <1>3 DEF F!BriefData
<1>. QED BY <1>1, <1>2, <1>3, <1>4

\* The chart of a brief draws the prices its cards quote.
THEOREM LinesAreQuotedHolds == F!LinesAreQuoted
<1>. DEFINE Text(v) == F!Currency(v, shown.unit)
<1>1. SUFFICES ASSUME F!BriefChart(shown) # {}
               PROVE  {Text(v) : v \in F!BriefChart(shown)} =
                        {F!PriceCard(shown), F!InvalidationCard(shown)} \cup {F!EntryCard(shown)[i] : i \in 1..2}
  BY DEF F!LinesAreQuoted
<1>2. F!BriefChart(shown) = {shown.current_price, shown.entry_zone.low, shown.entry_zone.high, shown.invalidation}
  BY <1>1 DEF F!BriefChart, F!BriefLines
<1>3. F!PriceCard(shown) = Text(shown.current_price) /\ F!InvalidationCard(shown) = Text(shown.invalidation)
  BY DEF F!PriceCard, F!InvalidationCard
<1>4. {F!EntryCard(shown)[i] : i \in 1..2} = {Text(shown.entry_zone.low), Text(shown.entry_zone.high)}
  <2>1. F!EntryCard(shown)[1] = Text(shown.entry_zone.low) /\ F!EntryCard(shown)[2] = Text(shown.entry_zone.high)
    BY DEF F!EntryCard
  <2>2. 1..2 = {1, 2} OBVIOUS
  <2>. HIDE DEF Text
  <2>. QED BY <2>1, <2>2
<1>. HIDE DEF Text
<1>. QED BY <1>2, <1>3, <1>4

\* A language that was chosen is one of the five, and each of them is read back as itself.
THEOREM LocaleSurvivesHolds ==
    ASSUME F!Drawn("locale") => shown.stored \in F!Locales \cup {Nothing}
    PROVE  F!LocaleSurvives
<1>1. ASSUME NEW locale \in F!Locales PROVE F!ResolveLocale(F!Tag(locale)) = locale
  <2>1. CASE locale = "zh-CN"
    <3>1. F!Tag(locale) = [first |-> "zh", marks |-> {"cn"}] BY <2>1 DEF F!Tag
    <3>2. {"cn"} \cap {"hant", "tw", "hk"} = {} OBVIOUS
    <3>. QED BY <2>1, <3>1, <3>2 DEF F!ResolveLocale
  <2>2. CASE locale = "zh-TW"
    <3>1. F!Tag(locale) = [first |-> "zh", marks |-> {"tw"}] BY <2>2 DEF F!Tag
    <3>2. {"tw"} \cap {"hant", "tw", "hk"} # {} OBVIOUS
    <3>. QED BY <2>2, <3>1, <3>2 DEF F!ResolveLocale
  <2>3. CASE locale \in {"en", "ja", "ko"}
    <3>1. F!Tag(locale).first = locale BY <2>3 DEF F!Tag
    <3>. QED BY <2>3, <3>1 DEF F!ResolveLocale
  <2>. QED BY <2>1, <2>2, <2>3 DEF F!Locales
<1>. QED BY <1>1 DEF F!LocaleSurvives, F!Hydrate

\* The text of a word that the dictionary has.
TextOf(family, w, d) == [text |-> <<family, w>>, language |-> IF d.missing THEN "en" ELSE d.language]

\* A look-up is a key exactly when the word is missing.
LEMMA LookUp ==
    ASSUME NEW family, NEW w, NEW d
    PROVE  /\ w \in F!Dictionary[family] => F!Translate(family, w, d) = TextOf(family, w, d) /\ ~F!Untranslated(F!Translate(family, w, d))
           /\ w \notin F!Dictionary[family] => F!Untranslated(F!Translate(family, w, d))
<1>1. "key" \notin DOMAIN TextOf(family, w, d) BY DEF TextOf
<1>2. "key" \in DOMAIN [key |-> <<family, w>>] OBVIOUS
<1>3. F!Translate(family, w, d) = IF w \notin F!Dictionary[family] THEN [key |-> <<family, w>>] ELSE TextOf(family, w, d)
  BY DEF F!Translate, TextOf
<1>. QED BY <1>1, <1>2, <1>3 DEF F!Untranslated

\* A label that falls back on the word of the server is no key.
LEMMA ResolveOK ==
    ASSUME NEW family, NEW w, NEW d
    PROVE  /\ ~F!Untranslated(F!ResolveText(family, w, d))
           /\ w \in F!Dictionary[family] => F!ResolveText(family, w, d) = TextOf(family, w, d)
<1>1. F!ResolveText(family, w, d) = IF F!Untranslated(F!Translate(family, w, d)) THEN [word |-> w] ELSE F!Translate(family, w, d)
  BY DEF F!ResolveText
<1>2. ~F!Untranslated([word |-> w]) BY DEF F!Untranslated
<1>. QED BY <1>1, <1>2, LookUp

\* A word the dictionary has is its own label, another one the label of one it has.
LEMMA SwitchedOK ==
    ASSUME NEW family, NEW w, NEW other \in F!Dictionary[family], NEW d
    PROVE  /\ ~F!Untranslated(F!Switched(family, w, other, d))
           /\ w \in F!Dictionary[family] => F!Switched(family, w, other, d) = TextOf(family, w, d)
BY LookUp DEF F!Switched

LEMMA DriverOK ==
    ASSUME NEW w, NEW d
    PROVE  /\ ~F!Untranslated(F!RegimeDriver(w, d))
           /\ w \in F!Dictionary["driverValue"] => F!RegimeDriver(w, d) = TextOf("driverValue", w, d)
<1>1. ~F!Untranslated([word |-> w]) BY DEF F!Untranslated
<1>2. F!Dictionary.driverValue = F!Dictionary["driverValue"] OBVIOUS
<1>. QED BY <1>1, <1>2, LookUp DEF F!RegimeDriver

LEMMA LabelOK ==
    ASSUME NoWords, NEW family, NEW w, NEW d
    PROVE  /\ ~F!Untranslated(F!Label(family, w, d))
           /\ w \in F!Dictionary[family] => F!Label(family, w, d) = TextOf(family, w, d)
<1>. DEFINE Good(label) == ~F!Untranslated(label) /\ (w \in F!Dictionary[family] => label = TextOf(family, w, d))
<1>1. CASE family = "strategyName"
  <2>1. F!Label(family, w, d) = F!StrategyDisplayName(w, d) BY <1>1 DEF F!Label
  <2>2. "unknown" \in F!Dictionary["strategyName"] BY DEF F!Dictionary
  <2>3. ~F!Untranslated(F!Translate("strategyName", "unknown", d)) BY <2>2, LookUp
  <2>4. Nothing \notin F!Dictionary["strategyName"] BY NoWord
  <2>. QED BY <1>1, <2>1, <2>3, <2>4, LookUp DEF F!StrategyDisplayName
<1>2. CASE family = "severity"
  <2>1. F!Label(family, w, d) = F!ResolveText("severity", F!Either(w, "unknown"), d) BY <1>2 DEF F!Label, F!SeverityLabel
  <2>2. w \in F!Dictionary["severity"] => F!Either(w, "unknown") = w
    <3>1. "severity" \in DOMAIN F!Dictionary BY DEF F!Dictionary
    <3>2. Nothing \notin F!Dictionary["severity"] BY <3>1 DEF NoWords, F!WordAssumption
    <3>. QED BY <3>2 DEF F!Either
  <2>. QED BY <1>2, <2>1, <2>2, ResolveOK
<1>3. CASE family = "riskType" BY <1>3, ResolveOK DEF F!Label, F!RiskTypeLabel
<1>4. CASE family = "healthStatus"
  <2>1. "unknown" \in F!Dictionary["healthStatus"] BY DEF F!Dictionary
  <2>. QED BY <1>4, <2>1, SwitchedOK DEF F!Label, F!HealthStatusLabel
<1>5. CASE family = "allocation"
  <2>1. "other" \in F!Dictionary["allocation"] BY DEF F!Dictionary
  <2>. QED BY <1>5, <2>1, SwitchedOK DEF F!Label, F!AllocationLabel
<1>6. CASE family = "tier"
  <2>1. "unknown" \in F!Dictionary["tier"] BY DEF F!Dictionary
  <2>. QED BY <1>6, <2>1, SwitchedOK DEF F!Label, F!TierLabel
<1>7. CASE family = "status"
  <2>1. "unknown" \in F!Dictionary["status"] /\ "queued" \notin F!Dictionary["status"] BY DEF F!Dictionary
  <2>2. F!Label(family, w, d) = F!Switched("status", IF w = "queued" THEN "processing" ELSE w, "unknown", d)
    BY <1>7 DEF F!Label, F!StatusLabel
  <2>3. ~F!Untranslated(F!Label(family, w, d)) BY <2>1, <2>2, SwitchedOK
  <2>4. ASSUME w \in F!Dictionary["status"] PROVE F!Label(family, w, d) = TextOf("status", w, d)
    <3>1. w # "queued" BY <2>1, <2>4
    <3>. QED BY <2>1, <2>2, <2>4, <3>1, SwitchedOK
  <2>. QED BY <1>7, <2>3, <2>4
<1>8. CASE family = "driverValue" BY <1>8, DriverOK DEF F!Label
<1>9. CASE family \notin {"strategyName", "severity", "riskType", "healthStatus", "allocation", "tier", "status", "driverValue"}
  <2>1. F!Label(family, w, d) = F!ResolveText(family, w, d) BY <1>9 DEF F!Label
  <2>. QED BY <2>1, ResolveOK
<1>. QED BY <1>1, <1>2, <1>3, <1>4, <1>5, <1>6, <1>7, <1>8, <1>9

LEMMA BriefSeverityOK == ASSUME NEW w, NEW d PROVE ~F!Untranslated(F!BriefSeverityLabel(w, d))
<1>1. "unknown" \in F!Dictionary["severity"] BY DEF F!Dictionary
<1>. QED BY <1>1, LookUp, ResolveOK DEF F!BriefSeverityLabel

\* No screen shows a key of the dictionary, whatever word the server sends.
THEOREM LabelsAreWordsHolds ==
    ASSUME NoWords
    PROVE  F!LabelsAreWords
<1>1. LET label == F!Label(shown.family, shown.w, shown)
      IN /\ ~F!Untranslated(label)
         /\ shown.w \in F!Dictionary[shown.family] =>
               label = [text |-> <<shown.family, shown.w>>, language |-> IF shown.missing THEN "en" ELSE shown.language]
  BY LabelOK DEF TextOf
<1>2. ASSUME NEW text \in F!BriefLabels(shown) \cup {F!RelatedPlans(shown)[i].priority : i \in DOMAIN shown.plans}
                              \cup {F!RelatedInsights(shown)[i].name : i \in DOMAIN shown.insights}
      PROVE  ~F!Untranslated(text)
  <2>1. CASE text \in F!BriefLabels(shown)
    <3>1. \E family, w : text = F!ResolveText(family, w, shown) BY <2>1 DEF F!BriefLabels, F!TechnicalCards
    <3>. QED BY <3>1, ResolveOK
  <2>2. ASSUME NEW i \in DOMAIN shown.plans, text = F!RelatedPlans(shown)[i].priority PROVE ~F!Untranslated(text)
    <3>1. text = F!BriefSeverityLabel(shown.plans[i].priority, shown) BY <2>2 DEF F!RelatedPlans
    <3>. QED BY <3>1, BriefSeverityOK
  <2>3. ASSUME NEW i \in DOMAIN shown.insights, text = F!RelatedInsights(shown)[i].name PROVE ~F!Untranslated(text)
    <3>1. text = F!ResolveText("type", shown.insights[i].type, shown) BY <2>3 DEF F!RelatedInsights
    <3>. QED BY <3>1, ResolveOK
  <2>. QED BY <2>1, <2>2, <2>3
<1>3. ASSUME F!RegimeScreen(shown).state = "regime", NEW text \in F!RegimeScreen(shown).labels
      PROVE  ~F!Untranslated(text)
  <2>1. \/ \E family, w : text = F!ResolveText(family, w, shown)
        \/ \E w : text = F!RegimeDriver(w, shown)
    BY <1>3 DEF F!RegimeScreen
  <2>. QED BY <2>1, ResolveOK, DriverOK
<1>. QED BY <1>1, <1>2, <1>3 DEF F!LabelsAreWords

(******************************* The insights ******************************)

Insight == INSTANCE InsightScreens

\* A label that falls back on the word of the server is no key of the dictionary.
LEMMA WordShown ==
    ASSUME NEW family, NEW w, NEW d
    PROVE  ~Insight!Untranslated(Insight!ResolveText(family, w, d))
<1>1. Insight!ResolveText(family, w, d) = IF Insight!Untranslated(Insight!Translate(family, w, d)) THEN [word |-> w] ELSE Insight!Translate(family, w, d)
  BY DEF Insight!ResolveText
<1>2. ~Insight!Untranslated([word |-> w]) BY DEF Insight!Untranslated
<1>. QED BY <1>1, <1>2

LEMMA WordFound ==
    ASSUME NEW family, NEW w \in Insight!Dictionary[family], NEW d
    PROVE  ~Insight!Untranslated(Insight!Translate(family, w, d))
<1>1. Insight!Translate(family, w, d) = [text |-> <<family, w>>, language |-> IF d.missing THEN "en" ELSE d.language] BY DEF Insight!Translate
<1>2. "key" \notin DOMAIN [text |-> <<family, w>>, language |-> IF d.missing THEN "en" ELSE d.language] OBVIOUS
<1>. QED BY <1>1, <1>2 DEF Insight!Untranslated

LEMMA SeverityShown == ASSUME NEW w, NEW d PROVE ~Insight!Untranslated(Insight!BriefSeverityLabel(w, d))
<1>1. "unknown" \in Insight!Dictionary["severity"] BY DEF Insight!Dictionary
<1>. QED BY <1>1, WordFound, WordShown DEF Insight!BriefSeverityLabel

LEMMA DriverShown == ASSUME NEW w, NEW d PROVE ~Insight!Untranslated(Insight!RegimeDriver(w, d))
<1>1. ~Insight!Untranslated([word |-> w]) BY DEF Insight!Untranslated
<1>2. Insight!Dictionary.driverValue = Insight!Dictionary["driverValue"] OBVIOUS
<1>. QED BY <1>1, <1>2, WordFound DEF Insight!RegimeDriver

\* What one card of the list says and does.
LeadsAsLabelled(card, item) ==
    /\ (card.button = "executed") = (card.opens = "quick-update")
    /\ card.opens = "asset-brief" => item.asset_key # Nothing
    /\ (card.opens = "quick-update") = (Insight!OpenRelated(item)[1] = "quick-update")
    /\ (card.opens = "quick-update") = ~Insight!MarketAlpha(item)
    /\ card.rail = (IF card.tone = "neutral" THEN "border" ELSE Insight!ToneColor(card.tone))
    /\ ~Insight!Untranslated(card.label) /\ ~Insight!Untranslated(card.severity)

LEMMA CardOK == ASSUME NEW item, NEW d PROVE LeadsAsLabelled(Insight!QueueCard(item, d), item)
<1>. DEFINE card == Insight!QueueCard(item, d) tone == Insight!ToneForSeverity(Insight!Either(item.severity, ""))
<1>1. /\ card.label = Insight!ResolveText("type", item.type, d) /\ card.severity = Insight!BriefSeverityLabel(item.severity, d)
      /\ card.tone = tone /\ card.rail = Insight!SeverityRailColor(item.severity)
      /\ card.button = (IF item.type = "market_alpha" THEN "view" ELSE "executed")
      /\ card.opens = Insight!OpenQueueItem(item)
  BY DEF Insight!QueueCard
<1>2. Insight!SeverityRailColor(item.severity) = IF tone = "neutral" THEN "border" ELSE Insight!ToneColor(tone)
  <2>1. tone \in {"critical", "high", "medium", "low", "neutral"} BY DEF Insight!ToneForSeverity, Insight!Tones
  <2>2. Insight!SeverityRailColor(item.severity) =
          CASE tone = "critical" -> "danger" [] tone = "high" -> "warning" [] tone = "medium" -> "accent" [] tone = "low" -> "success"
            [] OTHER -> "border"
    BY DEF Insight!SeverityRailColor
  <2>. HIDE DEF tone
  <2>. QED BY <2>1, <2>2 DEF Insight!ToneColor
<1>3. ~Insight!Untranslated(card.label) /\ ~Insight!Untranslated(card.severity) BY <1>1, WordShown, SeverityShown
<1>4. Insight!OpenRelated(item)[1] = IF item.type = "market_alpha" THEN "insight-detail" ELSE "quick-update" BY DEF Insight!OpenRelated
<1>. HIDE DEF card, tone
<1>5. LeadsAsLabelled(card, item) BY <1>1, <1>2, <1>3, <1>4 DEF LeadsAsLabelled, Insight!OpenQueueItem, Insight!MarketAlpha
<1>. QED BY <1>5 DEF card

\* A card of the tab leads where its button says, whatever the server lists and whatever is searched for.
THEOREM CardLeadsAsLabelledHolds == Insight!CardLeadsAsLabelled
<1>. DEFINE tab == Insight!InsightsTab(shown)
            found == Insight!Found(Insight!Either(Insight!InsightsQuery(shown), <<>>), shown.search)
<1>1. SUFFICES ASSUME tab.state = "open"
               PROVE  /\ \A i \in DOMAIN tab.queue.cards : LeadsAsLabelled(tab.queue.cards[i], found[i])
                      /\ tab.regime.state = "regime" => \A text \in tab.regime.labels : ~Insight!Untranslated(text)
                      /\ \A i \in DOMAIN tab.featured :
                            ~Insight!Untranslated(tab.featured[i].bias) /\ ~Insight!Untranslated(tab.featured[i].signal)
  BY DEF Insight!CardLeadsAsLabelled, LeadsAsLabelled
<1>2. tab.queue = Insight!Queue(shown) /\ tab.regime = Insight!RegimeCard(shown) /\ tab.featured = Insight!FeaturedAssets(shown)
  BY <1>1 DEF Insight!InsightsTab
<1>3. ASSUME NEW i \in DOMAIN Insight!Queue(shown).cards PROVE LeadsAsLabelled(Insight!Queue(shown).cards[i], found[i])
  <2>1. CASE shown.resp = Nothing
    <3>1. Insight!Queue(shown).cards = <<>> BY <2>1 DEF Insight!Queue
    <3>. QED BY <1>3, <3>1
  <2>2. CASE shown.resp # Nothing
    <3>1. Insight!Queue(shown).cards = [j \in DOMAIN found |-> Insight!QueueCard(found[j], shown)] BY <2>2 DEF Insight!Queue
    <3>2. Insight!Queue(shown).cards[i] = Insight!QueueCard(found[i], shown) BY <1>3, <3>1
    <3>. HIDE DEF found
    <3>. QED BY <3>2, CardOK
  <2>. QED BY <2>1, <2>2
<1>4. ASSUME Insight!RegimeCard(shown).state = "regime", NEW text \in Insight!RegimeCard(shown).labels PROVE ~Insight!Untranslated(text)
  <2>1. \/ \E family, w : text = Insight!ResolveText(family, w, shown)
        \/ \E w : text = Insight!RegimeDriver(w, shown)
    BY <1>4 DEF Insight!RegimeCard
  <2>. QED BY <2>1, WordShown, DriverShown
<1>5. ASSUME NEW i \in DOMAIN Insight!FeaturedAssets(shown)
      PROVE  ~Insight!Untranslated(Insight!FeaturedAssets(shown)[i].bias) /\ ~Insight!Untranslated(Insight!FeaturedAssets(shown)[i].signal)
  <2>1. \E bias, signal : /\ Insight!FeaturedAssets(shown)[i].bias = Insight!ResolveText("actionBias", bias, shown)
                          /\ Insight!FeaturedAssets(shown)[i].signal = Insight!ResolveText("summarySignal", signal, shown)
    BY <1>5 DEF Insight!FeaturedAssets
  <2>. QED BY <2>1, WordShown
<1>. QED BY <1>2, <1>3, <1>4, <1>5

\* A parameter is read as a number, or not at all.
LEMMA ParameterRead ==
    ASSUME NEW v \in Insight!Parameter
    PROVE  /\ Insight!Numeric(v) \in Int \cup {Nothing} /\ Insight!Strict(v) \in Int \cup {Nothing}
           /\ Insight!Strict(v) # Nothing => Insight!Numeric(v) = Insight!Strict(v)
BY DEF Insight!Parameter, Insight!Numeric, Insight!Strict

\* Lines for the numbers among two parameters.
LinesFor(lines, a, b) ==
    /\ a # Nothing => \E i \in DOMAIN lines : lines[i].value = a
    /\ b # Nothing => \E i \in DOMAIN lines : lines[i].value = b
    /\ Len(lines) = 2 => lines[1].value = a /\ lines[2].value = b /\ Nothing \notin {a, b}

LEMMA Joined ==
    ASSUME NEW x, NEW y
    PROVE  <<>> \o <<>> = <<>> /\ <<x>> \o <<>> = <<x>> /\ <<>> \o <<y>> = <<y>> /\ <<x>> \o <<y>> = <<x, y>>
<1>. DEFINE T == {x, y}
<1>1. <<>> \in Seq(T) /\ <<x>> \in Seq(T) /\ <<y>> \in Seq(T) /\ <<x, y>> \in Seq(T) /\ y \in T OBVIOUS
<1>2. <<>> \o <<>> = <<>> /\ <<x>> \o <<>> = <<x>> /\ <<>> \o <<y>> = <<y>> BY <1>1, ConcatEmptySeq
<1>3. PICK s : s = <<x>> \o <<y>> OBVIOUS
<1>4. Len(<<x>>) = 1 /\ Len(<<y>>) = 1 /\ <<x>>[1] = x /\ <<y>>[1] = y OBVIOUS
<1>5. s \in Seq(T) /\ Len(s) = 2 /\ s[1] = x /\ s[2] = y
  <2>. HIDE DEF T
  <2>. QED BY <1>1, <1>3, <1>4, ConcatProperties
<1>6. s = <<x, y>> BY <1>5
<1>. QED BY <1>2, <1>3, <1>6

LEMMA LinesOK ==
    ASSUME NEW a \in Int \cup {Nothing}, NEW b \in Int \cup {Nothing}, NEW c, NEW e
    PROVE  LinesFor(Insight!TraceLine(a, c) \o Insight!TraceLine(b, e), a, b)
<1>. DEFINE first == [value |-> a, color |-> c] second == [value |-> b, color |-> e]
<1>1. Insight!TraceLine(a, c) = (IF a = Nothing THEN <<>> ELSE <<first>>) /\ Insight!TraceLine(b, e) = (IF b = Nothing THEN <<>> ELSE <<second>>)
  BY DEF Insight!TraceLine
<1>2. first.value = a /\ second.value = b OBVIOUS
<1>. HIDE DEF first, second
<1>3. PICK lines : lines = Insight!TraceLine(a, c) \o Insight!TraceLine(b, e) OBVIOUS
<1>4. CASE a = Nothing /\ b = Nothing
  <2>1. lines = <<>> BY <1>1, <1>3, <1>4, Joined
  <2>. QED BY <1>3, <1>4, <2>1 DEF LinesFor
<1>5. CASE a # Nothing /\ b = Nothing
  <2>1. lines = <<first>> BY <1>1, <1>3, <1>5, Joined
  <2>2. 1 \in DOMAIN lines /\ lines[1].value = a /\ Len(lines) = 1 BY <1>2, <2>1
  <2>. QED BY <1>3, <1>5, <2>2 DEF LinesFor
<1>6. CASE a = Nothing /\ b # Nothing
  <2>1. lines = <<second>> BY <1>1, <1>3, <1>6, Joined
  <2>2. 1 \in DOMAIN lines /\ lines[1].value = b /\ Len(lines) = 1 BY <1>2, <2>1
  <2>. QED BY <1>3, <1>6, <2>2 DEF LinesFor
<1>7. CASE a # Nothing /\ b # Nothing
  <2>1. lines = <<first, second>> BY <1>1, <1>3, <1>7, Joined
  <2>2. 1 \in DOMAIN lines /\ 2 \in DOMAIN lines /\ lines[1].value = a /\ lines[2].value = b BY <1>2, <2>1
  <2>. QED BY <1>3, <1>7, <2>2 DEF LinesFor
<1>. QED BY <1>4, <1>5, <1>6, <1>7

\* The one item of a trigger, in its colour.
LEMMA ItemOK ==
    ASSUME ~Insight!MarketAlpha(shown), shown.plan # Nothing, NEW id, NEW n, NEW value,
           Insight!TriggerItem(shown.threshold, shown.plan) = Insight!Indicator(id, n, value)
    PROVE  Len(Insight!IndicatorItems(shown)) = 1 /\ Insight!IndicatorItems(shown)[1].value = value
<1>. DEFINE item == Insight!TriggerItem(shown.threshold, shown.plan)
            colored == [i \in DOMAIN item |-> [id |-> item[i].id, value |-> item[i].value, color |-> Insight!ColorFor(item[i].id)]]
<1>1. item = <<[id |-> id, n |-> n, value |-> value]>> BY DEF Insight!Indicator
<1>2. DOMAIN item = 1..1 /\ item[1].value = value BY <1>1
<1>. HIDE DEF item
<1>3. colored = <<[id |-> item[1].id, value |-> value, color |-> Insight!ColorFor(item[1].id)]>> BY <1>2
<1>4. colored # <<>> /\ Len(colored) = 1 /\ colored[1].value = value
  <2>. HIDE DEF colored
  <2>. QED BY <1>3
<1>5. Insight!IndicatorItems(shown) = IF colored = <<>> /\ shown.reason # Nothing
                                THEN <<[id |-> "trigger", value |-> shown.reason, color |-> Nothing]>> ELSE colored
  BY DEF Insight!IndicatorItems, Insight!LinkedPlan, item
<1>. HIDE DEF colored
<1>. QED BY <1>4, <1>5

\* What the property asks of the item and the lines of one trigger.
Quoted(item, lines) ==
    /\ item # Nothing /\ item[1] = "money" => \E i \in DOMAIN lines : lines[i].value = item[2]
    /\ Len(lines) = 2 /\ shown.threshold.id = "trailing_stop" /\ shown.plan.initial_trailing_stop_price = Nothing =>
         lines[2].value <= lines[1].value
    /\ item = Nothing /\ shown.threshold.id = "layer" =>
         LET v == Insight!LayerPrice(shown.plan, shown.threshold.n) IN lines # <<>> => v \notin {Nothing, Garbage} /\ v.text

\* The price a trigger is quoted with is a line of the chart, whatever the parameters of its plan.
THEOREM TriggerLineIsQuotedHolds ==
    ASSUME Insight!ValuesAssumption, Insight!ItemAssumption, Insight!Drawn("insight") => Insight!TriggerData(shown)
    PROVE  Insight!TriggerLineIsQuoted
<1>. DEFINE p == shown.plan
            items == Insight!IndicatorItems(shown)
            lines == Insight!IndicatorLines(shown)
<1>1. SUFFICES ASSUME Insight!Drawn("insight"), ~Insight!MarketAlpha(shown), shown.plan # Nothing,
                      shown.threshold.id \in {"stop_loss", "layer", "trailing_stop"}
               PROVE  Len(items) = 1 /\ Quoted(items[1].value, lines)
  BY DEF Insight!TriggerLineIsQuoted, Quoted
<1>2. lines = Insight!TriggerLines(shown.threshold, p) BY <1>1 DEF Insight!IndicatorLines
<1>3. /\ \A key \in {"stop_loss_price", "support_level", "stop_loss_pct", "trailing_stop_pct", "callback_rate", "activation_price",
                     "initial_trailing_stop_price"} : p[key] \in Insight!Parameter
      /\ \A i \in DOMAIN p.layers : p.layers[i] \in Insight!Parameter
      /\ \A key \in {"trailing_stop_pct", "callback_rate", "activation_price"} : p[key] \in {Nothing, Garbage} \/ p[key].n >= 0
  BY <1>1 DEF Insight!TriggerData
<1>4. Nothing \notin Int /\ \A v \in Int : <<"money", v>> # Nothing
  BY DEF Insight!ValuesAssumption, Insight!ItemAssumption
<1>. HIDE DEF items, lines
<1>5. CASE shown.threshold.id = "stop_loss"
  <2>. DEFINE stop == p.stop_loss_price support == p.support_level
              price == Insight!Either(Insight!Strict(stop), Insight!Strict(support))
              value == Insight!Either(Insight!MoneyItem(price), Insight!PercentItem(Insight!Strict(p.stop_loss_pct)))
  <2>1. stop \in Insight!Parameter /\ support \in Insight!Parameter BY <1>3
  <2>2. Insight!TriggerItem(shown.threshold, p) = Insight!Indicator("stop-loss", 0, value) BY <1>5 DEF Insight!TriggerItem
  <2>3. Len(items) = 1 /\ items[1].value = value
    <3>. HIDE DEF value
    <3>. QED BY <1>1, <2>2, ItemOK DEF items
  <2>4. lines = Insight!TraceLine(Insight!Numeric(stop), "danger") \o Insight!TraceLine(Insight!Numeric(support), "warning") BY <1>2, <1>5 DEF Insight!TriggerLines
  <2>. HIDE DEF stop, support
  <2>5. LinesFor(lines, Insight!Numeric(stop), Insight!Numeric(support)) BY <2>1, <2>4, ParameterRead, LinesOK
  <2>6. ASSUME value # Nothing, value[1] = "money" PROVE \E i \in DOMAIN lines : lines[i].value = value[2]
    <3>1. price # Nothing BY <2>6 DEF Insight!MoneyItem, Insight!PercentItem, Insight!Either
    <3>2. price \in Int /\ price \in {Insight!Numeric(stop), Insight!Numeric(support)} BY <2>1, <3>1, ParameterRead DEF Insight!Either
    <3>3. value = <<"money", price>>
      <4>. HIDE DEF price
      <4>. QED BY <1>4, <3>1, <3>2 DEF Insight!MoneyItem, Insight!Either
    <3>4. value[2] = price BY <3>3
    <3>. HIDE DEF price, value
    <3>. QED BY <1>4, <2>5, <3>2, <3>4 DEF LinesFor
  <2>. HIDE DEF value
  <2>. QED BY <1>5, <2>3, <2>6 DEF Quoted
<1>6. CASE shown.threshold.id = "layer"
  <2>. DEFINE layer == Insight!LayerPrice(p, shown.threshold.n) value == Insight!MoneyItem(Insight!Strict(layer))
  <2>1. layer \in Insight!Parameter BY <1>3 DEF Insight!LayerPrice, Insight!Parameter
  <2>2. Insight!TriggerItem(shown.threshold, p) = Insight!Indicator("take-profit", shown.threshold.n, value) BY <1>6 DEF Insight!TriggerItem
  <2>3. Len(items) = 1 /\ items[1].value = value
    <3>. HIDE DEF value
    <3>. QED BY <1>1, <2>2, ItemOK DEF items
  <2>4. lines = Insight!TraceLine(Insight!Numeric(layer), "accent") BY <1>2, <1>6 DEF Insight!TriggerLines
  <2>. HIDE DEF layer
  <2>5. Insight!Strict(layer) \in Int \cup {Nothing} /\ (Insight!Strict(layer) # Nothing => Insight!Numeric(layer) = Insight!Strict(layer))
    BY <2>1, ParameterRead
  <2>6. CASE Insight!Strict(layer) = Nothing
    <3>1. value = Nothing BY <2>6 DEF Insight!MoneyItem
    <3>2. ASSUME lines # <<>> PROVE layer \notin {Nothing, Garbage} /\ layer.text
      <4>1. Insight!Numeric(layer) # Nothing BY <2>4, <3>2 DEF Insight!TraceLine
      <4>2. layer \notin {Nothing, Garbage} BY <4>1 DEF Insight!Numeric
      <4>3. layer \in [n : Int, text : BOOLEAN] BY <2>1, <4>2 DEF Insight!Parameter
      <4>4. layer.n \in Int /\ layer.text \in BOOLEAN BY <4>3
      <4>5. layer.text BY <1>4, <2>6, <4>2, <4>4 DEF Insight!Strict
      <4>. QED BY <4>2, <4>5
    <3>. HIDE DEF value
    <3>. QED BY <1>6, <2>3, <3>1, <3>2 DEF Quoted, layer
  <2>7. CASE Insight!Strict(layer) # Nothing
    <3>1. value = <<"money", Insight!Strict(layer)>> BY <2>7 DEF Insight!MoneyItem
    <3>2. value[2] = Insight!Strict(layer) /\ value # Nothing BY <1>4, <2>5, <2>7, <3>1
    <3>3. lines = <<[value |-> Insight!Strict(layer), color |-> "accent"]>> BY <2>4, <2>5, <2>7 DEF Insight!TraceLine
    <3>4. 1 \in DOMAIN lines /\ lines[1].value = Insight!Strict(layer) BY <3>3
    <3>. HIDE DEF value
    <3>. QED BY <1>6, <2>3, <3>2, <3>4 DEF Quoted
  <2>. QED BY <2>6, <2>7
<1>7. CASE shown.threshold.id = "trailing_stop"
  <2>. DEFINE activation == Insight!Numeric(p.activation_price)
              pct == Insight!Either(Insight!Numeric(p.trailing_stop_pct), Insight!Numeric(p.callback_rate))
              initial == IF Nothing \in {activation, pct} THEN Nothing ELSE (activation * (Insight!One - pct)) \div Insight!One
              drawn == Insight!Either(Insight!Numeric(p.initial_trailing_stop_price), initial)
              rate == Insight!Either(Insight!Strict(p.trailing_stop_pct), Insight!Strict(p.callback_rate))
              value == Insight!PercentItem(rate)
  <2>1. Insight!TriggerItem(shown.threshold, p) = Insight!Indicator("trailing-stop", 0, value) BY <1>7 DEF Insight!TriggerItem
  <2>2. Len(items) = 1 /\ items[1].value = value
    <3>. HIDE DEF value
    <3>. QED BY <1>1, <2>1, ItemOK DEF items
  <2>3. lines = Insight!TraceLine(activation, "accent") \o Insight!TraceLine(drawn, "warning") BY <1>2, <1>7 DEF Insight!TriggerLines
  <2>4. /\ p.activation_price \in Insight!Parameter /\ p.trailing_stop_pct \in Insight!Parameter /\ p.callback_rate \in Insight!Parameter
        /\ p.initial_trailing_stop_price \in Insight!Parameter
        /\ p.activation_price \in {Nothing, Garbage} \/ p.activation_price.n >= 0
        /\ p.trailing_stop_pct \in {Nothing, Garbage} \/ p.trailing_stop_pct.n >= 0
        /\ p.callback_rate \in {Nothing, Garbage} \/ p.callback_rate.n >= 0
    BY <1>3
  <2>5. \A v \in Insight!Parameter : v \in {Nothing, Garbage} \/ v.n >= 0 => Insight!Numeric(v) \in Nat \cup {Nothing}
    BY DEF Insight!Parameter, Insight!Numeric
  <2>6. activation \in Nat \cup {Nothing} /\ pct \in Nat \cup {Nothing} BY <2>4, <2>5 DEF Insight!Either
  <2>7. drawn \in Int \cup {Nothing}
    <3>1. initial \in Int \cup {Nothing}
      <4>. HIDE DEF activation, pct
      <4>. QED BY <2>6 DEF Insight!One
    <3>2. Insight!Numeric(p.initial_trailing_stop_price) \in Int \cup {Nothing} BY <2>4, ParameterRead
    <3>. HIDE DEF initial
    <3>. QED BY <3>1, <3>2 DEF Insight!Either
  <2>8. LinesFor(lines, activation, drawn)
    <3>. HIDE DEF activation, drawn
    <3>1. activation \in Int \cup {Nothing} BY <2>6
    <3>. QED BY <2>3, <2>7, <3>1, LinesOK
  <2>9. ~(value # Nothing /\ value[1] = "money") BY DEF Insight!PercentItem
  <2>10. ASSUME Len(lines) = 2, p.initial_trailing_stop_price = Nothing PROVE lines[2].value <= lines[1].value
    <3>1. lines[1].value = activation /\ lines[2].value = drawn /\ activation # Nothing /\ drawn # Nothing
      <4>. HIDE DEF activation, drawn
      <4>. QED BY <2>8, <2>10 DEF LinesFor
    <3>2. drawn = initial BY <2>10 DEF Insight!Numeric, Insight!Either
    <3>3. activation \in Nat /\ pct \in Nat /\ drawn = (activation * (Insight!One - pct)) \div Insight!One
      <4>. HIDE DEF activation, pct, drawn
      <4>. QED BY <2>6, <3>1, <3>2
    <3>4. ASSUME NEW a \in Nat, NEW r \in Nat PROVE (a * (100 - r)) \div 100 <= a
      <4>1. a * r >= 0 BY <3>4
      <4>2. a * (100 - r) = 100 * a - a * r BY <3>4
      <4>3. PICK q \in Nat : q = a * r BY <4>1
      <4>4. a * (100 - r) = 100 * a - q BY <4>2, <4>3
      <4>5. (100 * a - q) \div 100 <= a BY <4>3
      <4>. QED BY <4>4, <4>5
    <3>. HIDE DEF activation, pct, drawn
    <3>5. drawn <= activation BY <3>3, <3>4 DEF Insight!One
    <3>. QED BY <3>1, <3>5
  <2>. HIDE DEF value
  <2>. QED BY <1>7, <2>2, <2>9, <2>10 DEF Quoted
<1>. QED BY <1>1, <1>5, <1>6, <1>7

----------------------------------------------------------------------------
(* The indicators                                                          *)

\* A list that goes on from its first value by steps.
Stepped(f, m, n, first, step) == f = [i \in m..n |-> IF i = m THEN first ELSE step[<<i, f[i - 1]>>]]

\* There is such a list, of any length.
LEMMA SteppedExists ==
    ASSUME NEW V, NEW first \in V, NEW m \in Nat, NEW top \in Nat, NEW step \in [((m + 1)..top) \X V -> V]
    PROVE  \A n \in m..top : \E f \in [m..n -> V] : Stepped(f, m, n, first, step)
<1>. DEFINE T == {n \in m..top : ~ \E f \in [m..n -> V] : Stepped(f, m, n, first, step)}
<1>1. SUFFICES ASSUME T # {} PROVE FALSE OBVIOUS
<1>2. T \subseteq Nat OBVIOUS
<1>3. PICK n \in T : \A k \in T : n <= k BY <1>1, <1>2, LeastOf
<1>4. n \in m..top /\ n \in Nat BY <1>2, <1>3
<1>5. ASSUME n = m PROVE FALSE
  <2>. DEFINE f == [i \in m..n |-> first]
  <2>1. f \in [m..n -> V] OBVIOUS
  <2>2. f = [i \in m..n |-> IF i = m THEN first ELSE step[<<i, f[i - 1]>>]] BY <1>4, <1>5
  <2>. QED BY <1>3, <2>1, <2>2 DEF Stepped
<1>6. ASSUME n # m PROVE FALSE
  <2>1. n - 1 \in m..top /\ n - 1 \notin T BY <1>3, <1>4, <1>6
  <2>2. PICK g \in [m..(n - 1) -> V] : Stepped(g, m, n - 1, first, step) BY <2>1
  <2>. DEFINE f == [i \in m..n |-> IF i = n THEN step[<<n, g[n - 1]>>] ELSE g[i]]
  <2>3. n \in (m + 1)..top /\ n - 1 \in m..(n - 1) /\ g[n - 1] \in V BY <1>4, <1>6, <2>1
  <2>4. step[<<n, g[n - 1]>>] \in V BY <2>3
  <2>5. \A i \in m..n : i = n \/ i \in m..(n - 1) BY <1>4
  <2>6. f \in [m..n -> V] BY <2>4, <2>5
  <2>7. ASSUME NEW i \in m..n PROVE f[i] = IF i = m THEN first ELSE step[<<i, f[i - 1]>>]
    <3>1. CASE i = n
      <4>1. f[n - 1] = g[n - 1] /\ f[n] = step[<<n, g[n - 1]>>] BY <1>4, <2>3
      <4>. QED BY <1>6, <3>1, <4>1
    <3>2. CASE i # n
      <4>1. i \in m..(n - 1) /\ f[i] = g[i] BY <2>5, <3>2
      <4>2. g[i] = IF i = m THEN first ELSE step[<<i, g[i - 1]>>] BY <2>2, <4>1 DEF Stepped
      <4>3. i # m => i - 1 \in m..n /\ i - 1 # n BY <1>4, <4>1
      <4>4. i # m => f[i - 1] = g[i - 1] BY <4>3
      <4>. QED BY <4>1, <4>2, <4>4
    <3>. QED BY <3>1, <3>2
  <2>8. f = [i \in m..n |-> IF i = m THEN first ELSE step[<<i, f[i - 1]>>]] BY <2>7
  <2>. HIDE DEF f
  <2>. QED BY <1>3, <2>6, <2>8 DEF Stepped
<1>. QED BY <1>5, <1>6

\* The averages of the gains and of the losses are no less than zero.
AvgPair == [gain : Nat, loss : Nat]
FirstAvg(s, n) ==
    [gain |-> (100 * Insight!SumOver(s, 2, n + 1, Insight!Gain)) \div n, loss |-> (100 * Insight!SumOver(s, 2, n + 1, Insight!Loss)) \div n]
NextAvg(avg, s, n, i) ==
    [gain |-> (avg.gain * (n - 1) + 100 * Insight!Gain(s, i)) \div n, loss |-> (avg.loss * (n - 1) + 100 * Insight!Loss(s, i)) \div n]
AvgUpTo(f, s, n) == f = [i \in (n + 1)..Len(s) |-> IF i = n + 1 THEN FirstAvg(s, n) ELSE NextAvg(f[i - 1], s, n, i)]
ListUpTo(h, s, n) ==
    h = [i \in (n + 1)..Len(s) |->
           IF i = n + 1 THEN <<FirstAvg(s, n)>> ELSE Append(h[i - 1], NextAvg(h[i - 1][Len(h[i - 1])], s, n, i))]

\* The averages are those of the whole list.
LEMMA AveragesAreLast ==
    ASSUME NEW s, NEW n
    PROVE  Insight!Averages(s, n) = (CHOOSE h : ListUpTo(h, s, n))[Len(s)]
BY DEF Insight!Averages, ListUpTo, FirstAvg, NextAvg, Insight!One

\* From a close to the next there is a gain, a loss or neither.
LEMMA MoveOK ==
    ASSUME NEW s \in Seq(Int), NEW i \in 2..Len(s)
    PROVE  /\ Insight!Gain(s, i) \in Nat /\ Insight!Gain(s, i) = IF s[i] > s[i - 1] THEN s[i] - s[i - 1] ELSE 0
           /\ Insight!Loss(s, i) \in Nat /\ Insight!Loss(s, i) = IF s[i] < s[i - 1] THEN s[i - 1] - s[i] ELSE 0
<1>1. s[i] \in Int /\ s[i - 1] \in Int
  <2>1. i \in 1..Len(s) /\ i - 1 \in 1..Len(s) OBVIOUS
  <2>. QED BY <2>1
<1>2. ASSUME NEW v \in Int PROVE Insight!Greatest({0, v}) = IF v > 0 THEN v ELSE 0
  <2>. DEFINE S == {0, v} big == IF v > 0 THEN v ELSE 0
  <2>1. big \in S /\ \A w \in S : w <= big OBVIOUS
  <2>2. \A x \in S : (\A w \in S : w <= x) => x = big OBVIOUS
  <2>. QED BY <2>1, <2>2 DEF Insight!Greatest
<1>. QED BY <1>1, <1>2 DEF Insight!Gain, Insight!Loss

\* The moves of the first period.
Gains(s, n) == [i \in 1..n |-> Insight!Gain(s, 2 + i - 1)]
Losses(s, n) == [i \in 1..n |-> Insight!Loss(s, 2 + i - 1)]

LEMMA FirstMoves ==
    ASSUME NEW s, NEW n \in Nat \ {0}
    PROVE  /\ Insight!SumOver(s, 2, n + 1, Insight!Gain) = Insight!TotalOf(Gains(s, n))
           /\ Insight!SumOver(s, 2, n + 1, Insight!Loss) = Insight!TotalOf(Losses(s, n))
<1>1. n + 1 - 2 + 1 = n OBVIOUS
<1>. QED BY <1>1 DEF Insight!SumOver, Gains, Losses

\* The total of numbers that are not below zero is not below zero.
LEMMA TotalIsNatural ==
    ASSUME NEW s, Len(s) \in Nat, \A i \in 1..Len(s) : s[i] \in Nat
    PROVE  Insight!TotalOf(s) \in Nat
<1>1. \A i \in 1..Len(s) : s[i] \in Int OBVIOUS
<1>2. /\ Sum(s) = [i \in 0..Len(s) |-> IF i = 0 THEN 0 ELSE s[i] + Sum(s)[i - 1]]
      /\ \A i \in 0..Len(s) : Sum(s)[i] \in Int
      /\ F!TotalOf(s) = Sum(s)[Len(s)]
  BY <1>1, SumOf
<1>3. Insight!TotalOf(s) = F!TotalOf(s) BY DEF Insight!TotalOf, F!TotalOf
<1>. DEFINE T == {n \in 0..Len(s) : Sum(s)[n] < 0}
<1>4. ASSUME T # {} PROVE FALSE
  <2>1. T \subseteq Nat OBVIOUS
  <2>2. PICK n \in T : \A k \in T : n <= k BY <1>4, <2>1, LeastOf
  <2>3. n # 0 BY <1>2, <2>2
  <2>4. n - 1 \in 0..Len(s) /\ n - 1 \notin T /\ n \in 1..Len(s) BY <2>2, <2>3
  <2>5. Sum(s)[n] = s[n] + Sum(s)[n - 1] BY <1>2, <2>3, <2>4
  <2>. QED BY <1>2, <2>2, <2>4, <2>5
<1>5. Len(s) \in 0..Len(s) /\ Len(s) \notin T BY <1>4
<1>6. Sum(s)[Len(s)] \in Int /\ ~(Sum(s)[Len(s)] < 0) BY <1>2, <1>5
<1>. QED BY <1>2, <1>3, <1>6

\* The averages of the first period are no less than zero.
LEMMA FirstOK ==
    ASSUME NEW s \in Seq(Int), NEW n \in Nat \ {0}, Len(s) > n
    PROVE  FirstAvg(s, n) \in AvgPair
<1>. DEFINE gains == Gains(s, n) losses == Losses(s, n)
<1>1. /\ Insight!SumOver(s, 2, n + 1, Insight!Gain) = Insight!TotalOf(gains)
      /\ Insight!SumOver(s, 2, n + 1, Insight!Loss) = Insight!TotalOf(losses)
  BY FirstMoves
<1>2. ASSUME NEW i \in 1..n PROVE gains[i] \in Nat /\ losses[i] \in Nat
  <2>1. 2 + i - 1 \in 2..Len(s) OBVIOUS
  <2>. QED BY <2>1, MoveOK DEF Gains, Losses
<1>3. Len(gains) = n /\ Len(losses) = n BY DEF Gains, Losses
<1>. HIDE DEF gains, losses
<1>4. Insight!TotalOf(gains) \in Nat /\ Insight!TotalOf(losses) \in Nat BY <1>2, <1>3, TotalIsNatural
<1>5. \A x \in Nat : (100 * x) \div n \in Nat OBVIOUS
<1>. QED BY <1>1, <1>4, <1>5 DEF FirstAvg, AvgPair

\* So are those that are smoothed.
LEMMA NextOK ==
    ASSUME NEW s \in Seq(Int), NEW n \in Nat \ {0}, NEW i \in 2..Len(s), NEW avg \in AvgPair
    PROVE  NextAvg(avg, s, n, i) \in AvgPair
<1>1. Insight!Gain(s, i) \in Nat /\ Insight!Loss(s, i) \in Nat BY MoveOK
<1>2. ASSUME NEW x \in Nat, NEW y \in Nat PROVE (x * (n - 1) + 100 * y) \div n \in Nat
  <2>1. x * (n - 1) \in Nat
    <3>1. n - 1 \in Nat OBVIOUS
    <3>. QED BY <3>1
  <2>. DEFINE z == x * (n - 1) + 100 * y
  <2>2. z \in Nat BY <2>1
  <2>. HIDE DEF z
  <2>3. z \div n \in Nat BY <2>2
  <2>. QED BY <2>3 DEF z
<1>. QED BY <1>1, <1>2 DEF NextAvg, AvgPair

\* Every close after the first period has its averages.
LEMMA AvgExists ==
    ASSUME NEW s \in Seq(Int), NEW n \in Nat \ {0}, Len(s) > n
    PROVE  \E f \in [(n + 1)..Len(s) -> AvgPair] : AvgUpTo(f, s, n)
<1>. DEFINE m == n + 1
            step == [x \in ((m + 1)..Len(s)) \X AvgPair |-> NextAvg(x[2], s, n, x[1])]
<1>1. step \in [((m + 1)..Len(s)) \X AvgPair -> AvgPair]
  <2>1. \A i \in (m + 1)..Len(s) : i \in 2..Len(s) OBVIOUS
  <2>2. ASSUME NEW x \in ((m + 1)..Len(s)) \X AvgPair PROVE NextAvg(x[2], s, n, x[1]) \in AvgPair BY <2>1, NextOK
  <2>. QED BY <2>2
<1>2. m \in Nat /\ Len(s) \in Nat /\ Len(s) \in m..Len(s) OBVIOUS
<1>3. FirstAvg(s, n) \in AvgPair BY FirstOK
<1>4. PICK f \in [m..Len(s) -> AvgPair] : Stepped(f, m, Len(s), FirstAvg(s, n), step)
  <2>. HIDE DEF step, m
  <2>. QED BY <1>1, <1>2, <1>3, SteppedExists
<1>5. ASSUME NEW i \in m..Len(s) PROVE f[i] = IF i = m THEN FirstAvg(s, n) ELSE NextAvg(f[i - 1], s, n, i)
  <2>1. f[i] = IF i = m THEN FirstAvg(s, n) ELSE step[<<i, f[i - 1]>>] BY <1>4 DEF Stepped
  <2>2. i # m => i \in (m + 1)..Len(s) /\ i - 1 \in m..Len(s) BY <1>2
  <2>3. i # m => f[i - 1] \in AvgPair BY <1>4, <2>2
  <2>4. i # m => step[<<i, f[i - 1]>>] = NextAvg(f[i - 1], s, n, i) BY <2>2, <2>3
  <2>. QED BY <2>1, <2>4
<1>. HIDE DEF step
<1>6. f = [i \in m..Len(s) |-> IF i = m THEN FirstAvg(s, n) ELSE NextAvg(f[i - 1], s, n, i)] BY <1>4, <1>5
<1>. QED BY <1>4, <1>6 DEF AvgUpTo

\* A list of one.
LEMMA OneOf == ASSUME NEW x PROVE [k \in 1..1 |-> x] = <<x>>
OBVIOUS

\* A list with one more at its end.
LEMMA OneMore ==
    ASSUME NEW V, NEW q \in Seq(V), NEW v \in V
    PROVE  Append(q, v) = [k \in 1..(Len(q) + 1) |-> IF k = Len(q) + 1 THEN v ELSE q[k]]
<1>. DEFINE e == [k \in 1..(Len(q) + 1) |-> IF k = Len(q) + 1 THEN v ELSE q[k]]
<1>1. /\ Append(q, v) \in Seq(V) /\ Len(Append(q, v)) = Len(q) + 1
      /\ \A k \in 1..(Len(q) + 1) : Append(q, v)[k] = IF k = Len(q) + 1 THEN v ELSE q[k]
  OBVIOUS
<1>2. e \in Seq(V) /\ Len(e) = Len(q) + 1
  <2>1. \A k \in 1..(Len(q) + 1) : k # Len(q) + 1 => k \in 1..Len(q) /\ q[k] \in V OBVIOUS
  <2>. QED BY <2>1
<1>3. \A k \in 1..(Len(q) + 1) : Append(q, v)[k] = e[k] BY <1>1
<1>. HIDE DEF e
<1>4. Append(q, v) = e BY <1>1, <1>2, <1>3, SeqEqual
<1>. QED BY <1>4 DEF e

\* The list of the averages.
LEMMA AveragesOf ==
    ASSUME NEW s \in Seq(Int), NEW n \in Nat \ {0}, Len(s) > n
    PROVE  \E f \in [(n + 1)..Len(s) -> AvgPair] :
             /\ AvgUpTo(f, s, n)
             /\ Insight!Averages(s, n) = [k \in 1..(Len(s) - n) |-> f[n + k]]
<1>. DEFINE m == n + 1
            top == Len(s)
            h == CHOOSE g : ListUpTo(g, s, n)
<1>1. PICK f \in [m..top -> AvgPair] : AvgUpTo(f, s, n) BY AvgExists
<1>. DEFINE Upto(i) == [k \in 1..(i - n) |-> f[n + k]]
            e == [i \in m..top |-> Upto(i)]
<1>2. top \in Nat /\ m \in 1..top OBVIOUS
<1>3. f[m] = FirstAvg(s, n) /\ \A i \in m..top : i # m => f[i] = NextAvg(f[i - 1], s, n, i)
  <2>1. f = [i \in m..top |-> IF i = m THEN FirstAvg(s, n) ELSE NextAvg(f[i - 1], s, n, i)] BY <1>1 DEF AvgUpTo
  <2>2. m \in m..top BY <1>2
  <2>. HIDE DEF m, top
  <2>. QED BY ONLY <2>1, <2>2
<1>4. Upto(m) = <<f[m]>>
  <2>1. m - n = 1 /\ n + 1 = m OBVIOUS
  <2>. HIDE DEF m
  <2>2. Upto(m) = [k \in 1..1 |-> f[m]] BY <2>1
  <2>. QED BY <2>2, OneOf
<1>5. ASSUME NEW i \in m..top, i # m
      PROVE  Upto(i) = Append(Upto(i - 1), f[i]) /\ Upto(i - 1)[Len(Upto(i - 1))] = f[i - 1]
  <2>1. i \in Nat /\ i - 1 - n \in Nat \ {0} /\ n + (i - n) = i /\ n + (i - 1 - n) = i - 1 /\ i - n = (i - 1 - n) + 1 BY <1>2, <1>5
  <2>2. \A k \in 1..(i - n) : n + k \in m..top BY <1>2
  <2>3. Upto(i - 1) \in Seq(AvgPair) /\ Len(Upto(i - 1)) = i - 1 - n
    <3>1. \A k \in 1..(i - 1 - n) : f[n + k] \in AvgPair BY <1>1, <2>1, <2>2
    <3>. QED BY <2>1, <3>1
  <2>4. f[i] \in AvgPair BY <1>1
  <2>. DEFINE r == i - 1 - n
  <2>5. Append(Upto(i - 1), f[i]) = [k \in 1..(r + 1) |-> IF k = r + 1 THEN f[i] ELSE Upto(i - 1)[k]]
    <3>. DEFINE q == Upto(i - 1) v == f[i]
    <3>1. q \in Seq(AvgPair) /\ Len(q) = r /\ v \in AvgPair BY <2>3, <2>4
    <3>. HIDE DEF q, v, r
    <3>2. Append(q, v) = [k \in 1..(r + 1) |-> IF k = r + 1 THEN v ELSE q[k]] BY <3>1, OneMore
    <3>. QED BY <3>2 DEF q, v
  <2>6. \A k \in 1..(r + 1) : k # r + 1 => k \in 1..r BY <2>1
  <2>7. \A k \in 1..(i - n) : Upto(i)[k] = IF k = r + 1 THEN f[i] ELSE Upto(i - 1)[k] BY <2>1, <2>6
  <2>8. Upto(i) = [k \in 1..(r + 1) |-> IF k = r + 1 THEN f[i] ELSE Upto(i - 1)[k]] BY <2>1, <2>7
  <2>9. Upto(i - 1)[i - 1 - n] = f[i - 1] BY <2>1
  <2>. QED BY <2>3, <2>5, <2>8, <2>9
<1>. HIDE DEF Upto
<1>6. ListUpTo(e, s, n)
  <2>1. ASSUME NEW i \in m..top
        PROVE  e[i] = IF i = m THEN <<FirstAvg(s, n)>> ELSE Append(e[i - 1], NextAvg(e[i - 1][Len(e[i - 1])], s, n, i))
    <3>1. CASE i = m BY <1>3, <1>4, <3>1
    <3>2. CASE i # m
      <4>1. i - 1 \in m..top BY <1>2, <3>2
      <4>2. e[i] = Upto(i) /\ e[i - 1] = Upto(i - 1) BY <4>1
      <4>3. f[i] = NextAvg(f[i - 1], s, n, i) BY <1>3, <3>2
      <4>. QED BY <1>5, <3>2, <4>2, <4>3
    <3>. QED BY <3>1, <3>2
  <2>. HIDE DEF e
  <2>2. e = [i \in m..top |-> IF i = m THEN <<FirstAvg(s, n)>> ELSE Append(e[i - 1], NextAvg(e[i - 1][Len(e[i - 1])], s, n, i))]
    <3>1. e = [i \in m..top |-> e[i]] BY DEF e
    <3>. QED BY <2>1, <3>1
  <2>. QED BY <2>2 DEF ListUpTo
<1>7. ListUpTo(h, s, n) BY <1>6
<1>. HIDE DEF h
<1>8. h[m] = <<FirstAvg(s, n)>> /\ \A i \in m..top : i # m => h[i] = Append(h[i - 1], NextAvg(h[i - 1][Len(h[i - 1])], s, n, i))
  <2>1. h = [i \in m..top |-> IF i = m THEN <<FirstAvg(s, n)>> ELSE Append(h[i - 1], NextAvg(h[i - 1][Len(h[i - 1])], s, n, i))]
    BY <1>7 DEF ListUpTo
  <2>2. m \in m..top BY <1>2
  <2>. HIDE DEF m, top
  <2>. QED BY ONLY <2>1, <2>2
<1>. DEFINE T == {i \in m..top : h[i] # Upto(i)}
<1>9. ASSUME T # {} PROVE FALSE
  <2>1. T \subseteq Nat BY <1>2
  <2>2. PICK i \in T : \A k \in T : i <= k BY <1>9, <2>1, LeastOf
  <2>3. i \in m..top /\ i # m BY <1>3, <1>4, <1>8, <2>2
  <2>4. i - 1 \in m..top /\ i - 1 \notin T BY <1>2, <2>2, <2>3
  <2>5. h[i - 1] = Upto(i - 1) BY <2>4
  <2>6. h[i] = Append(Upto(i - 1), f[i]) BY <1>3, <1>5, <1>8, <2>3, <2>5
  <2>. QED BY <1>5, <2>2, <2>3, <2>6
<1>10. top \in m..top BY <1>2
<1>11. h[top] = Upto(top) BY <1>9, <1>10
<1>12. Insight!Averages(s, n) = h[top] BY AveragesAreLast DEF h
<1>13. Upto(top) = [k \in 1..(Len(s) - n) |-> f[n + k]] BY DEF Upto
<1>. QED BY <1>1, <1>11, <1>12, <1>13
\* The averages at a close depend on the closes up to there.
LEMMA AveragesOfPrefix ==
    ASSUME NEW s \in Seq(Int), NEW n \in Nat \ {0}, NEW i \in (n + 1)..Len(s)
    PROVE  Insight!Averages(SubSeq(s, 1, i), n)[i - n] = Insight!Averages(s, n)[i - n]
<1>. DEFINE p == SubSeq(s, 1, i)
            m == n + 1
<1>1. p \in Seq(Int) /\ Len(p) = i /\ \A k \in 1..i : p[k] = s[k]
  <2>1. i \in Nat /\ i <= Len(s) OBVIOUS
  <2>. QED BY <2>1
<1>2. i \in Nat /\ Len(s) \in Nat /\ Len(s) > n /\ i > n /\ i <= Len(s) OBVIOUS
<1>. HIDE DEF p
<1>3. PICK f \in [m..Len(s) -> AvgPair] :
          AvgUpTo(f, s, n) /\ Insight!Averages(s, n) = [k \in 1..(Len(s) - n) |-> f[n + k]]
  BY <1>2, AveragesOf
<1>4. PICK g \in [m..i -> AvgPair] :
          AvgUpTo(g, p, n) /\ Insight!Averages(p, n) = [k \in 1..(i - n) |-> g[n + k]]
  <2>1. Len(p) = i /\ Len(p) > n /\ p \in Seq(Int) BY <1>1, <1>2
  <2>2. \E g \in [(n + 1)..Len(p) -> AvgPair] :
          AvgUpTo(g, p, n) /\ Insight!Averages(p, n) = [k \in 1..(Len(p) - n) |-> g[n + k]]
    BY ONLY <2>1, n \in Nat \ {0}, AveragesOf
  <2>. QED BY ONLY <2>1, <2>2
<1>5. ASSUME NEW k \in 2..i PROVE Insight!Gain(p, k) = Insight!Gain(s, k) /\ Insight!Loss(p, k) = Insight!Loss(s, k)
  <2>1. k \in 1..i /\ k - 1 \in 1..i BY <1>2
  <2>. QED BY <1>1, <2>1 DEF Insight!Gain, Insight!Loss
<1>6. FirstAvg(p, n) = FirstAvg(s, n)
  <2>2. \A k \in 1..n : 2 + k - 1 \in 2..i BY <1>2
  <2>3. Gains(p, n) = Gains(s, n) /\ Losses(p, n) = Losses(s, n) BY <1>5, <2>2 DEF Gains, Losses
  <2>4. /\ Insight!SumOver(p, 2, n + 1, Insight!Gain) = Insight!SumOver(s, 2, n + 1, Insight!Gain)
        /\ Insight!SumOver(p, 2, n + 1, Insight!Loss) = Insight!SumOver(s, 2, n + 1, Insight!Loss)
    BY <2>3, FirstMoves
  <2>. QED BY <2>4 DEF FirstAvg
<1>7. f[m] = FirstAvg(s, n) /\ \A k \in m..Len(s) : k # m => f[k] = NextAvg(f[k - 1], s, n, k)
  <2>1. f = [k \in m..Len(s) |-> IF k = m THEN FirstAvg(s, n) ELSE NextAvg(f[k - 1], s, n, k)] BY <1>3 DEF AvgUpTo
  <2>2. m \in m..Len(s) BY <1>2
  <2>. HIDE DEF m
  <2>. QED BY ONLY <2>1, <2>2
<1>8. g[m] = FirstAvg(p, n) /\ \A k \in m..i : k # m => g[k] = NextAvg(g[k - 1], p, n, k)
  <2>1. g = [k \in m..i |-> IF k = m THEN FirstAvg(p, n) ELSE NextAvg(g[k - 1], p, n, k)] BY <1>1, <1>4 DEF AvgUpTo
  <2>2. m \in m..i BY <1>2
  <2>. HIDE DEF m
  <2>. QED BY ONLY <2>1, <2>2
<1>. DEFINE T == {k \in m..i : f[k] # g[k]}
<1>9. ASSUME T # {} PROVE FALSE
  <2>1. T \subseteq Nat BY <1>2
  <2>2. PICK k \in T : \A j \in T : k <= j BY <1>9, <2>1, LeastOf
  <2>3. k \in m..i /\ k # m BY <1>6, <1>7, <1>8, <2>2
  <2>4. k - 1 \in m..i /\ k - 1 \notin T /\ k \in 2..i /\ k \in m..Len(s) BY <1>2, <2>2, <2>3
  <2>5. f[k - 1] = g[k - 1] BY <2>4
  <2>6. NextAvg(g[k - 1], p, n, k) = NextAvg(g[k - 1], s, n, k) BY <1>5, <2>4 DEF NextAvg
  <2>7. f[k] = NextAvg(f[k - 1], s, n, k) BY <1>7, <2>3, <2>4
  <2>8. g[k] = NextAvg(g[k - 1], p, n, k) BY <1>8, <2>3
  <2>. QED BY <2>2, <2>5, <2>6, <2>7, <2>8
<1>10. f[i] = g[i] /\ n + (i - n) = i /\ i - n \in 1..(Len(s) - n) /\ i - n \in 1..(i - n)
  <2>1. i \in m..i BY <1>2
  <2>. QED BY <1>2, <1>9, <2>1
<1>11. Insight!Averages(p, n)[i - n] = g[i] BY <1>4, <1>10
<1>12. Insight!Averages(s, n)[i - n] = f[i] BY <1>3, <1>10
<1>. QED BY <1>10, <1>11, <1>12 DEF p

\* Falling is what rising is of the mirrored closes.
LEMMA AveragesOfMirror ==
    ASSUME NEW s \in Seq(Int), NEW n \in Nat \ {0}, Len(s) > n,
           NEW p \in Seq(Int), Len(p) = Len(s), \A i \in 1..Len(s) : p[i] = 10 - s[i]
    PROVE  LET a == Insight!Averages(s, n)[Len(s) - n]
               b == Insight!Averages(p, n)[Len(s) - n]
           IN a \in AvgPair /\ b \in AvgPair /\ b.gain = a.loss /\ b.loss = a.gain
<1>. DEFINE m == n + 1
            top == Len(s)
<1>1. top \in Nat /\ top > n OBVIOUS
<1>2. PICK f \in [m..top -> AvgPair] :
          AvgUpTo(f, s, n) /\ Insight!Averages(s, n) = [k \in 1..(top - n) |-> f[n + k]]
  BY AveragesOf
<1>3. PICK g \in [m..top -> AvgPair] :
          AvgUpTo(g, p, n) /\ Insight!Averages(p, n) = [k \in 1..(top - n) |-> g[n + k]]
  <2>1. Len(p) = top /\ Len(p) > n OBVIOUS
  <2>2. \E g \in [(n + 1)..Len(p) -> AvgPair] :
          AvgUpTo(g, p, n) /\ Insight!Averages(p, n) = [k \in 1..(Len(p) - n) |-> g[n + k]]
    BY ONLY <2>1, n \in Nat \ {0}, p \in Seq(Int), AveragesOf
  <2>. QED BY ONLY <2>1, <2>2
<1>4. ASSUME NEW k \in 2..top PROVE Insight!Gain(p, k) = Insight!Loss(s, k) /\ Insight!Loss(p, k) = Insight!Gain(s, k)
  <2>1. k \in 1..top /\ k - 1 \in 1..top BY <1>1
  <2>2. s[k] \in Int /\ s[k - 1] \in Int BY <2>1
  <2>3. p[k] = 10 - s[k] /\ p[k - 1] = 10 - s[k - 1] BY <2>1
  <2>4. Insight!Gain(s, k) = (IF s[k] > s[k - 1] THEN s[k] - s[k - 1] ELSE 0) /\ Insight!Loss(s, k) = (IF s[k] < s[k - 1] THEN s[k - 1] - s[k] ELSE 0)
    BY MoveOK
  <2>5. Insight!Gain(p, k) = (IF p[k] > p[k - 1] THEN p[k] - p[k - 1] ELSE 0) /\ Insight!Loss(p, k) = (IF p[k] < p[k - 1] THEN p[k - 1] - p[k] ELSE 0)
    <3>1. k \in 2..Len(p) OBVIOUS
    <3>. QED BY <3>1, MoveOK
  <2>. DEFINE now == s[k] before == s[k - 1]
  <2>6. now \in Int /\ before \in Int BY <2>2
  <2>. HIDE DEF now, before
  <2>7. p[k] = 10 - now /\ p[k - 1] = 10 - before BY <2>3 DEF now, before
  <2>8. Insight!Gain(s, k) = (IF now > before THEN now - before ELSE 0) /\ Insight!Loss(s, k) = (IF now < before THEN before - now ELSE 0)
    BY <2>4 DEF now, before
  <2>9. /\ Insight!Gain(p, k) = (IF 10 - now > 10 - before THEN 10 - now - (10 - before) ELSE 0)
        /\ Insight!Loss(p, k) = (IF 10 - now < 10 - before THEN 10 - before - (10 - now) ELSE 0)
    BY <2>5, <2>7
  <2>. QED BY ONLY <2>6, <2>8, <2>9
<1>5. FirstAvg(p, n).gain = FirstAvg(s, n).loss /\ FirstAvg(p, n).loss = FirstAvg(s, n).gain
  <2>2. \A k \in 1..n : 2 + k - 1 \in 2..top BY <1>1
  <2>3. Gains(p, n) = Losses(s, n) /\ Losses(p, n) = Gains(s, n) BY <1>4, <2>2 DEF Gains, Losses
  <2>4. /\ Insight!SumOver(p, 2, n + 1, Insight!Gain) = Insight!SumOver(s, 2, n + 1, Insight!Loss)
        /\ Insight!SumOver(p, 2, n + 1, Insight!Loss) = Insight!SumOver(s, 2, n + 1, Insight!Gain)
    BY <2>3, FirstMoves
  <2>. QED BY <2>4 DEF FirstAvg
<1>7. f[m] = FirstAvg(s, n) /\ \A k \in m..top : k # m => f[k] = NextAvg(f[k - 1], s, n, k)
  <2>1. f = [k \in m..top |-> IF k = m THEN FirstAvg(s, n) ELSE NextAvg(f[k - 1], s, n, k)] BY <1>2 DEF AvgUpTo
  <2>2. m \in m..top BY <1>1
  <2>. HIDE DEF m, top
  <2>. QED BY ONLY <2>1, <2>2
<1>8. g[m] = FirstAvg(p, n) /\ \A k \in m..top : k # m => g[k] = NextAvg(g[k - 1], p, n, k)
  <2>1. g = [k \in m..top |-> IF k = m THEN FirstAvg(p, n) ELSE NextAvg(g[k - 1], p, n, k)] BY <1>3 DEF AvgUpTo
  <2>2. m \in m..top BY <1>1
  <2>. HIDE DEF m, top
  <2>. QED BY ONLY <2>1, <2>2
<1>. DEFINE T == {k \in m..top : ~(g[k].gain = f[k].loss /\ g[k].loss = f[k].gain)}
<1>9. ASSUME T # {} PROVE FALSE
  <2>1. T \subseteq Nat BY <1>1
  <2>2. PICK k \in T : \A j \in T : k <= j BY <1>9, <2>1, LeastOf
  <2>3. k \in m..top /\ k # m BY <1>5, <1>7, <1>8, <2>2
  <2>4. k - 1 \in m..top /\ k - 1 < k /\ k \in 2..top BY <1>1, <2>3
  <2>9. k - 1 \notin T
    <3>. HIDE DEF T
    <3>. QED BY <1>1, <2>2, <2>3, <2>4
  <2>5. g[k - 1].gain = f[k - 1].loss /\ g[k - 1].loss = f[k - 1].gain BY <2>4, <2>9
  <2>6. f[k] = NextAvg(f[k - 1], s, n, k) /\ g[k] = NextAvg(g[k - 1], p, n, k) BY <1>7, <1>8, <2>3
  <2>7. g[k].gain = f[k].loss /\ g[k].loss = f[k].gain BY <1>4, <2>4, <2>5, <2>6 DEF NextAvg
  <2>. QED BY <2>2, <2>7
<1>10. top \in m..top /\ n + (top - n) = top /\ top - n \in 1..(top - n) BY <1>1
<1>11. g[top].gain = f[top].loss /\ g[top].loss = f[top].gain BY <1>9, <1>10
<1>12. Insight!Averages(s, n)[top - n] = f[top] /\ Insight!Averages(p, n)[top - n] = g[top] BY <1>2, <1>3, <1>10
<1>13. f[top] \in AvgPair /\ g[top] \in AvgPair
  <2>1. top \in m..top BY <1>10
  <2>. HIDE DEF m, top
  <2>. QED BY <2>1
<1>. QED BY <1>11, <1>12, <1>13

\* The index is between 0 and 100.
LEMMA StrengthOK ==
    ASSUME NEW a \in AvgPair
    PROVE  Insight!Strength(a) \in 0..(100 * Insight!One)
<1>. DEFINE top == 100 * Insight!One r == a.gain + a.loss
<1>1. top \in Nat BY DEF Insight!One
<1>2. a.gain \in Nat /\ a.loss \in Nat BY DEF AvgPair
<1>3. CASE a.loss = 0 BY <1>1, <1>3 DEF Insight!Strength
<1>4. CASE a.loss # 0
  <2>1. r \in Nat \ {0} /\ a.gain \in 0..r BY <1>2, <1>4
  <2>2. (100 * Insight!One * a.gain) = a.gain * top BY <1>1, <1>2
  <2>. HIDE DEF top, r
  <2>3. (a.gain * top) \div r \in 0..top BY <1>1, <2>1, ShareOfHeight
  <2>4. Insight!Strength(a) = (a.gain * top) \div r BY <1>4, <2>2 DEF Insight!Strength, r
  <2>. QED BY <2>3, <2>4 DEF top
<1>. QED BY <1>3, <1>4

\* Two shares of a whole miss at most one of it.
LEMMA SharesOfWhole ==
    ASSUME NEW g \in Nat, NEW l \in Nat, g + l # 0, NEW h \in Nat
    PROVE  h - ((g * h) \div (g + l) + (l * h) \div (g + l)) \in {0, 1}
<1>. DEFINE t == g + l a == g * h b == l * h p == a \div t q == b \div t
<1>1. t \in Nat \ {0} /\ a \in Nat /\ b \in Nat
  <2>1. \A x, y \in Nat : x * y \in Nat OBVIOUS
  <2>. QED BY <2>1
<1>2. a + b = t * h OBVIOUS
<1>. HIDE DEF t, a, b
<1>3. p \in Int /\ q \in Int /\ t * p <= a /\ a < t * (p + 1) /\ t * q <= b /\ b < t * (q + 1) BY <1>1
<1>. HIDE DEF p, q
<1>4. t * (p + q) = t * p + t * q /\ t * (p + q + 2) = t * (p + 1) + t * (q + 1) BY <1>1, <1>3
<1>5. t * p \in Int /\ t * q \in Int /\ t * (p + 1) \in Int /\ t * (q + 1) \in Int /\ t * h \in Int BY <1>1, <1>3
<1>6. t * (p + q) <= t * h /\ t * h < t * (p + q + 2) BY <1>1, <1>2, <1>3, <1>4, <1>5
<1>7. ASSUME NEW x \in Int, NEW y \in Int, x <= y PROVE t * x <= t * y
  <2>1. x * t <= y * t /\ x * t = t * x /\ y * t = t * y BY <1>1, <1>7, ProductsGrow
  <2>. QED BY <2>1
<1>8. p + q <= h
  <2>1. SUFFICES ASSUME h + 1 <= p + q PROVE FALSE BY <1>3
  <2>2. t * (h + 1) <= t * (p + q) BY <1>3, <1>7, <2>1
  <2>3. t * (h + 1) = t * h + t BY <1>1
  <2>4. t * (p + q) \in Int /\ t * (h + 1) \in Int BY <1>1, <1>3
  <2>. QED BY <1>1, <1>5, <1>6, <2>2, <2>3, <2>4
<1>9. h < p + q + 2
  <2>1. SUFFICES ASSUME p + q + 2 <= h PROVE FALSE BY <1>3
  <2>2. t * (p + q + 2) <= t * h BY <1>3, <1>7, <2>1
  <2>3. t * (p + q + 2) \in Int BY <1>1, <1>3
  <2>. QED BY <1>5, <1>6, <2>2, <2>3
<1>10. h - (p + q) \in {0, 1} BY <1>3, <1>8, <1>9
<1>. QED BY <1>10 DEF p, q, a, b, t

\* An index and the one of the mirrored market make a hundred, but for what both round away.
LEMMA StrengthOfMirror ==
    ASSUME NEW a \in AvgPair, NEW b \in AvgPair, b.gain = a.loss, b.loss = a.gain, a # [gain |-> 0, loss |-> 0]
    PROVE  100 * Insight!One - (Insight!Strength(a) + Insight!Strength(b)) \in {0, 1}
<1>. DEFINE top == 100 * Insight!One g == a.gain l == a.loss
<1>1. top \in Nat BY DEF Insight!One
<1>2. g \in Nat /\ l \in Nat /\ a = [gain |-> g, loss |-> l] BY DEF AvgPair
<1>3. Insight!Strength(a) = (IF l = 0 THEN top ELSE (top * g) \div (g + l)) BY DEF Insight!Strength
<1>4. Insight!Strength(b) = (IF g = 0 THEN top ELSE (top * l) \div (l + g)) BY DEF Insight!Strength
<1>5. g # 0 \/ l # 0 BY <1>2
<1>. HIDE DEF top, g, l
<1>6. top * g = g * top /\ top * l = l * top /\ l + g = g + l BY <1>1, <1>2
<1>7. top - ((g * top) \div (g + l) + (l * top) \div (g + l)) \in {0, 1}
  <2>1. g \in Nat /\ l \in Nat /\ g + l # 0 BY <1>2, <1>5
  <2>. QED BY ONLY <1>1, <2>1, SharesOfWhole
<1>8. CASE l = 0
  <2>1. (0 * top) \div g = 0 BY <1>1, <1>2, <1>5, <1>8
  <2>2. l + g = g /\ (top * l) = 0 BY <1>1, <1>2, <1>8
  <2>3. 0 \div g = 0 BY <1>2, <1>5, <1>8
  <2>. QED BY <1>1, <1>3, <1>4, <1>5, <1>8, <2>2, <2>3 DEF top
<1>9. CASE g = 0
  <2>2. g + l = l /\ (top * g) = 0 BY <1>1, <1>2, <1>9
  <2>3. 0 \div l = 0 BY <1>2, <1>5, <1>9
  <2>. QED BY <1>1, <1>3, <1>4, <1>5, <1>9, <2>2, <2>3 DEF top
<1>10. CASE l # 0 /\ g # 0 BY <1>3, <1>4, <1>6, <1>7, <1>10 DEF top
<1>. QED BY <1>8, <1>9, <1>10

\* The bands of some closes are numbers.
LEMMA BandOK == ASSUME NEW s \in Seq(Int) PROVE Insight!Band(s) \in [sum : Int, spread : Int]
<1>. DEFINE squares == [i \in DOMAIN s |-> s[i] * s[i]]
<1>1. ASSUME NEW r, Len(r) \in Nat, \A i \in 1..Len(r) : r[i] \in Int PROVE Insight!TotalOf(r) \in Int
  <2>1. Insight!TotalOf(r) = F!TotalOf(r) BY DEF Insight!TotalOf, F!TotalOf
  <2>. QED BY <1>1, <2>1, TotalIsNumber
<1>2. Len(s) \in Nat /\ DOMAIN s = 1..Len(s) /\ \A i \in 1..Len(s) : s[i] \in Int OBVIOUS
<1>3. Len(squares) = Len(s) /\ \A i \in 1..Len(s) : squares[i] \in Int
  <2>1. \A x \in Int : x * x \in Int OBVIOUS
  <2>2. \A i \in 1..Len(s) : squares[i] = s[i] * s[i] BY <1>2
  <2>3. squares = [i \in 1..Len(s) |-> s[i] * s[i]] BY <1>2
  <2>. QED BY <1>2, <2>1, <2>2, <2>3
<1>. HIDE DEF squares
<1>4. Insight!TotalOf(s) \in Int /\ Insight!TotalOf(squares) \in Int BY <1>1, <1>2, <1>3
<1>5. ASSUME NEW x \in Int, NEW y \in Int, NEW k \in Nat PROVE [sum |-> x, spread |-> k * y - x * x] \in [sum : Int, spread : Int]
  <2>1. k * y \in Int /\ x * x \in Int OBVIOUS
  <2>2. k * y - x * x \in Int BY <2>1
  <2>. QED BY <2>2
<1>6. Insight!Band(s) = [sum |-> Insight!TotalOf(s), spread |-> Len(s) * Insight!TotalOf(squares) - Insight!TotalOf(s) * Insight!TotalOf(s)]
  BY DEF Insight!Band, squares
<1>. QED BY <1>2, <1>4, <1>5, <1>6

\* The index and the bands of a close are what the closes up to there have, the index is from 0 to 100, and of a
\* mirrored market it is the rest to 100, whatever the closes and the period.
THEOREM IndicatorsAgreeHolds ==
    ASSUME Insight!ValuesAssumption, Insight!BandAssumption, Insight!Drawn("closes") => Insight!CloseData(shown)
    PROVE  Insight!IndicatorsAgree
<1>. DEFINE s == shown.closes n == shown.period
            rsi == Insight!ComputeRSISeries(s, n)
            bands == Insight!ComputeBollingerSeries(s, n)
            mirror == [i \in DOMAIN s |-> 10 - s[i]]
            Prefix(i) == SubSeq(s, 1, i)
<1>1. SUFFICES ASSUME Insight!Drawn("closes")
      PROVE  /\ (rsi = <<>>) = (Insight!ComputeRSI(s, n) = Nothing) /\ (bands = <<>>) = (Insight!ComputeBollinger(s, n) = Nothing)
             /\ \A i \in DOMAIN rsi : /\ rsi[i] = Insight!Either(Insight!ComputeRSI(Prefix(i), n), Garbage)
                                      /\ (rsi[i] # Garbage => rsi[i] \in 0..(100 * Insight!One))
             /\ \A i \in DOMAIN bands : bands[i] = Insight!Either(Insight!ComputeBollinger(Prefix(i), n), Garbage)
             /\ rsi # <<>> /\ (\E i \in 2..Len(s) : s[i] # s[i - 1]) /\ Insight!Averages(s, n)[Len(s) - n] # [gain |-> 0, loss |-> 0] =>
                   100 * Insight!One - (Insight!ComputeRSI(s, n) + Insight!ComputeRSI(mirror, n)) \in {0, 1}
  BY DEF Insight!IndicatorsAgree
<1>2. s \in Seq(Int) /\ n \in Nat \ {0} BY <1>1 DEF Insight!CloseData
<1>. HIDE DEF s, n
<1>3. Len(s) \in Nat /\ DOMAIN s = 1..Len(s) BY <1>2
<1>4. ASSUME NEW i \in 1..Len(s) PROVE Prefix(i) \in Seq(Int) /\ Len(Prefix(i)) = i
  <2>1. i \in Nat /\ i <= Len(s) BY <1>3
  <2>. QED BY <1>2, <2>1
<1>5. ASSUME NEW i \in (n + 1)..Len(s)
      PROVE  Insight!Averages(s, n)[i - n] \in AvgPair
  <2>1. Len(s) > n /\ i - n \in 1..(Len(s) - n) /\ n + (i - n) = i BY <1>2, <1>3
  <2>2. PICK f \in [(n + 1)..Len(s) -> AvgPair] : Insight!Averages(s, n) = [k \in 1..(Len(s) - n) |-> f[n + k]]
    BY <1>2, <2>1, AveragesOf
  <2>. QED BY <2>1, <2>2
<1>6. \A v \in 0..(100 * Insight!One) : v # Nothing /\ v # Garbage BY DEF Insight!ValuesAssumption, Insight!One
<1>7. ASSUME Len(s) < n + 1 PROVE rsi = <<>> /\ Insight!ComputeRSI(s, n) = Nothing
  BY <1>7 DEF Insight!ComputeRSISeries, Insight!ComputeRSI
<1>8. ASSUME ~(Len(s) < n + 1)
      PROVE  /\ rsi = [i \in 1..Len(s) |-> IF i <= n THEN Garbage ELSE Insight!Strength(Insight!Averages(s, n)[i - n])]
             /\ Insight!ComputeRSI(s, n) = Insight!Strength(Insight!Averages(s, n)[Len(s) - n])
             /\ Insight!ComputeRSI(s, n) \in 0..(100 * Insight!One) /\ rsi # <<>>
  <2>1. /\ rsi = [i \in 1..Len(s) |-> IF i <= n THEN Garbage ELSE Insight!Strength(Insight!Averages(s, n)[i - n])]
        /\ Insight!ComputeRSI(s, n) = Insight!Strength(Insight!Averages(s, n)[Len(s) - n])
    BY <1>3, <1>8 DEF Insight!ComputeRSISeries, Insight!ComputeRSI
  <2>2. Len(s) \in (n + 1)..Len(s) /\ 1 \in 1..Len(s) BY <1>2, <1>3, <1>8
  <2>3. Insight!Averages(s, n)[Len(s) - n] \in AvgPair BY <1>5, <2>2
  <2>4. 1 \in DOMAIN rsi BY <2>1, <2>2
  <2>5. rsi # <<>> BY <2>4
  <2>. HIDE DEF rsi
  <2>. QED BY <2>1, <2>3, <2>5, StrengthOK
<1>9. ASSUME NEW i \in DOMAIN rsi
      PROVE  /\ rsi[i] = Insight!Either(Insight!ComputeRSI(Prefix(i), n), Garbage)
             /\ (rsi[i] # Garbage => rsi[i] \in 0..(100 * Insight!One))
  <2>1. ~(Len(s) < n + 1)
    <3>1. DOMAIN <<>> = {} OBVIOUS
    <3>. QED BY <1>7, <1>9, <3>1
  <2>2. i \in 1..Len(s) /\ rsi[i] = IF i <= n THEN Garbage ELSE Insight!Strength(Insight!Averages(s, n)[i - n])
    BY <1>8, <1>9, <2>1
  <2>3. CASE i <= n
    <3>1. Len(Prefix(i)) < n + 1 BY <1>2, <1>3, <1>4, <2>2, <2>3
    <3>2. Insight!ComputeRSI(Prefix(i), n) = Nothing BY <3>1 DEF Insight!ComputeRSI
    <3>. QED BY <2>2, <2>3, <3>2 DEF Insight!Either
  <2>4. CASE ~(i <= n)
    <3>1. i \in (n + 1)..Len(s) BY <1>2, <1>3, <2>2, <2>4
    <3>2. Len(Prefix(i)) = i /\ ~(i < n + 1) BY <1>2, <1>3, <1>4, <2>2, <2>4
    <3>3. Insight!ComputeRSI(Prefix(i), n) = Insight!Strength(Insight!Averages(Prefix(i), n)[i - n]) BY <3>2 DEF Insight!ComputeRSI
    <3>4. Insight!Averages(Prefix(i), n)[i - n] = Insight!Averages(s, n)[i - n] BY <1>2, <3>1, AveragesOfPrefix
    <3>5. Insight!Averages(s, n)[i - n] \in AvgPair BY <1>5, <3>1
    <3>6. Insight!Strength(Insight!Averages(s, n)[i - n]) \in 0..(100 * Insight!One) BY <3>5, StrengthOK
    <3>7. rsi[i] = Insight!ComputeRSI(Prefix(i), n) /\ rsi[i] \in 0..(100 * Insight!One) BY <2>2, <2>4, <3>3, <3>4, <3>6
    <3>8. rsi[i] # Nothing BY <1>6, <3>7
    <3>. HIDE DEF rsi
    <3>. QED BY <3>7, <3>8 DEF Insight!Either
  <2>. QED BY <2>3, <2>4
<1>10. ASSUME NEW q \in Seq(Int) PROVE Insight!Band(q) # Nothing
  BY BandOK DEF Insight!BandAssumption
<1>11. ASSUME NEW i \in n..Len(s) PROVE SubSeq(s, i - n + 1, i) \in Seq(Int)
  <2>1. i - n + 1 \in 1..Len(s) /\ i \in 1..Len(s) BY <1>2, <1>3
  <2>. QED BY <1>2, <2>1
<1>12. ASSUME Len(s) < n PROVE bands = <<>> /\ Insight!ComputeBollinger(s, n) = Nothing
  BY <1>12 DEF Insight!ComputeBollingerSeries, Insight!ComputeBollinger
<1>13. ASSUME ~(Len(s) < n)
       PROVE  /\ bands = [i \in 1..Len(s) |-> IF i < n THEN Garbage ELSE Insight!Band(SubSeq(s, i - n + 1, i))]
              /\ Insight!ComputeBollinger(s, n) # Nothing /\ bands # <<>>
  <2>1. /\ bands = [i \in 1..Len(s) |-> IF i < n THEN Garbage ELSE Insight!Band(SubSeq(s, i - n + 1, i))]
        /\ Insight!ComputeBollinger(s, n) = Insight!Band(SubSeq(s, Len(s) - n + 1, Len(s)))
    BY <1>3, <1>13 DEF Insight!ComputeBollingerSeries, Insight!ComputeBollinger
  <2>2. Len(s) \in n..Len(s) /\ 1 \in 1..Len(s) BY <1>2, <1>3, <1>13
  <2>3. Insight!ComputeBollinger(s, n) # Nothing BY <1>10, <1>11, <2>1, <2>2
  <2>4. 1 \in DOMAIN bands BY <2>1, <2>2
  <2>5. bands # <<>> BY <2>4
  <2>. QED BY <2>1, <2>3, <2>5
<1>14. ASSUME NEW i \in DOMAIN bands
       PROVE  bands[i] = Insight!Either(Insight!ComputeBollinger(Prefix(i), n), Garbage)
  <2>1. ~(Len(s) < n)
    <3>1. DOMAIN <<>> = {} OBVIOUS
    <3>. QED BY <1>12, <1>14, <3>1
  <2>2. i \in 1..Len(s) /\ bands[i] = IF i < n THEN Garbage ELSE Insight!Band(SubSeq(s, i - n + 1, i))
    BY <1>13, <1>14, <2>1
  <2>3. CASE i < n
    <3>1. Insight!ComputeBollinger(Prefix(i), n) = Nothing BY <1>4, <2>2, <2>3 DEF Insight!ComputeBollinger
    <3>. QED BY <2>2, <2>3, <3>1 DEF Insight!Either
  <2>4. CASE ~(i < n)
    <3>1. i \in n..Len(s) /\ Len(Prefix(i)) = i BY <1>2, <1>3, <1>4, <2>2, <2>4
    <3>2. Insight!ComputeBollinger(Prefix(i), n) = Insight!Band(SubSeq(Prefix(i), i - n + 1, i)) BY <2>4, <3>1 DEF Insight!ComputeBollinger
    <3>3. SubSeq(Prefix(i), i - n + 1, i) = SubSeq(s, i - n + 1, i)
      <4>1. i \in Nat /\ i <= Len(s) /\ n \in Nat \ {0} /\ i >= n BY <1>2, <1>3, <3>1
      <4>. QED BY <1>2, <4>1
    <3>4. SubSeq(s, i - n + 1, i) \in Seq(Int) BY <1>11, <3>1
    <3>. QED BY <1>10, <2>2, <2>4, <3>2, <3>3, <3>4 DEF Insight!Either
  <2>. QED BY <2>3, <2>4
<1>15. ASSUME rsi # <<>>, Insight!Averages(s, n)[Len(s) - n] # [gain |-> 0, loss |-> 0]
       PROVE  100 * Insight!One - (Insight!ComputeRSI(s, n) + Insight!ComputeRSI(mirror, n)) \in {0, 1}
  <2>1. ~(Len(s) < n + 1) BY <1>7, <1>15
  <2>2. mirror \in Seq(Int) /\ Len(mirror) = Len(s) /\ \A i \in 1..Len(s) : mirror[i] = 10 - s[i]
    <3>1. \A i \in 1..Len(s) : 10 - s[i] \in Int BY <1>2
    <3>. QED BY <1>3, <3>1
  <2>. HIDE DEF mirror
  <2>3. Len(s) > n BY <1>2, <1>3, <2>1
  <2>. DEFINE a == Insight!Averages(s, n)[Len(s) - n] b == Insight!Averages(mirror, n)[Len(s) - n]
  <2>4. a \in AvgPair /\ b \in AvgPair /\ b.gain = a.loss /\ b.loss = a.gain BY <1>2, <2>2, <2>3, AveragesOfMirror
  <2>5. Insight!ComputeRSI(s, n) = Insight!Strength(a) /\ Insight!ComputeRSI(mirror, n) = Insight!Strength(b)
    BY <2>1, <2>2 DEF Insight!ComputeRSI
  <2>6. a # [gain |-> 0, loss |-> 0] BY <1>15
  <2>. HIDE DEF a, b
  <2>. QED BY <2>4, <2>5, <2>6, StrengthOfMirror
<1>. HIDE DEF rsi, bands, mirror, Prefix
<1>16. (rsi = <<>>) = (Insight!ComputeRSI(s, n) = Nothing)
  <2>1. CASE Len(s) < n + 1 BY <1>7, <2>1
  <2>2. CASE ~(Len(s) < n + 1) BY <1>6, <1>8, <2>2
  <2>. QED BY <2>1, <2>2
<1>17. (bands = <<>>) = (Insight!ComputeBollinger(s, n) = Nothing) BY <1>12, <1>13
<1>. QED BY <1>9, <1>14, <1>15, <1>16, <1>17
=============================================================================
