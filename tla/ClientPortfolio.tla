---------------------------- MODULE ClientPortfolio ----------------------------
(* The portfolio as the tabs of the mobile app see it: the query cache over  *)
(* the active snapshot and its reports, the handlers that change the         *)
(* portfolio (assets, update-portfolio, quick-update), and Diagnose, which    *)
(* chooses a screen from the cached list; the screens are ClientReport. The   *)
(* server is reduced to what PortfolioLineage and ReportPipeline promise.    *)
EXTENDS Integers, FiniteSets

CONSTANTS
    Commands, Refreshes, Executions, \* presses: of update-portfolio, Refresh, quick-update
    Scans,          \* reviews confirmed on the review screen
    MaxPresses,     \* bound on the presses of these and of Diagnose
    MaxTroubles     \* bound on failed requests and jobs, and on lapses

Jobs == Commands \cup Refreshes \cup Executions \cup Scans
ASSUME JobAssumption ==
    /\ Commands \cap Refreshes = {} /\ Executions \cap Scans = {}
    /\ (Commands \cup Refreshes) \cap (Executions \cup Scans) = {}
ASSUME BoundAssumption == IsFiniteSet(Jobs) /\ {MaxPresses, MaxTroubles} \subseteq Nat

VARIABLES
    active,     \* server: the active snapshot; they are numbered as they come
    tiers,      \* server: the tier the snapshots' calculations are listed with (paid as
                \* soon as its status is set), and the status of it
    entitled,   \* server: the entitlement is active
    job,        \* handlers that change the portfolio, and what they made
    rows,       \* the query of the report list, reduced to the active calculation,
                \* and which one was active when a request under way began
    portfolio,  \* the query of the active portfolio
    known,      \* the entitlement query says active
    diagnose,   \* handleDiagnose
    screen,     \* the screen in front
    presses, troubles

Snapshots == 1..1 + MaxPresses
None == 0
Tiers == [tier : {"none", "preview", "paid"}, status : {"none", "processing", "ready", "failed"}]
Tier(tier, status) == [tier |-> tier, status |-> status]
NoTier == Tier("none", "none")
Row == [s : Snapshots, is : Tiers]
NoDiagnose == [pc |-> "idle", s |-> None]

TypeOK ==
    /\ active \in Snapshots
    /\ tiers \in [Snapshots -> Tiers]
    /\ {entitled, known} \subseteq BOOLEAN
    /\ job \in [Jobs -> [pc : {"unused", "sent", "applied", "portfolio", "reports", "done", "failed"},
                         made : Snapshots \cup {None}, mounted : BOOLEAN]]
    /\ rows \in [data : Row, flight : Snapshots \cup {None}]
    /\ portfolio \in [data : Snapshots, flight : Snapshots \cup {None}]
    /\ diagnose \in [pc : {"idle", "paid", "active preview", "active paid"}, s : Snapshots \cup {None}]
    /\ screen \in {"tabs", "quick", "preview", "paid", "report"}
    /\ presses \in 0..MaxPresses /\ troubles \in 0..MaxTroubles

Trouble == troubles < MaxTroubles /\ troubles' = troubles + 1
Press == presses < MaxPresses /\ presses' = presses + 1
RowOf(s) == [s |-> s, is |-> tiers[s]]

Init ==
    /\ active = 1
    /\ tiers = [s \in Snapshots |-> IF s = 1 THEN Tier("preview", "ready") ELSE NoTier]
    /\ entitled = FALSE /\ known = FALSE
    /\ job = [j \in Jobs |-> [pc |-> "unused", made |-> None, mounted |-> FALSE]]
    /\ rows = [data |-> RowOf(1), flight |-> None]
    /\ portfolio = [data |-> 1, flight |-> None]
    /\ diagnose = NoDiagnose
    /\ screen = "tabs"
    /\ presses = 0 /\ troubles = 0

server == <<active, tiers, entitled>>
queries == <<rows, portfolio, known>>
vars == <<server, job, queries, diagnose, screen, presses, troubles>>

----------------------------------------------------------------------------
(* The query cache                                                         *)

\* Mutated form: a request that is under way serves the new one as well.
JoinedFlight(flight) == IF flight = None THEN active ELSE flight

\* refetch and invalidateQueries ask again; the answer of a request under way
\* is dropped.
NewFlight(flight) == active
Asked(query) == [query EXCEPT !.flight = NewFlight(query.flight)]

\* useFocusEffect of the assets and me tabs.
Focus ==
    /\ screen = "tabs"
    /\ rows' = Asked(rows) /\ portfolio' = Asked(portfolio)
    /\ <<rows, portfolio>>' # <<rows, portfolio>>
    /\ UNCHANGED <<server, job, known, diagnose, screen, troubles, presses>>

\* An answer tells of any time between the request and now; after a failure
\* the old data stays.
RowsAnswer ==
    /\ rows.flight # None
    /\ \E s \in {rows.flight, active} : rows' = [data |-> RowOf(s), flight |-> None]
    /\ UNCHANGED <<server, job, portfolio, known, diagnose, screen, troubles, presses>>
PortfolioAnswer ==
    /\ portfolio.flight # None
    /\ \E s \in {portfolio.flight, active} : portfolio' = [data |-> s, flight |-> None]
    /\ UNCHANGED <<server, job, rows, known, diagnose, screen, troubles, presses>>
QueryFails ==
    /\ Trouble
    /\ \/ rows.flight # None /\ rows' = [rows EXCEPT !.flight = None] /\ UNCHANGED portfolio
       \/ portfolio.flight # None /\ portfolio' = [portfolio EXCEPT !.flight = None] /\ UNCHANGED rows
    /\ UNCHANGED <<server, job, known, diagnose, screen, presses>>

----------------------------------------------------------------------------
(* Handlers that change the portfolio                                      *)

Busy(kind) == \E j \in kind : job[j].mounted /\ job[j].pc \notin {"unused", "done", "failed"}

\* handleCommand and handleRefreshHoldings are guarded by a state of their
\* screen, the two handlers of quick-update by nothing.
Send(j) ==
    /\ job[j].pc = "unused" /\ Press
    /\ \/ j \in Commands /\ ~Busy(Commands) /\ screen = "tabs"
       \/ j \in Refreshes /\ ~Busy(Refreshes) /\ screen = "tabs"
       \/ j \in Executions /\ screen = "quick"
       \/ j \in Scans /\ screen = "tabs"
    /\ job' = [job EXCEPT ![j].pc = "sent", ![j].mounted = TRUE]
    /\ UNCHANGED <<server, queries, diagnose, screen, troubles>>

\* update-portfolio is closed while its command is under way: a new one may
\* be opened.
CloseUpdate ==
    /\ Busy(Commands)
    /\ job' = [j \in Jobs |-> IF j \in Commands THEN [job[j] EXCEPT !.mounted = FALSE] ELSE job[j]]
    /\ UNCHANGED <<server, queries, diagnose, screen, troubles, presses>>

OpenQuick ==
    /\ screen = "tabs" /\ known
    /\ presses < MaxPresses
    /\ screen' = "quick"
    /\ UNCHANGED <<server, job, queries, diagnose, troubles, presses>>

\* The server makes a snapshot, or the request is refused, ignored or lost.
Apply(j) ==
    /\ job[j].pc = "sent"
    /\ \/ /\ active' = active + 1
          /\ job' = [job EXCEPT ![j].pc = "applied", ![j].made = active + 1]
          /\ tiers' = IF j \in Scans THEN [tiers EXCEPT ![active + 1] = Tier("preview", "processing")] ELSE tiers
          /\ UNCHANGED troubles
       \/ job' = [job EXCEPT ![j].pc = "failed"] /\ Trouble /\ UNCHANGED <<active, tiers>>
    /\ UNCHANGED <<entitled, queries, diagnose, screen, presses>>

\* Mutated form: a failure is written to the cache like an answer.
AnsweredOrFailed(j) == job[j].pc \in {"applied", "failed"}

Answered(j) == job[j].pc = "applied"

\* The answer. handleCommand invalidates the portfolio, then the list, and
\* awaits each; handleRefreshHoldings sets the portfolio and awaits the list;
\* quick-update goes to the insights and invalidates nothing; nor does the poll
\* that tells of a scan.
Answer(j) ==
    /\ Answered(j)
    /\ job' = [job EXCEPT ![j].pc = CASE j \in Commands -> "portfolio"
                                      [] j \in Refreshes -> "reports"
                                      [] OTHER -> "done"]
    /\ portfolio' = CASE j \in Commands -> Asked(portfolio)
                      [] j \in Refreshes -> [data |-> job[j].made, flight |-> portfolio.flight]
                      [] OTHER -> portfolio
    /\ rows' = IF j \in Refreshes THEN Asked(rows) ELSE rows
    /\ \/ screen' = IF j \in Executions THEN "tabs" ELSE screen
       \/ j \in Scans /\ screen' = IF known THEN "paid" ELSE "preview"
    /\ UNCHANGED <<server, known, diagnose, troubles, presses>>

\* Mutated form: the handler waits until it sees its own snapshot.
AwaitEndsShown(j) ==
    /\ \/ /\ job[j].pc = "portfolio" /\ portfolio.flight = None /\ portfolio.data >= job[j].made
          /\ job' = [job EXCEPT ![j].pc = "reports"]
          /\ rows' = Asked(rows)
       \/ /\ job[j].pc = "reports" /\ rows.flight = None /\ rows.data.s >= job[j].made
          /\ job' = [job EXCEPT ![j].pc = "done"]
          /\ UNCHANGED rows
    /\ UNCHANGED <<server, portfolio, known, diagnose, screen, troubles, presses>>

\* An await of invalidateQueries also ends when another request replaces its
\* own, so it may end at any time.
AwaitEnds(j) ==
    /\ \/ /\ job[j].pc = "portfolio"
          /\ job' = [job EXCEPT ![j].pc = "reports"]
          /\ rows' = Asked(rows)
       \/ /\ job[j].pc = "reports"
          /\ job' = [job EXCEPT ![j].pc = "done"]
          /\ UNCHANGED rows
    /\ UNCHANGED <<server, portfolio, known, diagnose, screen, troubles, presses>>

----------------------------------------------------------------------------
(* Diagnose                                                                *)

\* handleReportPaid and handleReportActive: a job that runs or has ended well
\* is not started again.
Starts(is, tier) ==
    IF (is.tier = tier /\ is.status # "failed") \/ (is.tier = "paid" /\ tier = "preview") THEN is
    ELSE Tier(tier, "processing")
RequestPaid(s) == entitled /\ tiers' = [tiers EXCEPT ![s] = Starts(@, "paid")]
RequestPreview(s) == tiers' = [tiers EXCEPT ![s] = Starts(@, "preview")]

Await(pc, s) == diagnose' = [pc |-> pc, s |-> s] /\ UNCHANGED screen

\* Mutated form: a status of processing is taken for the paid report's.
ChoosePaidUnasked(row) ==
    CASE row.is.status = "processing" -> screen' = "paid" /\ UNCHANGED diagnose
      [] row.is = Tier("paid", "ready") -> screen' = "report" /\ UNCHANGED diagnose
      [] OTHER -> Await("active paid", None)

ChoosePaid(row) ==
    CASE row.is = Tier("paid", "ready") -> screen' = "report" /\ UNCHANGED diagnose
      [] row.is = Tier("paid", "processing") -> screen' = "paid" /\ UNCHANGED diagnose
      [] row.is.tier = "none" -> Await("active paid", None)
      [] OTHER -> Await("paid", row.s)

\* handleDiagnose chooses by the list as it is shown. A calculation is listed
\* as paid as soon as its paid status is set.
Diagnose ==
    /\ screen = "tabs" /\ diagnose.pc = "idle" /\ Press
    /\ IF known THEN ChoosePaid(rows.data)
       ELSE IF rows.data.is.tier = "preview" /\ rows.data.is.status # "failed"
       THEN screen' = "preview" /\ UNCHANGED diagnose
       ELSE Await("active preview", None)
    /\ UNCHANGED <<server, job, queries, troubles>>

\* The answer opens its screen over whatever is in front by now; a refusal or
\* a failure shows an alert.
DiagnoseAnswer ==
    /\ diagnose.pc # "idle"
    /\ diagnose' = NoDiagnose
    /\ \/ /\ CASE diagnose.pc = "paid" -> RequestPaid(diagnose.s) /\ screen' = "paid"
               [] diagnose.pc = "active paid" -> RequestPaid(active) /\ screen' = "paid"
               [] diagnose.pc = "active preview" -> RequestPreview(active) /\ screen' = "preview"
          /\ UNCHANGED troubles
       \/ ~entitled /\ diagnose.pc # "active preview" /\ UNCHANGED <<tiers, screen, troubles>>
       \/ Trouble /\ UNCHANGED <<tiers, screen>>
    /\ UNCHANGED <<active, entitled, job, queries, presses>>

----------------------------------------------------------------------------
(* The report jobs and the subscription                                    *)

JobEnds(s) ==
    /\ tiers[s].status = "processing"
    /\ \/ tiers' = [tiers EXCEPT ![s].status = "ready"] /\ UNCHANGED troubles
       \/ tiers' = [tiers EXCEPT ![s].status = "failed"] /\ Trouble
    /\ UNCHANGED <<active, entitled, job, queries, diagnose, screen, presses>>

Lapse ==
    /\ entitled /\ Trouble
    /\ entitled' = FALSE
    /\ UNCHANGED <<active, tiers, job, queries, diagnose, screen, presses>>

\* processing-paid asks for the report it waits for (ClientReport).
AskPaid ==
    /\ screen = "paid"
    /\ \E s \in 1..active : tiers[s].tier # "none" /\ RequestPaid(s)
    /\ tiers' # tiers
    /\ UNCHANGED <<active, entitled, job, queries, diagnose, screen, troubles, presses>>

Leave ==
    /\ screen # "tabs"
    /\ screen' = "tabs"
    /\ UNCHANGED <<server, job, queries, diagnose, troubles, presses>>

\* The paywall (ClientStore).
Buy ==
    /\ screen = "preview" /\ ~entitled
    /\ entitled' = TRUE /\ known' = TRUE
    /\ screen' = "paid"
    /\ UNCHANGED <<active, tiers, job, rows, portfolio, diagnose, troubles, presses>>

\* The entitlement query is asked again by a screen that mounts.
RefreshEntitlement ==
    /\ known # entitled
    /\ known' = entitled
    /\ UNCHANGED <<server, job, rows, portfolio, diagnose, screen, troubles, presses>>

Next ==
    \/ Focus \/ RowsAnswer \/ PortfolioAnswer \/ QueryFails
    \/ CloseUpdate \/ OpenQuick \/ Diagnose \/ DiagnoseAnswer \/ AskPaid \/ Leave \/ Buy \/ Lapse
    \/ RefreshEntitlement
    \/ \E j \in Jobs : Send(j) \/ Apply(j) \/ Answer(j) \/ AwaitEnds(j)
    \/ \E s \in Snapshots : JobEnds(s)

Spec == Init /\ [][Next]_vars

\* Requests are answered, and the awaits on the answers end.
FairSpec ==
    /\ Spec
    /\ WF_vars(RowsAnswer) /\ WF_vars(PortfolioAnswer)
    /\ \A j \in Jobs : WF_vars(Apply(j)) /\ WF_vars(Answer(j)) /\ WF_vars(AwaitEnds(j))

----------------------------------------------------------------------------
(* Properties                                                              *)

(* When a command or a refresh has ended, the list shown is that of its      *)
(* snapshot or of a later one, or a request that began after it is under way: *)
(* no answer from before the change stays on the screen (invalidateQueries   *)
(* in handleCommand and handleRefreshHoldings, while the tabs refetch at any *)
(* time). So is the portfolio after a command, except when a refresh has set *)
(* the one it made, with setQueryData, over what was newer.                  *)
ListsCatchUp ==
    \A j \in Commands \cup Refreshes : job[j].pc = "done" /\ troubles = 0 =>
        /\ rows.data.s >= job[j].made \/ rows.flight >= job[j].made
        /\ \/ j \in Refreshes \/ \E r \in Refreshes : job[r].pc \in {"reports", "done"}
           \/ portfolio.data >= job[j].made \/ portfolio.flight >= job[j].made

(* The buttons of update-portfolio and of the assets tab come back: the      *)
(* awaits of handleCommand and handleRefreshHoldings end whatever becomes of *)
(* the requests they asked for, refused, replaced by a later one, or         *)
(* overwritten.                                                              *)
HandlersEnd ==
    \A j \in Commands \cup Refreshes : job[j].pc = "sent" ~> job[j].pc \in {"done", "failed"}

(* Diagnose never opens processing-paid on a report nobody may have: it has  *)
(* been asked for, by a user who was entitled then, whatever the list and    *)
(* the entitlement it chose by have become since.                            *)
PaidIsRequested ==
    [][<<job, entitled>>' = <<job, entitled>> /\ screen' = "paid" /\ screen' # screen
          => \E s \in Snapshots : tiers'[s].tier = "paid"]_vars

(* The lists, and the type of what they are computed from.                   *)
ListsAreCurrent == TypeOK /\ ListsCatchUp
=============================================================================
