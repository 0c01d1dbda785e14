-------------------------- MODULE PortfolioLineage --------------------------
(***************************************************************************)
(* The portfolio of one user as a line of snapshots: scans made by         *)
(* processNormalization (workflow_processing.go), deltas made by           *)
(* applyDeltaToActive and refreshes made by refreshActivePortfolio         *)
(* (delta_apply.go), and the insights whose execution makes a delta        *)
(* (handlers_insights.go, insight_execute.go).                             *)
(*                                                                         *)
(* A delta or a refresh reads the active snapshot, spends seconds on       *)
(* prices, and writes its own snapshot in one transaction that does not    *)
(* look at the active snapshot again. The two halves are separate steps.   *)
(* Holdings are the trades applied since a scan; amounts and prices do not *)
(* matter to the properties.                                               *)
(***************************************************************************)
EXTENDS Naturals, Sequences, FiniteSets

CONSTANTS
    Scans,        \* normalisation jobs that reach their transaction
    Slips,        \* trade slip jobs that reach applyDeltaToActive
    Commands,     \* asset command requests with a trade in them
    Refreshes,    \* portfolio refresh requests
    Executions,   \* requests to execute an insight
    Dismissals,   \* requests to dismiss an insight
    Insights,
    Concurrency,  \* requests and jobs the server works on at the same time
    MaxFaults     \* requests that fail or die half-way

Trades == Slips \cup Commands \cup Executions
Requests == Scans \cup Trades \cup Refreshes \cup Dismissals

ASSUME RequestsAssumption ==
    IsFiniteSet(Requests) /\ Refreshes \cap Trades = {} /\ Executions \cap (Slips \cup Commands) = {}

NoOne == 0
InsightStatuses == {"active", "executed", "dismissed", "expired"}
Points == {"new", "checked", "read", "committed", "done"}

VARIABLES
    snapshots,  \* PortfolioSnapshot rows, in the order they were committed
    active,     \* User.ActivePortfolioSnapshot, 0 when it is null
    ledger,     \* PortfolioTransaction rows
    insight,    \* Insight.Status
    at,         \* how far a request got
    read,       \* the snapshot it read, or 0
    about,      \* the insight a request is about
    faults

vars == <<snapshots, active, ledger, insight, at, read, about, faults>>

SnapshotRows ==
    [kind : {"scan", "delta", "refresh"}, status : {"active", "archived"},
     replacedBy : Nat, source : Scans \cup Slips, scan : Nat, trades : SUBSET Trades]

TypeOK ==
    /\ snapshots \in Seq(SnapshotRows)
    /\ active \in 0..Len(snapshots)
    /\ ledger \subseteq [trade : Trades, before : Nat, after : Nat]
    /\ insight \in [Insights -> InsightStatuses]
    /\ at \in [Requests -> Points]
    /\ read \in [Requests -> 0..Len(snapshots)]
    /\ about \in [Executions \cup Dismissals -> Insights]
    /\ faults \in Nat

Init ==
    /\ snapshots = << >>
    /\ active = 0
    /\ ledger = {}
    /\ insight = [i \in Insights |-> "active"]
    /\ at = [r \in Requests |-> "new"]
    /\ read = [r \in Requests |-> 0]
    /\ about \in [Executions \cup Dismissals -> Insights]
    /\ faults = 0

----------------------------------------------------------------------------
InProgress == {r \in Requests : at[r] \notin {"new", "done"}}

Begin(r) == at[r] = "new" /\ Cardinality(InProgress) < Concurrency
Goto(r, point) == at' = [at EXCEPT ![r] = point]

\* Mutated form: the replaced snapshot does not learn its successor.
ArchivedOnly(row, new) == [row EXCEPT !.status = "archived"]

\* Status and successor of the snapshot a new one replaces.
Archived(row, new) == [row EXCEPT !.status = "archived", !.replacedBy = new]

\* Mutated form: a refresh is stored without becoming active.
NextActiveButRefresh(new, kind) == IF kind = "refresh" THEN active ELSE new

\* The pointer moves to the new snapshot.
NextActive(new, kind) == new

\* Mutated forms: always inherited, and always the request's own.
SourceInherited(r, row) == row.source
SourceOwn(r, row) == r

\* SourceUploadBatchID: a trade slip's batch, or the one of the snapshot read.
SourceOf(r, row) == IF r \in Slips THEN r ELSE row.source

\* Mutated form: computed from the snapshot that is active at commit time.
HoldingsOnTop(r, row) ==
    IF r \in Trades THEN snapshots[active].trades \cup {r} ELSE snapshots[active].trades

\* Mutated form: a refresh starts from what was scanned.
HoldingsRescanned(r, row) == IF r \in Trades THEN row.trades \cup {r} ELSE {}

\* What the new snapshot holds.
HoldingsAfter(r, row) == IF r \in Trades THEN row.trades \cup {r} ELSE row.trades

\* The transaction that writes a snapshot derived from the one that was read.
Derive(r, kind) ==
    LET row == snapshots[read[r]]
        new == Len(snapshots) + 1
    IN  /\ snapshots' = Append([snapshots EXCEPT ![read[r]] = Archived(@, new)],
              [kind |-> kind, status |-> "active", replacedBy |-> NoOne,
               source |-> SourceOf(r, row), scan |-> row.scan, trades |-> HoldingsAfter(r, row)])
        /\ active' = NextActive(new, kind)

\* processNormalization: its transaction never looks at other snapshots.
Scan(r) ==
    /\ Begin(r)
    /\ snapshots' = Append(snapshots,
           [kind |-> "scan", status |-> "active", replacedBy |-> NoOne,
            source |-> r, scan |-> Len(snapshots) + 1, trades |-> {}])
    /\ active' = Len(snapshots) + 1
    /\ Goto(r, "done")
    /\ UNCHANGED <<ledger, insight, read, about, faults>>

\* The first half of applyDeltaToActive and refreshActivePortfolio.
ReadActive(r) ==
    /\ \/ r \in Slips \cup Commands \cup Refreshes /\ Begin(r)
       \/ r \in Executions /\ at[r] = "checked"
    /\ IF active = 0
       THEN Goto(r, "done") /\ UNCHANGED read
       ELSE Goto(r, "read") /\ read' = [read EXCEPT ![r] = active]
    /\ UNCHANGED <<snapshots, active, ledger, insight, about, faults>>

\* applyDeltaToActive, its transaction.
CommitDelta(r) ==
    /\ r \in Trades
    /\ at[r] = "read"
    /\ Derive(r, "delta")
    /\ ledger' = ledger \cup {[trade |-> r, before |-> read[r], after |-> Len(snapshots) + 1]}
    /\ Goto(r, IF r \in Executions THEN "committed" ELSE "done")
    /\ UNCHANGED <<insight, read, about, faults>>

\* refreshActivePortfolio, its transaction.
CommitRefresh(r) ==
    /\ r \in Refreshes
    /\ at[r] = "read"
    /\ Derive(r, "refresh")
    /\ Goto(r, "done")
    /\ UNCHANGED <<ledger, insight, read, about, faults>>

\* Mutated form: the status is not looked at.
AdmissibleAny(i) == TRUE

\* Only an active insight is executed or dismissed; any other is a conflict.
Admissible(i) == insight[i] = "active"

\* handleInsightExecute and handleInsightDismiss up to their status check.
CheckInsight(r) ==
    /\ r \in Executions \cup Dismissals
    /\ Begin(r)
    /\ Goto(r, IF Admissible(about[r]) THEN "checked" ELSE "done")
    /\ UNCHANGED <<snapshots, active, ledger, insight, read, about, faults>>

SetInsight(r, status) == insight' = [insight EXCEPT ![about[r]] = status]

\* handleInsightExecute: updateInsightStatus after the delta, whatever the
\* status has become ...
MarkExecuted(r) ==
    /\ at[r] = "committed"
    /\ SetInsight(r, "executed")
    /\ Goto(r, "done")
    /\ UNCHANGED <<snapshots, active, ledger, read, about, faults>>

\* ... and with method trade_slip instead of a delta, for trades on the books.
ExecuteBySlip(r) ==
    /\ r \in Executions
    /\ at[r] = "checked"
    /\ ledger # {}
    /\ SetInsight(r, "executed")
    /\ Goto(r, "done")
    /\ UNCHANGED <<snapshots, active, ledger, read, about, faults>>

Dismiss(r) ==
    /\ r \in Dismissals
    /\ at[r] = "checked"
    /\ SetInsight(r, "dismissed")
    /\ Goto(r, "done")
    /\ UNCHANGED <<snapshots, active, ledger, read, about, faults>>

\* processInsightsRefresh, for insights past expires_at.
Expire(i) ==
    /\ insight[i] = "active"
    /\ insight' = [insight EXCEPT ![i] = "expired"]
    /\ UNCHANGED <<snapshots, active, ledger, at, read, about, faults>>

\* A failed call, a cancelled request or a crash ends the request where it is.
Abort(r) ==
    /\ r \in InProgress
    /\ faults < MaxFaults
    /\ faults' = faults + 1
    /\ Goto(r, "done")
    /\ UNCHANGED <<snapshots, active, ledger, insight, read, about>>

Next ==
    \/ \E r \in Scans : Scan(r)
    \/ \E r \in Requests :
         \/ ReadActive(r) \/ CommitDelta(r) \/ CommitRefresh(r)
         \/ CheckInsight(r) \/ MarkExecuted(r) \/ ExecuteBySlip(r) \/ Dismiss(r)
         \/ Abort(r)
    \/ \E i \in Insights : Expire(i)

Spec == Init /\ [][Next]_vars

----------------------------------------------------------------------------
(***************************************************************************)
(* handlePortfolioActive, refreshes and deltas all work on the snapshot    *)
(* the user row points to: however requests overlap, it is never one that  *)
(* has been archived.                                                      *)
(***************************************************************************)
ActiveIsCurrent == active # 0 => snapshots[active].status = "active"

(***************************************************************************)
(* replaced_by_snapshot_id leads from every archived snapshot to a later   *)
(* one of the same scan: following it ends at a snapshot that is not       *)
(* archived, even when two requests replaced the same snapshot.            *)
(***************************************************************************)
ReplacementsLead ==
    \A n \in 1..Len(snapshots) : snapshots[n].status = "archived" =>
        /\ snapshots[n].replacedBy \in (n + 1)..Len(snapshots)
        /\ snapshots[snapshots[n].replacedBy].scan = snapshots[n].scan

(***************************************************************************)
(* A portfolio transaction explains the difference between the snapshots   *)
(* it names: the one after holds the trade and what the one before held.   *)
(***************************************************************************)
LedgerExplains ==
    \A t \in ledger :
        /\ snapshots[t.after].trades = snapshots[t.before].trades \cup {t.trade}
        /\ snapshots[t.after].scan = snapshots[t.before].scan

\* handleUploadBatchGet answers a completed trade slip with the transactions
\* of the latest delta snapshot of the batch.
SlipSnapshots(r) == {n \in 1..Len(snapshots) : snapshots[n].source = r /\ snapshots[n].kind = "delta"}
SlipAnswer(r) ==
    {t.trade : t \in {u \in ledger : \E n \in SlipSnapshots(r) :
                        u.after = n /\ \A m \in SlipSnapshots(r) : m <= n}}

(***************************************************************************)
(* The transactions reported for a trade slip are the ones it made, as     *)
(* long as no asset command or insight traded after it: theirs make a      *)
(* delta snapshot that inherits the slip's batch, and is then reported.    *)
(***************************************************************************)
SlipReportsItself ==
    \A own \in ledger :
        /\ own.trade \in Slips
        /\ \A t \in ledger : t.trade \in Slips \/ t.after <= own.after
        => SlipAnswer(own.trade) = {own.trade}

TradesFor(i) == {t \in ledger : t.trade \in Executions /\ about[t.trade] = i}

(***************************************************************************)
(* "Insight already handled" (INSIGHT_NOT_ACTIVE): an insight changes the  *)
(* portfolio at most once, and not at all when it ends up dismissed.       *)
(***************************************************************************)
HandledOnce ==
    \A i \in Insights :
        /\ Cardinality(TradesFor(i)) <= 1
        /\ insight[i] = "dismissed" => TradesFor(i) = {}

(***************************************************************************)
(* No update is lost: the active portfolio holds every trade that was      *)
(* booked on top of the scan it starts from. The backend specification     *)
(* reserves a lock per portfolio (lock:portfolio:{user_id}) for this.      *)
(***************************************************************************)
NoTradeLost ==
    \A t \in ledger :
        snapshots[t.after].scan = snapshots[active].scan => t.trade \in snapshots[active].trades

(***************************************************************************)
(* A server that works on one request at a time implements the book: the   *)
(* active snapshot holds the trades booked since its scan.                 *)
(***************************************************************************)
Book ==
    INSTANCE PortfolioBook WITH
        scan <- IF active = 0 THEN 0 ELSE snapshots[active].scan,
        holdings <- IF active = 0 THEN {} ELSE snapshots[active].trades,
        booked <- {t.trade : t \in ledger}

ImplementsBook == Book!BookSpec
=============================================================================
