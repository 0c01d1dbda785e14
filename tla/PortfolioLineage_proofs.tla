----------------------- MODULE PortfolioLineage_proofs ----------------------
(* Proofs about PortfolioLineage, for every set of requests and insights.  *)
EXTENDS PortfolioLineage, FiniteSetTheorems, TLAPS

Ids == 1..Len(snapshots)

\* A request that is about to commit has read a snapshot.
ReadSomething == \A r \in Requests : at[r] = "read" => read[r] # 0

LedgerInRange == \A t \in ledger : t.before \in Ids /\ t.after \in Ids

TInv == TypeOK /\ ReadSomething /\ LedgerInRange

----------------------------------------------------------------------------
(* What a transaction does to the table                                    *)

\* The rows there were keep everything but status and successor.
RowsStay ==
    /\ snapshots' \in Seq(SnapshotRows)
    /\ Len(snapshots') >= Len(snapshots)
    /\ \A n \in Ids : /\ snapshots'[n].trades = snapshots[n].trades /\ snapshots'[n].scan = snapshots[n].scan
                      /\ snapshots'[n].kind = snapshots[n].kind /\ snapshots'[n].source = snapshots[n].source

LEMMA RowFacts ==
  ASSUME TypeOK
  PROVE  /\ Len(snapshots) \in Nat
         /\ \A n \in Ids : snapshots[n] \in SnapshotRows
  BY DEF TypeOK, Ids

LEMMA QuietStays ==
  ASSUME TypeOK, UNCHANGED snapshots
  PROVE  RowsStay
  BY RowFacts DEF RowsStay, TypeOK

LEMMA ScanEffect ==
  ASSUME TypeOK, NEW r \in Scans, Scan(r)
  PROVE  /\ RowsStay
         /\ Len(snapshots') = Len(snapshots) + 1
         /\ \A n \in Ids : snapshots'[n] = snapshots[n]
         /\ snapshots'[Len(snapshots) + 1].kind = "scan"
         /\ snapshots'[Len(snapshots) + 1].status = "active"
         /\ snapshots'[Len(snapshots) + 1].scan = Len(snapshots) + 1
         /\ snapshots'[Len(snapshots) + 1].trades = {}
         /\ active' = Len(snapshots) + 1
<1> DEFINE row == [kind |-> "scan", status |-> "active", replacedBy |-> NoOne,
                   source |-> r, scan |-> Len(snapshots) + 1, trades |-> {}]
<1>1. snapshots' = Append(snapshots, row) /\ active' = Len(snapshots) + 1
  BY DEF Scan
<1>2. snapshots \in Seq(SnapshotRows) /\ Len(snapshots) \in Nat
  BY RowFacts DEF TypeOK
<1>3. row \in SnapshotRows
  BY <1>2 DEF SnapshotRows, NoOne
<1>4. row.kind = "scan" /\ row.status = "active" /\ row.scan = Len(snapshots) + 1 /\ row.trades = {}
  OBVIOUS
<1> HIDE DEF row
<1>5. /\ snapshots' \in Seq(SnapshotRows)
      /\ Len(snapshots') = Len(snapshots) + 1
      /\ \A n \in Ids : snapshots'[n] = snapshots[n]
      /\ snapshots'[Len(snapshots) + 1] = row
  BY <1>1, <1>2, <1>3 DEF Ids
<1>6. RowsStay
  <2>1. Len(snapshots') >= Len(snapshots)
    BY <1>2, <1>5
  <2> QED
    BY <1>5, <2>1, Zenon DEF RowsStay
<1> QED
  BY <1>1, <1>4, <1>5, <1>6, Zenon

LEMMA DeriveEffect ==
  ASSUME TInv, NEW r \in Requests, at[r] = "read", NEW kind \in {"delta", "refresh"}, Derive(r, kind)
  PROVE  /\ read[r] \in Ids
         /\ RowsStay
         /\ Len(snapshots') = Len(snapshots) + 1
         /\ \A n \in Ids \ {read[r]} : snapshots'[n] = snapshots[n]
         /\ snapshots'[read[r]].status = "archived"
         /\ snapshots'[read[r]].replacedBy = Len(snapshots) + 1
         /\ snapshots'[Len(snapshots) + 1].kind = kind
         /\ snapshots'[Len(snapshots) + 1].source = SourceOf(r, snapshots[read[r]])
         /\ snapshots'[Len(snapshots) + 1].status = "active"
         /\ snapshots'[Len(snapshots) + 1].scan = snapshots[read[r]].scan
         /\ snapshots'[Len(snapshots) + 1].trades = HoldingsAfter(r, snapshots[read[r]])
         /\ active' = Len(snapshots) + 1
<1> DEFINE id == read[r]
           new == Len(snapshots) + 1
           old == [snapshots[id] EXCEPT !.status = "archived", !.replacedBy = new]
           row == [kind |-> kind, status |-> "active", replacedBy |-> NoOne,
                   source |-> SourceOf(r, snapshots[id]), scan |-> snapshots[id].scan,
                   trades |-> HoldingsAfter(r, snapshots[id])]
<1>1. snapshots \in Seq(SnapshotRows) /\ Len(snapshots) \in Nat
  BY RowFacts DEF TInv, TypeOK
<1>2. id \in Ids /\ snapshots[id] \in SnapshotRows
  BY RowFacts DEF TInv, TypeOK, ReadSomething, Ids
<1>3. snapshots' = Append([snapshots EXCEPT ![id] = old], row) /\ active' = new
  BY DEF Derive, Archived, NextActive
<1>4. old \in SnapshotRows /\ old.status = "archived" /\ old.replacedBy = new
      /\ old.trades = snapshots[id].trades /\ old.scan = snapshots[id].scan
      /\ old.kind = snapshots[id].kind /\ old.source = snapshots[id].source
  <2> DEFINE was == snapshots[id]
  <2> SUFFICES ASSUME was \in SnapshotRows, new \in Nat
               PROVE  LET is == [was EXCEPT !.status = "archived", !.replacedBy = new]
                      IN  is \in SnapshotRows /\ is.status = "archived" /\ is.replacedBy = new
                          /\ is.trades = was.trades /\ is.scan = was.scan
                          /\ is.kind = was.kind /\ is.source = was.source
    BY <1>1, <1>2
  <2> HIDE DEF was, new
  <2> QED
    BY DEF SnapshotRows
<1>5. HoldingsAfter(r, snapshots[id]) \in SUBSET Trades /\ SourceOf(r, snapshots[id]) \in Scans \cup Slips
  BY <1>2 DEF SnapshotRows, HoldingsAfter, SourceOf
<1>6. row \in SnapshotRows
  BY <1>2, <1>5 DEF SnapshotRows, NoOne
<1>7. /\ row.kind = kind /\ row.source = SourceOf(r, snapshots[id])
      /\ row.status = "active" /\ row.scan = snapshots[id].scan /\ row.trades = HoldingsAfter(r, snapshots[id])
  OBVIOUS
<1> HIDE DEF old, row
<1>8. DEFINE mid == [snapshots EXCEPT ![id] = old]
<1>9. mid \in Seq(SnapshotRows) /\ Len(mid) = Len(snapshots) /\ mid[id] = old
      /\ \A n \in Ids \ {id} : mid[n] = snapshots[n]
  BY <1>1, <1>2, <1>4 DEF Ids
<1> HIDE DEF mid
<1>10. /\ snapshots' \in Seq(SnapshotRows)
       /\ Len(snapshots') = new
       /\ \A n \in Ids : snapshots'[n] = mid[n]
       /\ snapshots'[new] = row
  BY <1>1, <1>3, <1>6, <1>9 DEF Ids, mid
<1>11. RowsStay
  <2>1. \A n \in Ids : snapshots'[n] = IF n = id THEN old ELSE snapshots[n]
    BY <1>9, <1>10
  <2>2. Len(snapshots') >= Len(snapshots)
    BY <1>1, <1>10
  <2> QED
    BY <1>4, <1>10, <2>1, <2>2 DEF RowsStay
<1>12. \A n \in Ids \ {id} : snapshots'[n] = snapshots[n]
  BY <1>9, <1>10
<1>13. snapshots'[id].status = "archived" /\ snapshots'[id].replacedBy = new
  BY <1>2, <1>4, <1>9, <1>10
<1> QED
  BY <1>2, <1>3, <1>7, <1>10, <1>11, <1>12, <1>13

----------------------------------------------------------------------------
(* Types                                                                   *)

\* A step that lets requests move without touching the table.
LEMMA QuietTInv ==
  ASSUME TInv, NEW r \in Requests, NEW point \in Points, Goto(r, point),
         UNCHANGED <<snapshots, active, ledger, about>>,
         insight' \in [Insights -> InsightStatuses],
         read' \in [Requests -> 0..Len(snapshots)],
         \A q \in Requests \ {r} : read'[q] = read[q],
         point = "read" => read'[r] # 0,
         faults' \in Nat
  PROVE  TInv'
<1>1. at' \in [Requests -> Points] /\ at'[r] = point /\ \A q \in Requests \ {r} : at'[q] = at[q]
  BY DEF Goto, TInv, TypeOK
<1>2. TypeOK'
  BY <1>1 DEF TInv, TypeOK
<1>3. ReadSomething'
  BY <1>1 DEF TInv, ReadSomething
<1>4. LedgerInRange'
  BY DEF TInv, LedgerInRange, Ids
<1> QED
  BY <1>2, <1>3, <1>4 DEF TInv

\* A transaction: the table grows, and the log perhaps.
LEMMA CommitTInv ==
  ASSUME TInv, NEW r \in Requests, NEW point \in Points \ {"read"}, Goto(r, point),
         RowsStay, Len(snapshots') = Len(snapshots) + 1, active' = Len(snapshots) + 1,
         ledger' \subseteq [trade : Trades, before : Nat, after : Nat],
         \A t \in ledger' \ ledger : t.before \in Ids /\ t.after = Len(snapshots) + 1,
         UNCHANGED <<insight, read, about, faults>>
  PROVE  TInv'
<1>1. at' \in [Requests -> Points] /\ at'[r] = point /\ \A q \in Requests \ {r} : at'[q] = at[q]
  BY DEF Goto, TInv, TypeOK
<1>2. Len(snapshots) \in Nat
  BY RowFacts DEF TInv
<1>3. read' \in [Requests -> 0..Len(snapshots')]
  BY <1>2 DEF TInv, TypeOK
<1>4. TypeOK'
  BY <1>1, <1>2, <1>3 DEF TInv, TypeOK, RowsStay
<1>5. ReadSomething'
  BY <1>1 DEF TInv, ReadSomething
<1>6. LedgerInRange'
  <2> SUFFICES ASSUME NEW t \in ledger' PROVE t.before \in Ids' /\ t.after \in Ids'
    BY DEF LedgerInRange
  <2>1. CASE t \in ledger
    BY <1>2, <2>1 DEF TInv, LedgerInRange, Ids
  <2>2. CASE t \notin ledger
    BY <1>2, <2>2 DEF Ids
  <2> QED
    BY <2>1, <2>2
<1> QED
  BY <1>4, <1>5, <1>6 DEF TInv

LEMMA TypeInit == Init => TInv
<1> SUFFICES ASSUME Init PROVE TInv
  OBVIOUS
<1>1. snapshots = << >> /\ snapshots \in Seq(SnapshotRows) /\ Len(snapshots) = 0
  BY DEF Init
<1>2. TypeOK
  BY <1>1 DEF Init, TypeOK, InsightStatuses, Points
<1> QED
  BY <1>2 DEF Init, TInv, ReadSomething, LedgerInRange

LEMMA TypeStep == TInv /\ [Next]_vars => TInv'
<1> SUFFICES ASSUME TInv, [Next]_vars PROVE TInv'
  OBVIOUS
<1>0. /\ Len(snapshots) \in Nat /\ active \in 0..Len(snapshots)
      /\ insight \in [Insights -> InsightStatuses] /\ at \in [Requests -> Points]
      /\ read \in [Requests -> 0..Len(snapshots)] /\ faults \in Nat
      /\ about \in [Executions \cup Dismissals -> Insights]
      /\ ledger \subseteq [trade : Trades, before : Nat, after : Nat]
  BY RowFacts DEF TInv, TypeOK
<1>1. ASSUME NEW r \in Scans, Scan(r) PROVE TInv'
  <2>1. r \in Requests /\ Goto(r, "done") /\ UNCHANGED <<ledger, insight, read, about, faults>>
    BY <1>1 DEF Scan, Requests
  <2> QED
    BY <1>0, <1>1, <2>1, ScanEffect, CommitTInv DEF TInv, Points
<1>2. ASSUME NEW r \in Requests, ReadActive(r) PROVE TInv'
  <2>1. CASE active = 0
    BY <1>0, <1>2, <2>1, QuietTInv DEF ReadActive, Points
  <2>2. CASE active # 0
    <3>1. Goto(r, "read") /\ read' = [read EXCEPT ![r] = active]
      BY <1>2, <2>2 DEF ReadActive
    <3>2. read' \in [Requests -> 0..Len(snapshots)] /\ read'[r] # 0
          /\ \A q \in Requests \ {r} : read'[q] = read[q]
      BY <1>0, <2>2, <3>1
    <3> QED
      BY <1>0, <1>2, <3>1, <3>2, QuietTInv DEF ReadActive, Points
  <2> QED
    BY <2>1, <2>2
<1>3. ASSUME NEW r \in Requests, CommitDelta(r) PROVE TInv'
  <2> DEFINE t == [trade |-> r, before |-> read[r], after |-> Len(snapshots) + 1]
             point == IF r \in Executions THEN "committed" ELSE "done"
  <2>1. /\ r \in Trades /\ at[r] = "read" /\ Derive(r, "delta") /\ ledger' = ledger \cup {t}
        /\ Goto(r, point) /\ UNCHANGED <<insight, read, about, faults>>
    BY <1>3 DEF CommitDelta
  <2>2. read[r] \in Ids /\ RowsStay /\ Len(snapshots') = Len(snapshots) + 1 /\ active' = Len(snapshots) + 1
    BY <2>1, DeriveEffect
  <2>3. t \in [trade : Trades, before : Nat, after : Nat]
    BY <1>0, <2>1, <2>2 DEF Ids
  <2>4. t.before \in Ids /\ t.after = Len(snapshots) + 1
    BY <2>2
  <2>5. point \in Points \ {"read"}
    BY DEF Points
  <2> HIDE DEF t, point
  <2> QED
    BY <1>0, <2>1, <2>2, <2>3, <2>4, <2>5, CommitTInv
<1>4. ASSUME NEW r \in Requests, CommitRefresh(r) PROVE TInv'
  <2>1. /\ at[r] = "read" /\ Derive(r, "refresh")
        /\ Goto(r, "done") /\ UNCHANGED <<ledger, insight, read, about, faults>>
    BY <1>4 DEF CommitRefresh
  <2> QED
    BY <1>0, <2>1, DeriveEffect, CommitTInv DEF Points
<1>5. ASSUME NEW r \in Requests, CheckInsight(r) PROVE TInv'
  <2>1. PICK point \in {"checked", "done"} : Goto(r, point)
    BY <1>5 DEF CheckInsight
  <2> QED
    BY <1>0, <1>5, <2>1, QuietTInv DEF CheckInsight, Points
<1>6. ASSUME NEW r \in Requests, MarkExecuted(r) \/ ExecuteBySlip(r) \/ Dismiss(r) PROVE TInv'
  <2>1. /\ Goto(r, "done") /\ UNCHANGED <<snapshots, active, ledger, read, about, faults>>
        /\ \E status \in InsightStatuses : SetInsight(r, status)
    BY <1>6 DEF MarkExecuted, ExecuteBySlip, Dismiss, InsightStatuses
  <2>2. insight' \in [Insights -> InsightStatuses]
    BY <1>0, <2>1 DEF SetInsight
  <2> QED
    BY <1>0, <2>1, <2>2, QuietTInv DEF Points
<1>7. ASSUME NEW r \in Requests, Abort(r) PROVE TInv'
  BY <1>0, <1>7, QuietTInv DEF Abort, Points
<1>8. ASSUME NEW i \in Insights, Expire(i) PROVE TInv'
  <2>1. insight' \in [Insights -> InsightStatuses]
    BY <1>0, <1>8 DEF Expire, InsightStatuses
  <2> QED
    BY <1>8, <2>1 DEF Expire, TInv, TypeOK, ReadSomething, LedgerInRange, Ids
<1>9. CASE UNCHANGED vars
  BY <1>9 DEF vars, TInv, TypeOK, ReadSomething, LedgerInRange, Ids
<1> QED
  BY <1>1, <1>2, <1>3, <1>4, <1>5, <1>6, <1>7, <1>8, <1>9 DEF Next

(***************************************************************************)
(* Rows, pointer, log and requests keep their types; what a request read   *)
(* and what a transaction names are snapshots that exist.                  *)
(***************************************************************************)
THEOREM TypeCorrect == Spec => []TypeOK
<1>1. TInv => TypeOK
  BY DEF TInv
<1> QED
  BY <1>1, TypeInit, TypeStep, PTL DEF Spec

----------------------------------------------------------------------------
(* The line of snapshots                                                   *)

\* The pointer is on the latest row, and transactions keep it there: this is
\* what makes ActiveIsCurrent inductive, for only an older row is archived.
PointerInv == active = Len(snapshots) /\ ActiveIsCurrent

LineInv == TInv /\ PointerInv /\ ReplacementsLead /\ LedgerExplains

\* Few steps touch the table, and all of them add one row.
LEMMA StepKinds ==
  ASSUME TInv, [Next]_vars
  PROVE  \/ \E r \in Scans : Scan(r)
         \/ \E r \in Requests : CommitDelta(r) \/ CommitRefresh(r)
         \/ UNCHANGED <<snapshots, active, ledger>>
  BY DEF Next, vars, ReadActive, CheckInsight, MarkExecuted, ExecuteBySlip, Dismiss, Abort, Expire

LEMMA QuietLine ==
  ASSUME LineInv, UNCHANGED <<snapshots, active, ledger>>
  PROVE  PointerInv' /\ ReplacementsLead' /\ LedgerExplains'
  BY DEF LineInv, PointerInv, ActiveIsCurrent, ReplacementsLead, LedgerExplains

\* What the log already explains stays explained.
LEMMA OldEntries ==
  ASSUME TInv, LedgerExplains, RowsStay, NEW t \in ledger
  PROVE  /\ snapshots'[t.after].trades = snapshots'[t.before].trades \cup {t.trade}
         /\ snapshots'[t.after].scan = snapshots'[t.before].scan
<1>1. t.before \in Ids /\ t.after \in Ids
  BY DEF TInv, LedgerInRange
<1> QED
  BY <1>1 DEF LedgerExplains, RowsStay

LEMMA ScanLine ==
  ASSUME LineInv, NEW r \in Scans, Scan(r)
  PROVE  PointerInv' /\ ReplacementsLead' /\ LedgerExplains'
<1> USE DEF LineInv
<1>1. Len(snapshots) \in Nat
  BY RowFacts DEF TInv
<1>2. /\ RowsStay /\ Len(snapshots') = Len(snapshots) + 1 /\ active' = Len(snapshots) + 1
      /\ \A n \in Ids : snapshots'[n] = snapshots[n]
      /\ snapshots'[Len(snapshots) + 1].status = "active"
      /\ ledger' = ledger
  BY ScanEffect DEF TInv, Scan
<1>3. PointerInv'
  BY <1>2 DEF PointerInv, ActiveIsCurrent
<1>4. ReplacementsLead'
  <2> SUFFICES ASSUME NEW n \in 1..Len(snapshots'), snapshots'[n].status = "archived"
               PROVE  /\ snapshots'[n].replacedBy \in (n + 1)..Len(snapshots')
                      /\ snapshots'[snapshots'[n].replacedBy].scan = snapshots'[n].scan
    BY DEF ReplacementsLead
  <2>1. n \in Ids /\ snapshots'[n] = snapshots[n]
    BY <1>1, <1>2 DEF Ids
  <2>2. snapshots[n].replacedBy \in (n + 1)..Len(snapshots)
        /\ snapshots[snapshots[n].replacedBy].scan = snapshots[n].scan
    BY <2>1 DEF ReplacementsLead, Ids
  <2>3. snapshots[n].replacedBy \in Ids
    BY <1>1, <2>1, <2>2 DEF Ids
  <2> QED
    BY <1>1, <1>2, <2>1, <2>2, <2>3
<1>5. LedgerExplains'
  BY <1>2, OldEntries DEF LedgerExplains
<1> QED
  BY <1>3, <1>4, <1>5

\* The pointer and the successors, for a delta and a refresh alike.
LEMMA DeriveLine ==
  ASSUME LineInv, NEW r \in Requests, at[r] = "read", NEW kind \in {"delta", "refresh"}, Derive(r, kind)
  PROVE  PointerInv' /\ ReplacementsLead'
<1> USE DEF LineInv
<1> DEFINE new == Len(snapshots) + 1
<1>1. Len(snapshots) \in Nat
  BY RowFacts DEF TInv
<1>2. /\ read[r] \in Ids /\ RowsStay /\ Len(snapshots') = new /\ active' = new
      /\ \A n \in Ids \ {read[r]} : snapshots'[n] = snapshots[n]
      /\ snapshots'[read[r]].replacedBy = new
      /\ snapshots'[new].status = "active" /\ snapshots'[new].scan = snapshots[read[r]].scan
  BY DeriveEffect
<1>3. PointerInv'
  BY <1>2 DEF PointerInv, ActiveIsCurrent
<1>4. ReplacementsLead'
  <2> SUFFICES ASSUME NEW n \in 1..Len(snapshots'), snapshots'[n].status = "archived"
               PROVE  /\ snapshots'[n].replacedBy \in (n + 1)..Len(snapshots')
                      /\ snapshots'[snapshots'[n].replacedBy].scan = snapshots'[n].scan
    BY DEF ReplacementsLead
  <2>1. n \in Ids
    BY <1>1, <1>2 DEF Ids
  <2>2. CASE n = read[r]
    BY <1>1, <1>2, <2>1, <2>2 DEF RowsStay, Ids
  <2>3. CASE n # read[r]
    <3>1. snapshots'[n] = snapshots[n]
      BY <1>2, <2>1, <2>3
    <3>2. snapshots[n].replacedBy \in (n + 1)..Len(snapshots)
          /\ snapshots[snapshots[n].replacedBy].scan = snapshots[n].scan
      BY <2>1, <3>1 DEF ReplacementsLead, Ids
    <3>3. snapshots[n].replacedBy \in Ids
      BY <1>1, <2>1, <3>2 DEF Ids
    <3>4. snapshots'[snapshots[n].replacedBy].scan = snapshots[snapshots[n].replacedBy].scan
      BY <1>2, <3>3 DEF RowsStay
    <3> QED
      BY <1>1, <1>2, <2>1, <3>1, <3>2, <3>4 DEF Ids
  <2> QED
    BY <2>2, <2>3
<1> QED
  BY <1>3, <1>4

LEMMA LineStep == LineInv /\ [Next]_vars => LineInv'
<1> SUFFICES ASSUME LineInv, [Next]_vars PROVE PointerInv' /\ ReplacementsLead' /\ LedgerExplains'
  BY TypeStep DEF LineInv
<1>0. TInv /\ LedgerExplains
  BY DEF LineInv
<1>1. ASSUME NEW r \in Requests, CommitDelta(r)
      PROVE  PointerInv' /\ ReplacementsLead' /\ LedgerExplains'
  <2> DEFINE t == [trade |-> r, before |-> read[r], after |-> Len(snapshots) + 1]
  <2>1. r \in Trades /\ at[r] = "read" /\ Derive(r, "delta") /\ ledger' = ledger \cup {t}
    BY <1>1 DEF CommitDelta
  <2>2. /\ read[r] \in Ids /\ RowsStay
        /\ snapshots'[Len(snapshots) + 1].scan = snapshots[read[r]].scan
        /\ snapshots'[Len(snapshots) + 1].trades = HoldingsAfter(r, snapshots[read[r]])
    BY <1>0, <2>1, DeriveEffect
  <2>3. /\ snapshots'[t.after].trades = snapshots'[t.before].trades \cup {t.trade}
        /\ snapshots'[t.after].scan = snapshots'[t.before].scan
    BY <2>1, <2>2 DEF RowsStay, HoldingsAfter
  <2> HIDE DEF t
  <2>4. LedgerExplains'
    BY <1>0, <2>1, <2>2, <2>3, OldEntries DEF LedgerExplains
  <2> QED
    BY <2>1, <2>4, DeriveLine
<1>2. ASSUME NEW r \in Requests, CommitRefresh(r)
      PROVE  PointerInv' /\ ReplacementsLead' /\ LedgerExplains'
  <2>1. at[r] = "read" /\ Derive(r, "refresh") /\ ledger' = ledger
    BY <1>2 DEF CommitRefresh
  <2>2. LedgerExplains'
    BY <1>0, <2>1, DeriveEffect, OldEntries DEF LedgerExplains
  <2> QED
    BY <2>1, <2>2, DeriveLine
<1> QED
  BY <1>0, <1>1, <1>2, StepKinds, ScanLine, QuietLine

LEMMA LineInvariant == Spec => []LineInv
<1>1. Init => LineInv
  <2> SUFFICES ASSUME Init PROVE LineInv
    OBVIOUS
  <2>1. Len(snapshots) = 0 /\ active = 0 /\ ledger = {}
    BY DEF Init
  <2> QED
    BY <2>1, TypeInit DEF LineInv, PointerInv, ActiveIsCurrent, ReplacementsLead, LedgerExplains
<1> QED
  BY <1>1, LineStep, PTL DEF Spec

(***************************************************************************)
(* However deltas, refreshes and scans overlap, User.ActivePortfolioSnap-  *)
(* shot never points to an archived snapshot.                              *)
(***************************************************************************)
THEOREM PointerIsCurrent == Spec => []ActiveIsCurrent
<1>1. LineInv => ActiveIsCurrent
  BY DEF LineInv, PointerInv
<1> QED
  BY <1>1, LineInvariant, PTL

(***************************************************************************)
(* replaced_by_snapshot_id leads forward within a scan, also when several  *)
(* requests replaced the same snapshot.                                    *)
(***************************************************************************)
THEOREM SuccessorsLead == Spec => []ReplacementsLead
<1>1. LineInv => ReplacementsLead
  BY DEF LineInv
<1> QED
  BY <1>1, LineInvariant, PTL

(***************************************************************************)
(* Every transaction explains the two snapshots it names.                  *)
(***************************************************************************)
THEOREM LedgerIsSound == Spec => []LedgerExplains
<1>1. LineInv => LedgerExplains
  BY DEF LineInv
<1> QED
  BY <1>1, LineInvariant, PTL

----------------------------------------------------------------------------
(* A server that works on one request at a time                            *)

OneAtATime == \A r, q \in InProgress : r = q

\* Nothing is committed between the halves of a request ...
ReadsCurrent == \A r \in Requests : at[r] = "read" => read[r] = active

\* ... and a request books its trade when it leaves "read", never to return.
BookedIsPast == \A t \in ledger : at[t.trade] \in {"committed", "done"}

\* The scan a row descends from is itself or an earlier row.
ScanIsEarlier == \A n \in Ids : snapshots[n].scan \in 1..n

SerialInv == LineInv /\ OneAtATime /\ ReadsCurrent /\ BookedIsPast /\ ScanIsEarlier /\ NoTradeLost

LEMMA BeginAlone ==
  ASSUME Concurrency = 1, NEW r \in Requests, Begin(r)
  PROVE  InProgress = {} /\ at[r] = "new"
<1>1. IsFiniteSet(InProgress)
  BY RequestsAssumption, FS_Subset DEF InProgress
<1>2. Cardinality(InProgress) \in Nat /\ Cardinality(InProgress) < 1
  BY <1>1, FS_CardinalityType DEF Begin
<1> QED
  BY <1>1, <1>2, FS_EmptySet DEF Begin

\* Every step but an expiry moves one request, which began alone or was alone.
LEMMA MoveAlone ==
  ASSUME SerialInv, Concurrency = 1, NEW r \in Requests, NEW point \in Points, Goto(r, point),
         Begin(r) \/ r \in InProgress
  PROVE  /\ OneAtATime'
         /\ InProgress \subseteq {r}
         /\ at'[r] = point
         /\ \A q \in Requests \ {r} : at'[q] = at[q] /\ at[q] \in {"new", "done"}
<1>1. at \in [Requests -> Points]
  BY DEF SerialInv, LineInv, TInv, TypeOK
<1>2. at'[r] = point /\ \A q \in Requests \ {r} : at'[q] = at[q]
  BY <1>1 DEF Goto
<1>3. InProgress \subseteq {r}
  BY BeginAlone DEF SerialInv, OneAtATime
<1>4. InProgress' \subseteq {r}
  BY <1>2, <1>3 DEF InProgress
<1> QED
  BY <1>2, <1>3, <1>4 DEF OneAtATime, InProgress

\* The steps that do not touch the table.
LEMMA QuietSerial ==
  ASSUME SerialInv, Concurrency = 1, NEW r \in Requests, NEW point \in Points, Goto(r, point),
         Begin(r) \/ r \in InProgress,
         UNCHANGED <<snapshots, active, ledger>>,
         point = "read" => read'[r] = active,
         at[r] \in {"committed", "done"} => point \in {"committed", "done"}
  PROVE  OneAtATime' /\ ReadsCurrent' /\ BookedIsPast' /\ ScanIsEarlier' /\ NoTradeLost'
<1>1. /\ OneAtATime' /\ at'[r] = point
      /\ \A q \in Requests \ {r} : at'[q] = at[q] /\ at[q] \in {"new", "done"}
  BY MoveAlone
<1>2. ReadsCurrent'
  BY <1>1 DEF ReadsCurrent
<1>3. BookedIsPast'
  <2> SUFFICES ASSUME NEW t \in ledger PROVE at'[t.trade] \in {"committed", "done"}
    BY DEF BookedIsPast
  <2>1. t.trade \in Requests /\ at[t.trade] \in {"committed", "done"}
    BY DEF SerialInv, LineInv, TInv, TypeOK, BookedIsPast, Requests
  <2> QED
    BY <1>1, <2>1
<1>4. ScanIsEarlier' /\ NoTradeLost'
  BY DEF SerialInv, ScanIsEarlier, NoTradeLost, Ids
<1> QED
  BY <1>1, <1>2, <1>3, <1>4

\* A scan starts a line without trades.
LEMMA ScanSerial ==
  ASSUME SerialInv, Concurrency = 1, NEW r \in Scans, Scan(r)
  PROVE  OneAtATime' /\ ReadsCurrent' /\ BookedIsPast' /\ ScanIsEarlier' /\ NoTradeLost'
<1> USE DEF SerialInv, LineInv
<1>1. Len(snapshots) \in Nat /\ r \in Requests
  BY RowFacts DEF TInv, Requests
<1>2. /\ RowsStay /\ Len(snapshots') = Len(snapshots) + 1 /\ active' = Len(snapshots) + 1
      /\ snapshots'[Len(snapshots) + 1].scan = Len(snapshots) + 1
      /\ ledger' = ledger /\ Goto(r, "done")
  BY ScanEffect DEF TInv, Scan
<1>3. /\ OneAtATime' /\ at'[r] = "done"
      /\ \A q \in Requests \ {r} : at'[q] = at[q] /\ at[q] \in {"new", "done"}
  BY <1>1, <1>2, MoveAlone DEF Scan, Points
<1>4. ReadsCurrent'
  BY <1>3 DEF ReadsCurrent
<1>5. BookedIsPast'
  <2> SUFFICES ASSUME NEW t \in ledger PROVE at'[t.trade] \in {"committed", "done"}
    BY <1>2 DEF BookedIsPast
  <2>1. t.trade \in Requests /\ at[t.trade] \in {"committed", "done"}
    BY DEF TInv, TypeOK, BookedIsPast, Requests
  <2> QED
    BY <1>3, <2>1
<1>6. ScanIsEarlier'
  BY <1>1, <1>2 DEF ScanIsEarlier, RowsStay, Ids
<1>7. NoTradeLost'
  <2> SUFFICES ASSUME NEW t \in ledger, snapshots'[t.after].scan = Len(snapshots) + 1
               PROVE  FALSE
    BY <1>2 DEF NoTradeLost
  <2>1. t.after \in Ids
    BY DEF TInv, LedgerInRange
  <2>2. snapshots'[t.after].scan \in 1..t.after
    BY <1>2, <2>1 DEF RowsStay, ScanIsEarlier
  <2> QED
    BY <1>1, <2>1, <2>2 DEF Ids
<1> QED
  BY <1>3, <1>4, <1>5, <1>6, <1>7

\* A delta or a refresh continues the line of the active snapshot.
LEMMA DeriveSerial ==
  ASSUME SerialInv, Concurrency = 1, NEW r \in Requests, at[r] = "read",
         NEW kind \in {"delta", "refresh"}, Derive(r, kind),
         NEW point \in {"committed", "done"}, Goto(r, point),
         ledger \subseteq ledger',
         \A t \in ledger' \ ledger : t.trade = r /\ r \in Trades
  PROVE  OneAtATime' /\ ReadsCurrent' /\ BookedIsPast' /\ ScanIsEarlier' /\ NoTradeLost'
<1> USE DEF SerialInv, LineInv
<1> DEFINE new == Len(snapshots) + 1
<1>1. Len(snapshots) \in Nat /\ active = read[r]
  BY RowFacts DEF TInv, ReadsCurrent
<1>2. /\ active \in Ids /\ RowsStay /\ Len(snapshots') = new /\ active' = new
      /\ snapshots'[new].scan = snapshots[active].scan
      /\ snapshots'[new].trades = HoldingsAfter(r, snapshots[active])
  BY <1>1, DeriveEffect
<1>3. r \in InProgress
  BY DEF InProgress
<1>4. /\ OneAtATime' /\ at'[r] = point
      /\ \A q \in Requests \ {r} : at'[q] = at[q] /\ at[q] \in {"new", "done"}
  BY <1>3, MoveAlone DEF Points
<1>5. ReadsCurrent'
  BY <1>4 DEF ReadsCurrent
<1>6. BookedIsPast'
  <2> SUFFICES ASSUME NEW t \in ledger' PROVE at'[t.trade] \in {"committed", "done"}
    BY DEF BookedIsPast
  <2>1. CASE t \in ledger
    BY <1>4, <2>1 DEF TInv, TypeOK, BookedIsPast, Requests
  <2>2. CASE t \notin ledger
    BY <1>4, <2>2
  <2> QED
    BY <2>1, <2>2
<1>7. ScanIsEarlier'
  <2>1. snapshots[active].scan \in 1..active
    BY <1>2 DEF ScanIsEarlier
  <2> QED
    BY <1>1, <1>2, <2>1 DEF ScanIsEarlier, RowsStay, Ids
<1>8. NoTradeLost'
  <2> SUFFICES ASSUME NEW t \in ledger', snapshots'[t.after].scan = snapshots[active].scan
               PROVE  t.trade \in HoldingsAfter(r, snapshots[active])
    BY <1>2 DEF NoTradeLost
  <2>1. CASE t \in ledger
    <3>1. t.after \in Ids
      BY <2>1 DEF TInv, LedgerInRange
    <3>2. snapshots[t.after].scan = snapshots[active].scan
      BY <1>2, <3>1 DEF RowsStay
    <3> QED
      BY <2>1, <3>2 DEF NoTradeLost, HoldingsAfter
  <2>2. CASE t \notin ledger
    BY <2>2 DEF HoldingsAfter
  <2> QED
    BY <2>1, <2>2
<1> QED
  BY <1>4, <1>5, <1>6, <1>7, <1>8

LEMMA SerialStep ==
  ASSUME Concurrency = 1
  PROVE  SerialInv /\ [Next]_vars => SerialInv'
<1> SUFFICES ASSUME SerialInv, [Next]_vars
             PROVE  OneAtATime' /\ ReadsCurrent' /\ BookedIsPast' /\ ScanIsEarlier' /\ NoTradeLost'
  BY LineStep DEF SerialInv
<1>0. ledger \subseteq [trade : Trades, before : Nat, after : Nat]
  BY DEF SerialInv, LineInv, TInv, TypeOK
<1>1. ASSUME NEW r \in Requests, CommitDelta(r)
      PROVE  OneAtATime' /\ ReadsCurrent' /\ BookedIsPast' /\ ScanIsEarlier' /\ NoTradeLost'
  <2>1. PICK point \in {"committed", "done"} : Goto(r, point)
    BY <1>1 DEF CommitDelta
  <2>2. /\ r \in Trades /\ at[r] = "read" /\ Derive(r, "delta") /\ ledger \subseteq ledger'
        /\ \A t \in ledger' \ ledger : t.trade = r
    BY <1>1 DEF CommitDelta
  <2> QED
    BY <2>1, <2>2, DeriveSerial
<1>2. ASSUME NEW r \in Requests, CommitRefresh(r)
      PROVE  OneAtATime' /\ ReadsCurrent' /\ BookedIsPast' /\ ScanIsEarlier' /\ NoTradeLost'
  BY <1>2, DeriveSerial DEF CommitRefresh
<1>3. ASSUME NEW r \in Requests, ReadActive(r)
      PROVE  OneAtATime' /\ ReadsCurrent' /\ BookedIsPast' /\ ScanIsEarlier' /\ NoTradeLost'
  <2>1. Begin(r) \/ r \in InProgress
    BY <1>3 DEF ReadActive, InProgress
  <2>2. at[r] \notin {"committed", "done"}
    BY <1>3 DEF ReadActive, Begin
  <2>3. UNCHANGED <<snapshots, active, ledger>>
    BY <1>3 DEF ReadActive
  <2>4. CASE active = 0
    BY <1>3, <2>1, <2>2, <2>3, <2>4, QuietSerial DEF ReadActive, Points
  <2>5. CASE active # 0
    <3>1. Goto(r, "read") /\ read'[r] = active
      BY <1>3, <2>5 DEF ReadActive, SerialInv, LineInv, TInv, TypeOK
    <3> QED
      BY <2>1, <2>2, <2>3, <3>1, QuietSerial DEF Points
  <2> QED
    BY <2>4, <2>5
<1>4. ASSUME NEW r \in Requests, CheckInsight(r)
      PROVE  OneAtATime' /\ ReadsCurrent' /\ BookedIsPast' /\ ScanIsEarlier' /\ NoTradeLost'
  <2>1. PICK point \in {"checked", "done"} : Goto(r, point)
    BY <1>4 DEF CheckInsight
  <2>2. Begin(r) /\ at[r] = "new" /\ UNCHANGED <<snapshots, active, ledger>>
    BY <1>4 DEF CheckInsight, Begin
  <2> QED
    BY <2>1, <2>2, QuietSerial DEF Points
<1>5. ASSUME NEW r \in Requests, MarkExecuted(r) \/ ExecuteBySlip(r) \/ Dismiss(r) \/ Abort(r)
      PROVE  OneAtATime' /\ ReadsCurrent' /\ BookedIsPast' /\ ScanIsEarlier' /\ NoTradeLost'
  <2>1. r \in InProgress /\ Goto(r, "done") /\ UNCHANGED <<snapshots, active, ledger>>
    BY <1>5 DEF MarkExecuted, ExecuteBySlip, Dismiss, Abort, InProgress
  <2> QED
    BY <2>1, QuietSerial DEF Points
<1>6. ASSUME NEW i \in Insights, Expire(i)
      PROVE  OneAtATime' /\ ReadsCurrent' /\ BookedIsPast' /\ ScanIsEarlier' /\ NoTradeLost'
  BY <1>6 DEF Expire, SerialInv, OneAtATime, InProgress, ReadsCurrent, BookedIsPast, ScanIsEarlier, NoTradeLost, Ids
<1>7. CASE UNCHANGED vars
  BY <1>7 DEF vars, SerialInv, OneAtATime, InProgress, ReadsCurrent, BookedIsPast, ScanIsEarlier, NoTradeLost, Ids
<1> QED
  BY <1>1, <1>2, <1>3, <1>4, <1>5, <1>6, <1>7, ScanSerial DEF Next

LEMMA SerialInit == Init => SerialInv
<1> SUFFICES ASSUME Init PROVE SerialInv
  OBVIOUS
<1>1. LineInv
  <2>1. Len(snapshots) = 0 /\ active = 0 /\ ledger = {}
    BY DEF Init
  <2> QED
    BY <2>1, TypeInit DEF LineInv, PointerInv, ActiveIsCurrent, ReplacementsLead, LedgerExplains
<1>2. Len(snapshots) = 0 /\ ledger = {} /\ \A r \in Requests : at[r] = "new"
  BY DEF Init
<1> QED
  BY <1>1, <1>2 DEF SerialInv, OneAtATime, InProgress, ReadsCurrent, BookedIsPast, ScanIsEarlier, NoTradeLost, Ids

LEMMA SerialInvariant ==
  ASSUME Concurrency = 1
  PROVE  Spec => []SerialInv
  BY SerialInit, SerialStep, PTL DEF Spec

(***************************************************************************)
(* What the lock of the backend specification would buy: when requests do  *)
(* not overlap, no trade is lost. The code has no such lock, and loses     *)
(* trades when they do overlap.                                            *)
(***************************************************************************)
THEOREM SerialLosesNothing ==
  ASSUME Concurrency = 1
  PROVE  Spec => []NoTradeLost
<1>1. SerialInv => NoTradeLost
  BY DEF SerialInv
<1> QED
  BY <1>1, SerialInvariant, PTL

LEMMA BookInit == Init => Book!Init
<1> SUFFICES ASSUME Init PROVE Book!Init
  OBVIOUS
<1>1. active = 0 /\ ledger = {}
  BY DEF Init
<1> QED
  BY <1>1 DEF Book!Init

\* A scan is a rescan, a delta a trade, and nothing else shows in the book.
LEMMA BookStep ==
  ASSUME Concurrency = 1
  PROVE  SerialInv /\ [Next]_vars => [Book!Next]_(Book!bookVars)
<1> SUFFICES ASSUME SerialInv, [Next]_vars PROVE [Book!Next]_(Book!bookVars)
  OBVIOUS
<1> USE DEF SerialInv, LineInv
<1>0. Len(snapshots) \in Nat /\ active = Len(snapshots)
      /\ (active # 0 => active \in Ids /\ snapshots[active].scan \in 1..active)
  BY RowFacts DEF TInv, PointerInv, Ids, ScanIsEarlier
<1>1. ASSUME NEW r \in Scans, Scan(r) PROVE Book!Rescan
  <2>1. /\ active' = Len(snapshots) + 1
        /\ snapshots'[Len(snapshots) + 1].scan = Len(snapshots) + 1
        /\ snapshots'[Len(snapshots) + 1].trades = {}
        /\ ledger' = ledger
    BY <1>1, ScanEffect DEF TInv, Scan
  <2>2. active' # 0 /\ snapshots'[active'].scan = Len(snapshots) + 1 /\ snapshots'[active'].trades = {}
    BY <1>0, <2>1
  <2>3. Len(snapshots) + 1 > IF active = 0 THEN 0 ELSE snapshots[active].scan
    BY <1>0
  <2> QED
    BY <2>1, <2>2, <2>3 DEF Book!Rescan
<1>2. ASSUME NEW r \in Requests, CommitDelta(r) PROVE \E t \in Trades : Book!Trade(t)
  <2> DEFINE entry == [trade |-> r, before |-> read[r], after |-> Len(snapshots) + 1]
  <2>1. r \in Trades /\ at[r] = "read" /\ Derive(r, "delta") /\ ledger' = ledger \cup {entry}
    BY <1>2 DEF CommitDelta
  <2>2. read[r] = active /\ entry.trade = r
    BY <2>1 DEF ReadsCurrent
  <2> HIDE DEF entry
  <2>3. /\ active \in Ids /\ active' = Len(snapshots) + 1
        /\ snapshots'[Len(snapshots) + 1].scan = snapshots[active].scan
        /\ snapshots'[Len(snapshots) + 1].trades = HoldingsAfter(r, snapshots[active])
    BY <2>1, <2>2, DeriveEffect
  <2>4. active # 0 /\ active' # 0 /\ snapshots[active].scan # 0
    BY <1>0, <2>3 DEF Ids
  <2>5. snapshots'[active'].trades = snapshots[active].trades \cup {r}
    BY <2>1, <2>3 DEF HoldingsAfter
  <2>6. r \notin {t.trade : t \in ledger}
    BY <2>1 DEF BookedIsPast
  <2>7. {t.trade : t \in ledger'} = {t.trade : t \in ledger} \cup {r}
    BY <2>1, <2>2
  <2>8. Book!Trade(r)
    BY <2>3, <2>4, <2>5, <2>6, <2>7 DEF Book!Trade
  <2> QED
    BY <2>1, <2>8
<1>3. ASSUME NEW r \in Requests, CommitRefresh(r) PROVE UNCHANGED Book!bookVars
  <2>1. r \notin Trades /\ at[r] = "read" /\ Derive(r, "refresh") /\ ledger' = ledger
    BY <1>3, RequestsAssumption DEF CommitRefresh
  <2>2. read[r] = active
    BY <2>1 DEF ReadsCurrent
  <2>3. /\ active \in Ids /\ active' = Len(snapshots) + 1
        /\ snapshots'[Len(snapshots) + 1].scan = snapshots[active].scan
        /\ snapshots'[Len(snapshots) + 1].trades = snapshots[active].trades
    BY <2>1, <2>2, DeriveEffect DEF HoldingsAfter
  <2>4. active # 0 /\ active' # 0
    BY <1>0, <2>3 DEF Ids
  <2> QED
    BY <2>1, <2>3, <2>4 DEF Book!bookVars
<1>4. CASE UNCHANGED <<snapshots, active, ledger>>
  BY <1>4 DEF Book!bookVars
<1> QED
  BY <1>1, <1>2, <1>3, <1>4, StepKinds DEF Book!Next

(***************************************************************************)
(* A server that works on one request at a time implements PortfolioBook:  *)
(* the active snapshot holds the trades booked since its scan, each once.  *)
(***************************************************************************)
THEOREM SerialImplementsBook ==
  ASSUME Concurrency = 1
  PROVE  Spec => ImplementsBook
<1> QED
  BY BookInit, BookStep, SerialInvariant, PTL DEF Spec, ImplementsBook, Book!BookSpec

----------------------------------------------------------------------------
(* What a trade slip is told                                               *)

\* Each delta snapshot has one transaction, each trade at most one, and the
\* snapshot a slip's own transaction made names its batch.
DeltasBooked == \A n \in Ids : snapshots[n].kind = "delta" => \E t \in ledger : t.after = n
OneEach == \A t, u \in ledger : t.after = u.after \/ t.trade = u.trade => t = u
SlipsNamed ==
    \A t \in ledger : snapshots[t.after].kind = "delta" /\ (t.trade \in Slips => snapshots[t.after].source = t.trade)

SlipInv == TInv /\ BookedIsPast /\ DeltasBooked /\ OneEach /\ SlipsNamed

\* The steps that do not touch the table.
LEMMA QuietSlip ==
  ASSUME SlipInv, UNCHANGED <<snapshots, ledger>>,
         \A r \in Trades : at[r] \in {"committed", "done"} => at'[r] \in {"committed", "done"}
  PROVE  BookedIsPast' /\ DeltasBooked' /\ OneEach' /\ SlipsNamed'
<1>1. \A t \in ledger : t.trade \in Trades
  BY DEF SlipInv, TInv, TypeOK
<1> QED
  BY <1>1 DEF SlipInv, BookedIsPast, DeltasBooked, OneEach, SlipsNamed, Ids

\* A row is added without a transaction.
LEMMA PlainSlip ==
  ASSUME SlipInv, RowsStay, Len(snapshots') = Len(snapshots) + 1,
         snapshots'[Len(snapshots) + 1].kind # "delta", UNCHANGED ledger,
         \A r \in Trades : at[r] \in {"committed", "done"} => at'[r] \in {"committed", "done"}
  PROVE  BookedIsPast' /\ DeltasBooked' /\ OneEach' /\ SlipsNamed'
<1>1. Len(snapshots) \in Nat /\ \A t \in ledger : t.trade \in Trades /\ t.after \in Ids
  BY RowFacts DEF SlipInv, TInv, TypeOK, LedgerInRange
<1>2. \A n \in Ids' : n \in Ids \/ n = Len(snapshots) + 1
  BY <1>1 DEF Ids
<1>3. BookedIsPast' /\ OneEach'
  BY <1>1 DEF SlipInv, BookedIsPast, OneEach
<1>4. DeltasBooked'
  BY <1>2 DEF SlipInv, DeltasBooked, RowsStay
<1>5. SlipsNamed'
  BY <1>1 DEF SlipInv, SlipsNamed, RowsStay
<1> QED
  BY <1>3, <1>4, <1>5

LEMMA DeltaSlip ==
  ASSUME SlipInv, NEW r \in Requests, CommitDelta(r)
  PROVE  BookedIsPast' /\ DeltasBooked' /\ OneEach' /\ SlipsNamed'
<1> DEFINE new == Len(snapshots) + 1
           own == [trade |-> r, before |-> read[r], after |-> new]
           point == IF r \in Executions THEN "committed" ELSE "done"
<1>0. TInv
  BY DEF SlipInv
<1>1. r \in Trades /\ at[r] = "read" /\ Derive(r, "delta") /\ ledger' = ledger \cup {own} /\ Goto(r, point)
  BY DEF CommitDelta
<1>2. /\ RowsStay /\ Len(snapshots') = new
      /\ snapshots'[new].kind = "delta" /\ snapshots'[new].source = SourceOf(r, snapshots[read[r]])
  BY <1>0, <1>1, DeriveEffect
<1>3. Len(snapshots) \in Nat /\ \A t \in ledger : t.trade \in Trades /\ t.after \in Ids
  BY <1>0, RowFacts DEF TInv, TypeOK, LedgerInRange
<1>4. own.trade = r /\ own.after = new
  OBVIOUS
<1> HIDE DEF own
<1>5. point \in {"committed", "done"} /\ at' = [at EXCEPT ![r] = point] /\ at \in [Requests -> Points] /\ Trades \subseteq Requests
  BY <1>0, <1>1 DEF Goto, TInv, TypeOK, Requests
<1>6. \A t \in ledger : t.after # new /\ t.trade # r
  BY <1>1, <1>3 DEF Ids, SlipInv, BookedIsPast
<1>7. \A t \in ledger' : t \in ledger \/ t = own
  BY <1>1
<1>8. BookedIsPast'
  <2> SUFFICES ASSUME NEW t \in ledger' PROVE at'[t.trade] \in {"committed", "done"}
    BY DEF BookedIsPast
  <2>1. CASE t \in ledger
    BY <1>3, <1>5, <2>1 DEF SlipInv, BookedIsPast
  <2> QED
    BY <1>4, <1>5, <1>7, <2>1
<1>9. DeltasBooked'
  <2> SUFFICES ASSUME NEW n \in Ids', snapshots'[n].kind = "delta" PROVE \E t \in ledger' : t.after = n
    BY DEF DeltasBooked
  <2>1. n \in Ids \/ n = new
    BY <1>2, <1>3 DEF Ids
  <2>2. CASE n \in Ids
    BY <1>1, <1>2, <2>2 DEF SlipInv, DeltasBooked, RowsStay
  <2> QED
    BY <1>1, <1>4, <2>1, <2>2
<1>10. OneEach'
  BY <1>4, <1>6, <1>7 DEF SlipInv, OneEach
<1>11. SlipsNamed'
  <2> SUFFICES ASSUME NEW t \in ledger'
               PROVE  /\ snapshots'[t.after].kind = "delta"
                      /\ t.trade \in Slips => snapshots'[t.after].source = t.trade
    BY DEF SlipsNamed
  <2>1. CASE t \in ledger
    BY <1>2, <1>3, <2>1 DEF SlipInv, SlipsNamed, RowsStay
  <2>2. CASE t = own
    BY <1>2, <1>4, <2>2 DEF SourceOf
  <2> QED
    BY <1>7, <2>1, <2>2
<1> QED
  BY <1>8, <1>9, <1>10, <1>11

LEMMA SlipStep ==
  ASSUME SlipInv, [Next]_vars
  PROVE  SlipInv'
<1> SUFFICES BookedIsPast' /\ DeltasBooked' /\ OneEach' /\ SlipsNamed'
  BY TypeStep DEF SlipInv
<1>0. TInv /\ at \in [Requests -> Points] /\ Trades \subseteq Requests
  BY DEF SlipInv, TInv, TypeOK, Requests
\* No request leaves "committed" and "done" but for "done".
<1>1. ASSUME NEW r \in Requests, NEW point, Goto(r, point),
             at[r] \in {"committed", "done"} => point \in {"committed", "done"}
      PROVE  \A q \in Trades : at[q] \in {"committed", "done"} => at'[q] \in {"committed", "done"}
  BY <1>0, <1>1 DEF Goto
<1>2. ASSUME NEW r \in Scans, Scan(r)
      PROVE  BookedIsPast' /\ DeltasBooked' /\ OneEach' /\ SlipsNamed'
  <2>1. r \in Requests /\ Goto(r, "done") /\ UNCHANGED ledger
    BY <1>2 DEF Scan, Requests
  <2> QED
    BY <1>0, <1>1, <1>2, <2>1, ScanEffect, PlainSlip DEF TInv
<1>3. ASSUME NEW r \in Requests, CommitRefresh(r)
      PROVE  BookedIsPast' /\ DeltasBooked' /\ OneEach' /\ SlipsNamed'
  <2>1. at[r] = "read" /\ Derive(r, "refresh") /\ Goto(r, "done") /\ UNCHANGED ledger
    BY <1>3 DEF CommitRefresh
  <2>2. RowsStay /\ Len(snapshots') = Len(snapshots) + 1 /\ snapshots'[Len(snapshots) + 1].kind = "refresh"
    BY <1>0, <2>1, DeriveEffect
  <2> QED
    BY <1>1, <2>1, <2>2, PlainSlip
<1>4. ASSUME NEW r \in Requests, NEW point, Goto(r, point), UNCHANGED <<snapshots, ledger>>,
             at[r] \in {"committed", "done"} => point \in {"committed", "done"}
      PROVE  BookedIsPast' /\ DeltasBooked' /\ OneEach' /\ SlipsNamed'
  BY <1>1, <1>4, QuietSlip
<1>5. ASSUME NEW r \in Requests, ReadActive(r)
      PROVE  BookedIsPast' /\ DeltasBooked' /\ OneEach' /\ SlipsNamed'
  <2>1. at[r] \notin {"committed", "done"} /\ (Goto(r, "done") \/ Goto(r, "read")) /\ UNCHANGED <<snapshots, ledger>>
    BY <1>5 DEF ReadActive, Begin
  <2> QED
    BY <1>4, <2>1
<1>6. ASSUME NEW r \in Requests, CheckInsight(r)
      PROVE  BookedIsPast' /\ DeltasBooked' /\ OneEach' /\ SlipsNamed'
  <2>1. at[r] = "new" /\ (Goto(r, "done") \/ Goto(r, "checked")) /\ UNCHANGED <<snapshots, ledger>>
    BY <1>6 DEF CheckInsight, Begin
  <2> QED
    BY <1>4, <2>1
<1>7. ASSUME NEW r \in Requests, MarkExecuted(r) \/ ExecuteBySlip(r) \/ Dismiss(r) \/ Abort(r)
      PROVE  BookedIsPast' /\ DeltasBooked' /\ OneEach' /\ SlipsNamed'
  <2>1. Goto(r, "done") /\ UNCHANGED <<snapshots, ledger>>
    BY <1>7 DEF MarkExecuted, ExecuteBySlip, Dismiss, Abort
  <2> QED
    BY <1>4, <2>1
<1>8. CASE UNCHANGED <<snapshots, ledger, at>>
  BY <1>8, QuietSlip
<1>9. (\E i \in Insights : Expire(i)) \/ UNCHANGED vars => UNCHANGED <<snapshots, ledger, at>>
  BY DEF Expire, vars
<1> QED
  BY <1>2, <1>3, <1>5, <1>6, <1>7, <1>8, <1>9, DeltaSlip DEF Next

\* A later delta of the batch would be a slip's, and no slip trades twice.
LEMMA SlipAnswered ==
  ASSUME SlipInv
  PROVE  SlipReportsItself
<1> SUFFICES ASSUME NEW own \in ledger, own.trade \in Slips,
                    \A t \in ledger : t.trade \in Slips \/ t.after <= own.after
             PROVE  SlipAnswer(own.trade) = {own.trade}
  BY DEF SlipReportsItself
<1>1. own.after \in Ids /\ Len(snapshots) \in Nat /\ \A t \in ledger : t.after \in Ids
  BY RowFacts DEF SlipInv, TInv, LedgerInRange
<1>2. snapshots[own.after].source = own.trade
  BY DEF SlipInv, SlipsNamed
<1>3. \A n \in SlipSnapshots(own.trade) : n <= own.after
  <2> SUFFICES ASSUME NEW n \in Ids, snapshots[n].source = own.trade, snapshots[n].kind = "delta"
               PROVE  n <= own.after
    BY DEF SlipSnapshots, Ids
  <2>1. PICK t \in ledger : t.after = n
    BY DEF SlipInv, DeltasBooked
  <2>2. CASE t.trade \in Slips
    <3>1. t.trade = own.trade
      BY <2>1, <2>2 DEF SlipInv, SlipsNamed
    <3>2. t = own
      BY <3>1 DEF SlipInv, OneEach
    <3> QED
      BY <1>1, <2>1, <3>2 DEF Ids
  <2> QED
    BY <2>1, <2>2
<1>4. own.after \in SlipSnapshots(own.trade)
  BY <1>1, <1>2 DEF SlipSnapshots, Ids, SlipInv, SlipsNamed
<1>5. \A n \in SlipSnapshots(own.trade) : (\A m \in SlipSnapshots(own.trade) : m <= n) => n = own.after
  BY <1>1, <1>3, <1>4 DEF SlipSnapshots
<1>6. {u \in ledger : \E n \in SlipSnapshots(own.trade) :
                        u.after = n /\ \A m \in SlipSnapshots(own.trade) : m <= n} = {own}
  BY <1>3, <1>4, <1>5 DEF SlipInv, OneEach
<1> QED
  BY <1>6 DEF SlipAnswer

(***************************************************************************)
(* However requests overlap or fail half-way, a trade slip is answered     *)
(* with its own transactions, as long as no command or insight traded      *)
(* after it in its batch's name.                                           *)
(***************************************************************************)
THEOREM SlipsAnswered == Spec => []SlipReportsItself
<1>1. Init => SlipInv
  <2> SUFFICES ASSUME Init PROVE SlipInv
    OBVIOUS
  <2>1. Len(snapshots) = 0 /\ ledger = {}
    BY DEF Init
  <2> QED
    BY <2>1, TypeInit DEF SlipInv, BookedIsPast, DeltasBooked, OneEach, SlipsNamed, Ids
<1>2. SlipInv /\ [Next]_vars => SlipInv'
  BY SlipStep
<1>3. SlipInv => SlipReportsItself
  BY SlipAnswered
<1> QED
  BY <1>1, <1>2, <1>3, PTL DEF Spec

----------------------------------------------------------------------------
(* An insight is handled once                                              *)

\* Who is past the status check and has not written yet.
Handling(r) ==
    (r \in Executions /\ at[r] \in {"checked", "read"}) \/ (r \in Dismissals /\ at[r] = "checked")

\* While a request is past the check nothing was traded for its insight, and
\* what was traded leaves it active only until its own request marks it.
Untraded == \A r \in Executions \cup Dismissals : Handling(r) => TradesFor(about[r]) = {}
MarkedNext ==
    \A t \in ledger : t.trade \in Executions =>
        /\ insight[about[t.trade]] # "dismissed"
        /\ insight[about[t.trade]] = "active" => at[t.trade] = "committed"
NotDismissed == \A r \in Executions : at[r] \in {"checked", "read", "committed"} => insight[about[r]] # "dismissed"
OneTrade ==
    \A t, u \in ledger : {t.trade, u.trade} \subseteq Executions /\ about[t.trade] = about[u.trade] => t = u

HandledInv == SerialInv /\ Untraded /\ MarkedNext /\ NotDismissed /\ OneTrade

\* Alone in progress, a request past the check finds what it left.
LEMMA MoveHandled ==
  ASSUME HandledInv, Concurrency = 1, NEW r \in Requests, NEW point \in Points, Goto(r, point),
         Begin(r) \/ r \in InProgress
  PROVE  /\ at'[r] = point
         /\ \A q \in Requests \ {r} : at'[q] = at[q] /\ at[q] \in {"new", "done"}
         /\ \A t \in ledger : t.trade \in Executions /\ insight[about[t.trade]] = "active" => t.trade = r
<1>1. /\ at'[r] = point /\ \A q \in Requests \ {r} : at'[q] = at[q] /\ at[q] \in {"new", "done"}
  BY MoveAlone DEF HandledInv
<1>2. \A q \in Executions : q \in Requests
  BY DEF Requests, Trades
<1> QED
  BY <1>1, <1>2 DEF HandledInv, MarkedNext

\* The steps that write no transaction: who comes to the check, and what
\* becomes of an insight.
LEMMA QuietHandled ==
  ASSUME HandledInv, Concurrency = 1, NEW r \in Requests, NEW point \in Points, Goto(r, point),
         Begin(r) \/ r \in InProgress, UNCHANGED <<ledger, about>>,
         Handling(r)' => TradesFor(about[r]) = {} /\ (r \in Executions => insight'[about[r]] # "dismissed"),
         r \in Executions /\ point = "committed" => insight'[about[r]] # "dismissed",
         r \in Executions /\ at[r] = "committed" => insight'[about[r]] = "executed",
         \A i \in Insights : insight'[i] = insight[i] \/ insight'[i] = "executed"
                                \/ (insight'[i] = "dismissed" /\ TradesFor(i) = {})
  PROVE  Untraded' /\ MarkedNext' /\ NotDismissed' /\ OneTrade'
<1>1. /\ at'[r] = point
      /\ \A q \in Requests \ {r} : at'[q] = at[q] /\ at[q] \in {"new", "done"}
      /\ \A t \in ledger : t.trade \in Executions /\ insight[about[t.trade]] = "active" => t.trade = r
  BY MoveHandled
<1>2. /\ Executions \subseteq Requests /\ Dismissals \subseteq Requests
      /\ about \in [Executions \cup Dismissals -> Insights]
  BY DEF Requests, Trades, HandledInv, SerialInv, LineInv, TInv, TypeOK
<1>3. Untraded'
  <2> SUFFICES ASSUME NEW q \in Executions \cup Dismissals, Handling(q)' PROVE TradesFor(about[q]) = {}
    BY DEF Untraded, TradesFor
  <2>1. q = r
    BY <1>1, <1>2 DEF Handling
  <2> QED
    BY <2>1
<1>4. MarkedNext'
  <2> SUFFICES ASSUME NEW t \in ledger, t.trade \in Executions
               PROVE  /\ insight'[about[t.trade]] # "dismissed"
                      /\ insight'[about[t.trade]] = "active" => at'[t.trade] = "committed"
    BY DEF MarkedNext
  <2> DEFINE i == about[t.trade]
  <2>1. i \in Insights /\ TradesFor(i) # {} /\ insight[i] # "dismissed"
    BY <1>2 DEF TradesFor, HandledInv, MarkedNext
  <2>2. insight'[i] = insight[i] \/ insight'[i] = "executed"
    BY <2>1
  <2>3. CASE insight'[i] = "active"
    <3>1. insight[i] = "active" /\ t.trade = r /\ at[r] = "committed"
      BY <1>1, <2>2, <2>3 DEF HandledInv, MarkedNext
    <3> QED
      BY <2>3, <3>1
  <2> QED
    BY <2>1, <2>2, <2>3
<1>5. NotDismissed'
  <2> SUFFICES ASSUME NEW q \in Executions, at'[q] \in {"checked", "read", "committed"}
               PROVE  insight'[about[q]] # "dismissed"
    BY DEF NotDismissed
  <2>1. q = r
    BY <1>1, <1>2
  <2> QED
    BY <1>1, <2>1 DEF Handling
<1>6. OneTrade'
  BY DEF HandledInv, OneTrade
<1> QED
  BY <1>3, <1>4, <1>5, <1>6

LEMMA DeltaHandled ==
  ASSUME HandledInv, Concurrency = 1, NEW r \in Requests, CommitDelta(r)
  PROVE  Untraded' /\ MarkedNext' /\ NotDismissed' /\ OneTrade'
<1> DEFINE own == [trade |-> r, before |-> read[r], after |-> Len(snapshots) + 1]
           point == IF r \in Executions THEN "committed" ELSE "done"
<1>1. /\ r \in Trades /\ at[r] = "read" /\ ledger' = ledger \cup {own} /\ Goto(r, point) /\ UNCHANGED <<insight, about>>
      /\ own.trade = r
  BY DEF CommitDelta
<1>2. point \in {"committed", "done"} /\ point \in Points /\ r \in InProgress
  BY <1>1 DEF Points, InProgress
<1> HIDE DEF own
<1>3. /\ at'[r] = point
      /\ \A q \in Requests \ {r} : at'[q] = at[q] /\ at[q] \in {"new", "done"}
      /\ \A t \in ledger : t.trade \in Executions /\ insight[about[t.trade]] = "active" => t.trade = r
  BY <1>1, <1>2, MoveHandled
<1>4. Executions \subseteq Requests /\ Dismissals \subseteq Requests
  BY DEF Requests, Trades
<1>5. r \in Executions => TradesFor(about[r]) = {} /\ insight[about[r]] # "dismissed"
  BY <1>1 DEF HandledInv, Untraded, NotDismissed, Handling
<1>6. Untraded'
  BY <1>2, <1>3, <1>4 DEF Untraded, Handling
<1>7. MarkedNext'
  <2> SUFFICES ASSUME NEW t \in ledger', t.trade \in Executions
               PROVE  /\ insight[about[t.trade]] # "dismissed"
                      /\ insight[about[t.trade]] = "active" => at'[t.trade] = "committed"
    BY <1>1 DEF MarkedNext
  <2>1. CASE t \in ledger
    BY <1>1, <1>3, <2>1 DEF HandledInv, MarkedNext
  <2>2. CASE t = own
    BY <1>1, <1>3, <1>5, <2>2
  <2> QED
    BY <1>1, <2>1, <2>2
<1>8. NotDismissed'
  BY <1>1, <1>3, <1>4, <1>5 DEF NotDismissed
<1>9. OneTrade'
  <2>1. \A t \in ledger : t.trade \in Executions /\ r \in Executions => about[t.trade] # about[r]
    BY <1>5 DEF TradesFor
  <2> QED
    BY <1>1, <2>1 DEF HandledInv, OneTrade
<1> QED
  BY <1>6, <1>7, <1>8, <1>9

LEMMA HandledStep ==
  ASSUME Concurrency = 1, MaxFaults = 0
  PROVE  HandledInv /\ [Next]_vars => HandledInv'
<1> SUFFICES ASSUME HandledInv, [Next]_vars PROVE Untraded' /\ MarkedNext' /\ NotDismissed' /\ OneTrade'
  BY SerialStep DEF HandledInv
<1>0. /\ insight \in [Insights -> InsightStatuses] /\ about \in [Executions \cup Dismissals -> Insights]
      /\ at \in [Requests -> Points] /\ faults \in Nat
  BY DEF HandledInv, SerialInv, LineInv, TInv, TypeOK
<1>1. ASSUME NEW r \in Requests, NEW point \in {"done", "read"}, Goto(r, point), Begin(r) \/ r \in InProgress,
             UNCHANGED <<ledger, about, insight>>, at[r] # "committed",
             point = "read" /\ r \in Executions => at[r] \in {"checked", "read"}
      PROVE  Untraded' /\ MarkedNext' /\ NotDismissed' /\ OneTrade'
  <2>1. point \in Points /\ at'[r] = point
    BY <1>0, <1>1 DEF Points, Goto
  <2>2. Handling(r)' => r \in Executions /\ Handling(r)
    BY <1>1, <2>1 DEF Handling
  <2>3. Handling(r)' => TradesFor(about[r]) = {} /\ (r \in Executions => insight'[about[r]] # "dismissed")
    BY <1>1, <2>2 DEF HandledInv, Untraded, NotDismissed, Handling
  <2> QED
    BY <1>1, <2>1, <2>3, QuietHandled
<1>2. ASSUME NEW r \in Scans, Scan(r) PROVE Untraded' /\ MarkedNext' /\ NotDismissed' /\ OneTrade'
  BY <1>1, <1>2 DEF Scan, Begin, Requests
<1>3. ASSUME NEW r \in Requests, CommitRefresh(r) PROVE Untraded' /\ MarkedNext' /\ NotDismissed' /\ OneTrade'
  BY <1>1, <1>3 DEF CommitRefresh, InProgress
<1>4. ASSUME NEW r \in Requests, ReadActive(r) PROVE Untraded' /\ MarkedNext' /\ NotDismissed' /\ OneTrade'
  <2>1. r \in Executions => at[r] = "checked"
    BY <1>4, RequestsAssumption DEF ReadActive, Trades
  <2>2. (Begin(r) \/ r \in InProgress) /\ at[r] # "committed"
    BY <1>4 DEF ReadActive, Begin, InProgress
  <2>3. (Goto(r, "done") \/ Goto(r, "read")) /\ UNCHANGED <<ledger, about, insight>>
    BY <1>4 DEF ReadActive
  <2> QED
    BY <1>1, <2>1, <2>2, <2>3
<1>5. ASSUME NEW r \in Requests, CheckInsight(r) PROVE Untraded' /\ MarkedNext' /\ NotDismissed' /\ OneTrade'
  <2>1. PICK point \in {"checked", "done"} :
          Goto(r, point) /\ (point = "checked" => insight[about[r]] = "active")
    BY <1>5 DEF CheckInsight, Admissible
  <2>2. /\ r \in Executions \cup Dismissals /\ Begin(r) /\ at[r] = "new" /\ UNCHANGED <<ledger, about, insight>>
        /\ point \in Points
    BY <1>5 DEF CheckInsight, Begin, Points
  <2>3. insight[about[r]] = "active" => TradesFor(about[r]) = {}
    <3> SUFFICES ASSUME insight[about[r]] = "active", NEW t \in ledger, t.trade \in Executions,
                        about[t.trade] = about[r]
                 PROVE  FALSE
      BY DEF TradesFor
    <3>1. at[t.trade] = "committed" /\ t.trade \in Requests
      BY DEF HandledInv, MarkedNext, Requests, Trades
    <3>2. InProgress = {}
      BY <2>2, BeginAlone
    <3> QED
      BY <3>1, <3>2 DEF InProgress
  <2>4. Handling(r)' => point = "checked"
    BY <1>0, <2>1 DEF Handling, Goto
  <2> QED
    BY <2>1, <2>2, <2>3, <2>4, QuietHandled
<1>6. ASSUME NEW r \in Requests, MarkExecuted(r) \/ ExecuteBySlip(r)
      PROVE  Untraded' /\ MarkedNext' /\ NotDismissed' /\ OneTrade'
  <2>1. /\ Goto(r, "done") /\ UNCHANGED <<ledger, about>> /\ r \in InProgress
        /\ insight' = [insight EXCEPT ![about[r]] = "executed"]
    BY <1>6 DEF MarkExecuted, ExecuteBySlip, SetInsight, InProgress
  <2>2. /\ \A i \in Insights : insight'[i] = insight[i] \/ insight'[i] = "executed"
        /\ r \in Executions => insight'[about[r]] = "executed"
    BY <1>0, <2>1
  <2>3. ~Handling(r)' /\ "done" \in Points
    BY <1>0, <2>1 DEF Handling, Goto, Points
  <2> QED
    BY <2>1, <2>2, <2>3, QuietHandled
<1>7. ASSUME NEW r \in Requests, Dismiss(r) PROVE Untraded' /\ MarkedNext' /\ NotDismissed' /\ OneTrade'
  <2>1. /\ Goto(r, "done") /\ UNCHANGED <<ledger, about>> /\ r \in InProgress /\ r \in Dismissals /\ at[r] = "checked"
        /\ insight' = [insight EXCEPT ![about[r]] = "dismissed"]
    BY <1>7 DEF Dismiss, SetInsight, InProgress
  <2>2. TradesFor(about[r]) = {}
    BY <2>1 DEF HandledInv, Untraded, Handling
  <2>3. \A i \in Insights : insight'[i] = insight[i] \/ (insight'[i] = "dismissed" /\ TradesFor(i) = {})
    BY <1>0, <2>1, <2>2
  <2>4. ~Handling(r)' /\ "done" \in Points
    BY <1>0, <2>1 DEF Handling, Goto, Points
  <2> QED
    BY <2>1, <2>3, <2>4, QuietHandled
<1>8. ASSUME NEW r \in Requests, Abort(r) PROVE FALSE
  BY <1>0, <1>8 DEF Abort
<1>9. ASSUME NEW i \in Insights, Expire(i) PROVE Untraded' /\ MarkedNext' /\ NotDismissed' /\ OneTrade'
  <2>1. UNCHANGED <<ledger, about, at>> /\ \A j \in Insights : insight'[j] = insight[j] \/ insight'[j] = "expired"
    BY <1>0, <1>9 DEF Expire
  <2>2. \A r \in Executions : about[r] \in Insights
    BY <1>0
  <2>3. MarkedNext' /\ NotDismissed'
    BY <2>1, <2>2 DEF HandledInv, MarkedNext, NotDismissed
  <2> QED
    BY <2>1, <2>3 DEF HandledInv, Untraded, Handling, TradesFor, OneTrade
<1>10. CASE UNCHANGED vars
  BY <1>10 DEF vars, HandledInv, Untraded, Handling, TradesFor, MarkedNext, NotDismissed, OneTrade
<1> QED
  BY <1>2, <1>3, <1>4, <1>5, <1>6, <1>7, <1>8, <1>9, <1>10, DeltaHandled DEF Next

(***************************************************************************)
(* When requests neither overlap nor fail half-way, executing an insight   *)
(* changes the portfolio once, whatever else is asked for it, and a        *)
(* dismissed one never did. The code has nothing that keeps two requests   *)
(* for an insight apart.                                                   *)
(***************************************************************************)
THEOREM InsightsHandledOnce ==
  ASSUME Concurrency = 1, MaxFaults = 0
  PROVE  Spec => []HandledOnce
<1>1. Init => HandledInv
  <2> SUFFICES ASSUME Init PROVE HandledInv
    OBVIOUS
  <2>1. SerialInv
    BY SerialInit
  <2>2. ledger = {} /\ \A r \in Requests : at[r] = "new"
    BY DEF Init
  <2> QED
    BY <2>1, <2>2 DEF HandledInv, Untraded, TradesFor, MarkedNext, NotDismissed, OneTrade, Requests, Trades
<1>2. HandledInv => HandledOnce
  <2> SUFFICES ASSUME HandledInv, NEW i \in Insights
               PROVE  Cardinality(TradesFor(i)) <= 1 /\ (insight[i] = "dismissed" => TradesFor(i) = {})
    BY DEF HandledOnce
  <2>1. insight[i] = "dismissed" => TradesFor(i) = {}
    BY DEF HandledInv, MarkedNext, TradesFor
  <2>2. \A t, u \in TradesFor(i) : t = u
    BY DEF HandledInv, OneTrade, TradesFor
  <2>3. CASE TradesFor(i) = {}
    BY <2>1, <2>3, FS_EmptySet
  <2>4. CASE TradesFor(i) # {}
    <3>1. PICK t : TradesFor(i) = {t}
      BY <2>2, <2>4
    <3>2. Cardinality(TradesFor(i)) = 1
      BY <3>1, FS_Singleton
    <3> QED
      BY <2>1, <3>2
  <2> QED
    BY <2>3, <2>4
<1> QED
  BY <1>1, <1>2, HandledStep, PTL DEF Spec
=============================================================================
