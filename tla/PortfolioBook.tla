---------------------------- MODULE PortfolioBook ----------------------------
(***************************************************************************)
(* What the portfolio promises its owner, without snapshots and requests:  *)
(* the holdings are those of the last scan plus every trade booked since,  *)
(* and a trade is booked at most once.                                     *)
(***************************************************************************)
EXTENDS Naturals

CONSTANT Trades

VARIABLES
    scan,      \* which scan the holdings start from, 0 before the first
    holdings,  \* trades in the holdings
    booked     \* trades in the transaction log

bookVars == <<scan, holdings, booked>>

Init == scan = 0 /\ holdings = {} /\ booked = {}

Rescan ==
    /\ scan' > scan
    /\ holdings' = {}
    /\ UNCHANGED booked

Trade(t) ==
    /\ scan # 0
    /\ t \notin booked
    /\ holdings' = holdings \cup {t}
    /\ booked' = booked \cup {t}
    /\ UNCHANGED scan

Next == Rescan \/ \E t \in Trades : Trade(t)

BookSpec == Init /\ [][Next]_bookVars
=============================================================================
