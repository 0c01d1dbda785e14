--------------------------- MODULE BatchLifecycle ---------------------------
(***************************************************************************)
(* What an upload batch promises its owner, without handlers, jobs and     *)
(* workers: screenshots are extracted once, confirmed once and turned into *)
(* at most one snapshot, and a completed or failed batch stays as it is.   *)
(***************************************************************************)
EXTENDS Naturals

CONSTANTS Holdings, TradeSlips

VARIABLES
    status,     \* what handleUploadBatchGet answers
    confirmed,  \* batches whose extraction the user has confirmed
    results     \* portfolio snapshots made from the batch

lifecycleVars == <<status, confirmed, results>>

Batches == Holdings \cup TradeSlips

Init ==
    /\ status = [b \in Batches |-> "none"]
    /\ confirmed = {}
    /\ results = [b \in Batches |-> 0]

Move(b, from, to) == status[b] = from /\ status' = [status EXCEPT ![b] = to]

Open(b) == Move(b, "none", "pending_upload") /\ UNCHANGED <<confirmed, results>>

Submit(b) == Move(b, "pending_upload", "processing") /\ UNCHANGED <<confirmed, results>>

Extract(b) ==
    /\ b \in Holdings \ confirmed
    /\ Move(b, "processing", "needs_review")
    /\ UNCHANGED <<confirmed, results>>

Reject(b) ==
    /\ b \notin confirmed
    /\ results[b] = 0
    /\ Move(b, "processing", "failed")
    /\ UNCHANGED <<confirmed, results>>

Confirm(b) ==
    /\ Move(b, "needs_review", "processing")
    /\ confirmed' = confirmed \cup {b}
    /\ UNCHANGED results

\* A confirmed upload becomes a scan snapshot together with its status ...
Price(b) ==
    /\ b \in confirmed
    /\ results[b] = 0
    /\ Move(b, "processing", "completed")
    /\ results' = [results EXCEPT ![b] = 1]
    /\ UNCHANGED confirmed

\* ... a trade slip a delta snapshot shortly before it.
Trade(b) ==
    /\ b \in TradeSlips
    /\ status[b] = "processing"
    /\ results[b] = 0
    /\ results' = [results EXCEPT ![b] = 1]
    /\ UNCHANGED <<status, confirmed>>

Book(b) ==
    /\ b \in TradeSlips
    /\ results[b] = 1
    /\ Move(b, "processing", "completed")
    /\ UNCHANGED <<confirmed, results>>

Next ==
    \E b \in Batches :
        \/ Open(b) \/ Submit(b) \/ Extract(b) \/ Reject(b)
        \/ Confirm(b) \/ Price(b) \/ Trade(b) \/ Book(b)

LifecycleSpec == Init /\ [][Next]_lifecycleVars
=============================================================================
