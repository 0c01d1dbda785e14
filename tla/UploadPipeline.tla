--------------------------- MODULE UploadPipeline ---------------------------
(***************************************************************************)
(* Screenshot uploads of app-backend, from the HTTP handlers that own an   *)
(* upload batch (handlers_uploads.go) through the Redis job list           *)
(* (job_queue.go) to the workers that extract and normalise the            *)
(* screenshots (workflow_processing.go, trade_slip.go).                    *)
(*                                                                         *)
(* One user is modelled: batches of different users share only the list.   *)
(* Every database transaction and every single UPDATE is one step; what    *)
(* the code does between two of them is a separate step, so that handlers, *)
(* workers and crashes interleave where they can in the program.           *)
(* Report jobs travel on the same list but belong to ReportPipeline: here  *)
(* a worker only hands the new calculation over to them.                   *)
(***************************************************************************)
EXTENDS Naturals, Sequences

CONSTANTS
    Holdings,      \* upload batches created with purpose "holdings"
    TradeSlips,    \* upload batches created with purpose "trade_slip"
    Handlers,      \* HTTP requests the server runs at the same time
    Workers,       \* goroutines started by startWorkers
    NoJob,         \* the empty slot of a handler or a worker
    MaxCompletes,  \* complete requests the client sends per batch
    MaxReviews,    \* review requests the client sends per batch
    MaxFaults      \* crashes, failed enqueues and failed calls, together

Batches == Holdings \cup TradeSlips

JobTypes == {"ocr_holdings", "ocr_trade_slip", "normalize_holdings"}
Jobs == [type: JobTypes, batch: Batches]

ASSUME PurposeAssumption == Holdings \cap TradeSlips = {}
ASSUME NoJobAssumption == NoJob \notin Jobs

Statuses == {"none", "pending_upload", "processing", "needs_review", "completed", "failed"}
RowSources == {"none", "ocr", "edited"}
\* How far the report of a new calculation got: created with the snapshot,
\* status_paid marked, or a preview or paid job pushed on the list.
Handoffs == {"created", "marked", "preview", "paid"}
WorkerPCs == {"idle", "popped", "loaded", "stored", "rejected", "applied", "built", "committed", "marked"}

VARIABLES
    status,     \* UploadBatch.Status
    rows,       \* the batch's OCRAsset rows: which extraction, and who wrote last
    scans,      \* scan snapshots made from the batch, each with its calculation
    deltas,     \* delta snapshots made from the batch
    portfolio,  \* whether User.ActivePortfolioSnapshot is set
    queue,      \* the Redis list jobs:queue
    handler,    \* job a handler is about to push, or NoJob
    worker,     \* where each worker is in its job
    client,     \* requests sent and the extraction the review screen shows
    dropped,    \* batches one of whose jobs was abandoned with work undone
    faults      \* faults so far

db == <<status, rows, scans, deltas, portfolio>>
procs == <<queue, handler, worker>>
env == <<client, dropped, faults>>
vars == <<db, procs, env>>

RowStates == [gen: Nat, source: RowSources]
ScanStates == [source: RowSources, report: Handoffs]
WorkerStates == [pc: WorkerPCs, job: Jobs \cup {NoJob}, source: RowSources, calc: Nat]
ClientStates == [completes: Nat, reviews: Nat, seen: Nat]

IdleWorker == [pc |-> "idle", job |-> NoJob, source |-> "none", calc |-> 0]

TypeOK ==
    /\ status \in [Batches -> Statuses]
    /\ rows \in [Batches -> RowStates]
    /\ scans \in [Batches -> Seq(ScanStates)]
    /\ deltas \in [Batches -> Nat]
    /\ portfolio \in {"absent", "active"}
    /\ queue \in Seq(Jobs)
    /\ handler \in [Handlers -> Jobs \cup {NoJob}]
    /\ worker \in [Workers -> WorkerStates]
    /\ client \in [Batches -> ClientStates]
    /\ dropped \subseteq Batches
    /\ faults \in Nat

Init ==
    /\ status = [b \in Batches |-> "none"]
    /\ rows = [b \in Batches |-> [gen |-> 0, source |-> "none"]]
    /\ scans = [b \in Batches |-> << >>]
    /\ deltas = [b \in Batches |-> 0]
    /\ portfolio \in {"absent", "active"}
    /\ queue = << >>
    /\ handler = [h \in Handlers |-> NoJob]
    /\ worker = [w \in Workers |-> IdleWorker]
    /\ client = [b \in Batches |-> [completes |-> 0, reviews |-> 0, seen |-> 0]]
    /\ dropped = {}
    /\ faults = 0

----------------------------------------------------------------------------
(* HTTP handlers. None of them looks at the status of the batch.           *)

\* handleUploadBatchCreate, quota allowing.
Create(b) ==
    /\ status[b] = "none"
    /\ status' = [status EXCEPT ![b] = "pending_upload"]
    /\ UNCHANGED <<rows, scans, deltas, portfolio, procs, env>>

OCRJob(b) == [type |-> IF b \in TradeSlips THEN "ocr_trade_slip" ELSE "ocr_holdings", batch |-> b]
NormalizeJob(b) == [type |-> "normalize_holdings", batch |-> b]

\* handleUploadBatchComplete up to its UPDATE; the push is Enqueue.
Complete(h, b) ==
    /\ handler[h] = NoJob
    /\ status[b] # "none"
    /\ client[b].completes < MaxCompletes
    /\ client' = [client EXCEPT ![b].completes = @ + 1]
    /\ status' = [status EXCEPT ![b] = "processing"]
    /\ handler' = [handler EXCEPT ![h] = OCRJob(b)]
    /\ UNCHANGED <<rows, scans, deltas, portfolio, queue, worker, dropped, faults>>

\* handleUploadBatchGet: in needs_review the client learns the asset ids it
\* can edit, that is, the extraction the rows belong to.
Poll(b) ==
    /\ status[b] = "needs_review"
    /\ client[b].seen # rows[b].gen
    /\ client' = [client EXCEPT ![b].seen = rows[b].gen]
    /\ UNCHANGED <<db, procs, dropped, faults>>

\* Mutated form: edits reach only rows newer than the ones on screen.
EditedLater(r, seen) == IF r.gen > seen /\ r.source # "none" THEN [r EXCEPT !.source = "edited"] ELSE r

\* Edits name asset ids: they miss every row of a later extraction.
Edited(r, seen) == IF r.gen = seen /\ r.source # "none" THEN [r EXCEPT !.source = "edited"] ELSE r

\* handleUploadBatchReview up to the end of its transaction.
Review(h, b) ==
    /\ handler[h] = NoJob
    /\ client[b].seen > 0
    /\ client[b].reviews < MaxReviews
    /\ client' = [client EXCEPT ![b].reviews = @ + 1]
    /\ rows' = [rows EXCEPT ![b] = Edited(@, client[b].seen)]
    /\ status' = [status EXCEPT ![b] = "processing"]
    /\ handler' = [handler EXCEPT ![h] = NormalizeJob(b)]
    /\ UNCHANGED <<scans, deltas, portfolio, queue, worker, dropped, faults>>

\* enqueue, after the write has been committed.
Enqueue(h) ==
    /\ handler[h] # NoJob
    /\ queue' = Append(queue, handler[h])
    /\ handler' = [handler EXCEPT ![h] = NoJob]
    /\ UNCHANGED <<db, worker, env>>

\* The error of enqueue is discarded: the request context may be cancelled by
\* then, or Redis unreachable, and the answer is still "processing".
LoseEnqueue(h) ==
    /\ handler[h] # NoJob
    /\ faults < MaxFaults
    /\ faults' = faults + 1
    /\ dropped' = dropped \cup {handler[h].batch}
    /\ handler' = [handler EXCEPT ![h] = NoJob]
    /\ UNCHANGED <<db, queue, worker, client>>

----------------------------------------------------------------------------
(* Workers                                                                 *)

\* Mutated form: the list is read without being popped.
RemainingPeeked(q) == q

Remaining(q) == Tail(q)

\* BLPOP removes the job before the worker has looked at it.
Pop(w) ==
    /\ worker[w].pc = "idle"
    /\ queue # << >>
    /\ worker' = [worker EXCEPT ![w] = [IdleWorker EXCEPT !.pc = "popped", !.job = Head(queue)]]
    /\ queue' = Remaining(queue)
    /\ UNCHANGED <<db, handler, env>>

\* Mutated form: extraction insists on a batch that was never completed.
AdmitsFresh(type, st) ==
    IF type = "normalize_holdings" THEN st = "processing" ELSE st = "pending_upload"

\* The statuses in which a job does not return at once.
Admits(type, st) ==
    \/ st = "processing"
    \/ st = "pending_upload" /\ type \in {"ocr_holdings", "ocr_trade_slip"}

Load(w) ==
    /\ worker[w].pc = "popped"
    /\ worker' = [worker EXCEPT ![w] =
         IF Admits(worker[w].job.type, status[worker[w].job.batch])
         THEN [@ EXCEPT !.pc = "loaded"]
         ELSE IdleWorker]
    /\ UNCHANGED <<db, queue, handler, env>>

At(w, pc, type) == worker[w].pc = pc /\ worker[w].job.type = type
Goto(w, pc) == worker' = [worker EXCEPT ![w].pc = pc]
Done(w) == worker' = [worker EXCEPT ![w] = IdleWorker]
SetStatus(b, st) == status' = [status EXCEPT ![b] = st]

\* markBatchFailed: the model cannot read the screenshots, or finds no usable
\* trade in them.
FailExtraction(w) ==
    /\ worker[w].pc = "loaded"
    /\ worker[w].job.type \in {"ocr_holdings", "ocr_trade_slip"}
    /\ SetStatus(worker[w].job.batch, "failed")
    /\ Done(w)
    /\ UNCHANGED <<rows, scans, deltas, portfolio, queue, handler, env>>

\* processOCRHoldings, its transaction: the rows of an earlier extraction and
\* whatever was edited in them are deleted.
StoreExtraction(w) ==
    /\ At(w, "loaded", "ocr_holdings")
    /\ \E pc \in {"stored", "rejected"} :
         /\ rows' = [rows EXCEPT ![worker[w].job.batch] =
              [gen |-> @.gen + 1, source |-> IF pc = "stored" THEN "ocr" ELSE "none"]]
         /\ Goto(w, pc)
    /\ UNCHANGED <<status, scans, deltas, portfolio, queue, handler, env>>

\* Mutated form: the status of an image ends up in the batch.
OutcomeOfImage(pc) == IF pc = "stored" THEN "success" ELSE "failed"

\* Mutated form: a readable batch skips the review.
OutcomeUnreviewed(pc) == IF pc = "stored" THEN "completed" ELSE "failed"

\* The status follows in an UPDATE of its own.
OutcomeOf(pc) == IF pc = "stored" THEN "needs_review" ELSE "failed"

PublishExtraction(w) ==
    /\ worker[w].pc \in {"stored", "rejected"}
    /\ SetStatus(worker[w].job.batch, OutcomeOf(worker[w].pc))
    /\ Done(w)
    /\ UNCHANGED <<rows, scans, deltas, portfolio, queue, handler, env>>

\* applyTradeSlip: applyDeltaToActive commits first.
ApplySlip(w) ==
    /\ At(w, "loaded", "ocr_trade_slip")
    /\ portfolio = "active"
    /\ deltas' = [deltas EXCEPT ![worker[w].job.batch] = @ + 1]
    /\ Goto(w, "applied")
    /\ UNCHANGED <<status, rows, scans, portfolio, queue, handler, env>>

PublishSlip(w) ==
    /\ worker[w].pc = "applied"
    /\ SetStatus(worker[w].job.batch, "completed")
    /\ Done(w)
    /\ UNCHANGED <<rows, scans, deltas, portfolio, queue, handler, env>>

\* Without an active portfolio applyDeltaToActive returns errNotFound, and the
\* job ends without a status for the batch.
AbandonSlip(w) ==
    /\ At(w, "loaded", "ocr_trade_slip")
    /\ portfolio = "absent"
    /\ dropped' = dropped \cup {worker[w].job.batch}
    /\ Done(w)
    /\ UNCHANGED <<db, queue, handler, client, faults>>

\* processNormalization reads the rows after the status.
Build(w) ==
    /\ At(w, "loaded", "normalize_holdings")
    /\ worker' = [worker EXCEPT ![w].pc = "built", ![w].source = rows[worker[w].job.batch].source]
    /\ UNCHANGED <<db, queue, handler, env>>

NewScan(source) == [source |-> source, report |-> "created"]

\* processNormalization, its transaction: snapshot, calculation, active
\* portfolio and status, whatever the status has become meanwhile.
Commit(w) ==
    /\ worker[w].pc = "built"
    /\ LET b == worker[w].job.batch IN
         /\ scans' = [scans EXCEPT ![b] = Append(@, NewScan(worker[w].source))]
         /\ SetStatus(b, "completed")
         /\ worker' = [worker EXCEPT ![w].pc = "committed", ![w].calc = Len(scans[b]) + 1]
    /\ portfolio' = "active"
    /\ UNCHANGED <<rows, deltas, queue, handler, env>>

\* Mutated form: the batch's latest calculation is updated, not the worker's.
HandOverLatest(w, report) ==
    LET b == worker[w].job.batch IN
    scans' = [scans EXCEPT ![b][Len(scans[b])].report = report]

\* Mutated form: the preview job is forgotten.
HandOverPaidOnly(w, report) ==
    IF report = "preview" THEN UNCHANGED scans
    ELSE scans' = [scans EXCEPT ![worker[w].job.batch][worker[w].calc].report = report]

HandOver(w, report) ==
    scans' = [scans EXCEPT ![worker[w].job.batch][worker[w].calc].report = report]

\* An entitled user gets a paid job, after status_paid has been marked ...
MarkPaid(w) ==
    /\ worker[w].pc = "committed"
    /\ HandOver(w, "marked")
    /\ Goto(w, "marked")
    /\ UNCHANGED <<status, rows, deltas, portfolio, queue, handler, env>>

PushPaid(w) ==
    /\ worker[w].pc = "marked"
    /\ HandOver(w, "paid")
    /\ Done(w)
    /\ UNCHANGED <<status, rows, deltas, portfolio, queue, handler, env>>

\* ... and any other user a preview job.
PushPreview(w) ==
    /\ worker[w].pc = "committed"
    /\ HandOver(w, "preview")
    /\ Done(w)
    /\ UNCHANGED <<status, rows, deltas, portfolio, queue, handler, env>>

----------------------------------------------------------------------------
(* Faults                                                                  *)

\* A read, a write, the object store, a price provider or enqueue fails:
\* processJob returns the error, workerLoop logs it and takes the next job.
JobError(w) ==
    /\ worker[w].pc # "idle"
    /\ faults < MaxFaults
    /\ faults' = faults + 1
    /\ dropped' = dropped \cup {worker[w].job.batch}
    /\ Done(w)
    /\ UNCHANGED <<db, queue, handler, client>>

\* The server stops or dies and starts again: Postgres and Redis survive,
\* handlers and workers do not.
Crash ==
    /\ faults < MaxFaults
    /\ faults' = faults + 1
    /\ dropped' = dropped \cup {b \in Batches :
                     \/ \E h \in Handlers : handler[h] # NoJob /\ handler[h].batch = b
                     \/ \E w \in Workers : worker[w].pc # "idle" /\ worker[w].job.batch = b}
    /\ handler' = [h \in Handlers |-> NoJob]
    /\ worker' = [w \in Workers |-> IdleWorker]
    /\ UNCHANGED <<db, queue, client>>

----------------------------------------------------------------------------
Requests ==
    \/ \E b \in Batches : Create(b) \/ Poll(b)
    \/ \E h \in Handlers, b \in Batches : Complete(h, b) \/ Review(h, b)

WorkerStep(w) ==
    \/ Pop(w) \/ Load(w)
    \/ FailExtraction(w) \/ StoreExtraction(w) \/ PublishExtraction(w)
    \/ ApplySlip(w) \/ PublishSlip(w) \/ AbandonSlip(w)
    \/ Build(w) \/ Commit(w) \/ MarkPaid(w) \/ PushPaid(w) \/ PushPreview(w)

Faults ==
    \/ \E h \in Handlers : LoseEnqueue(h)
    \/ \E w \in Workers : JobError(w)
    \/ Crash

Next ==
    \/ Requests
    \/ \E h \in Handlers : Enqueue(h)
    \/ \E w \in Workers : WorkerStep(w)
    \/ Faults

Spec == Init /\ [][Next]_vars

\* The Go runtime schedules every handler and worker, and every external call
\* they make has a timeout. Nothing is assumed of the client or of faults.
FairSpec ==
    /\ Spec
    /\ \A h \in Handlers : WF_vars(Enqueue(h))
    /\ \A w \in Workers : WF_vars(WorkerStep(w))
----------------------------------------------------------------------------
(* Safety                                                                  *)

HasWork(b) ==
    \/ \E i \in 1..Len(queue) : queue[i].batch = b
    \/ \E h \in Handlers : handler[h] # NoJob /\ handler[h].batch = b
    \/ \E w \in Workers :
         /\ worker[w].pc \notin {"idle", "committed", "marked"}
         /\ worker[w].job.batch = b

(***************************************************************************)
(* A batch the client is told to wait for ("processing") has somebody to   *)
(* move it on: a job on the list, a handler about to push one, or a worker *)
(* that has not published a status yet - unless a job of it was abandoned. *)
(* A job that returns at once because of the status it read must therefore *)
(* never be the last one of a batch in "processing".                       *)
(***************************************************************************)
ProcessingHasOwner ==
    \A b \in Batches : status[b] = "processing" /\ b \notin dropped => HasWork(b)

(***************************************************************************)
(* handleUploadBatchGet answers "completed" with the snapshot it looks up  *)
(* by batch and type: a completed batch has a snapshot of its own kind.    *)
(***************************************************************************)
CompletedHasSnapshot ==
    \A b \in Batches : status[b] = "completed" =>
        IF b \in Holdings THEN scans[b] # << >> ELSE deltas[b] > 0

(***************************************************************************)
(* Every calculation normalisation leaves behind without a report job is   *)
(* still in the hands of the worker that made it, or was abandoned.        *)
(***************************************************************************)
CalculationHasOwner ==
    \A b \in Batches : \A i \in 1..Len(scans[b]) :
        scans[b][i].report \in {"created", "marked"} /\ b \notin dropped =>
            \E w \in Workers :
                /\ worker[w].pc \in {"committed", "marked"}
                /\ worker[w].job.batch = b
                /\ worker[w].calc = i

(***************************************************************************)
(* What the user confirmed on the review screen is what gets priced: no    *)
(* scan snapshot is built from rows that miss the user's edits. Holds for  *)
(* a client that completes a batch once; a second extraction that starts   *)
(* while the review is processed deletes the edited rows.                  *)
(***************************************************************************)
EditsReachSnapshot ==
    \A b \in Batches : \A i \in 1..Len(scans[b]) : scans[b][i].source = "edited"

(***************************************************************************)
(* One upload changes the portfolio once, through every crash and retry    *)
(* of a client that sends each request once: no job runs twice.            *)
(***************************************************************************)
OneSnapshotPerUpload ==
    \A b \in Batches : Len(scans[b]) + deltas[b] <= 1

----------------------------------------------------------------------------
(* Liveness                                                                *)

(***************************************************************************)
(* The client's polling ends: a batch in "processing" gets another status, *)
(* unless one of its jobs was abandoned.                                   *)
(***************************************************************************)
ProcessingSettles ==
    \A b \in Batches : status[b] = "processing" ~> (status[b] # "processing" \/ b \in dropped)

(***************************************************************************)
(* A calculation is eventually handed over to a report job, unless a job   *)
(* of its batch was abandoned.                                             *)
(***************************************************************************)
CalculationsHandedOver ==
    \A b \in Batches :
        (\E i \in 1..Len(scans[b]) : scans[b][i].report \in {"created", "marked"})
            ~> (\A i \in 1..Len(scans[b]) : scans[b][i].report \in {"preview", "paid"}) \/ b \in dropped

(***************************************************************************)
(* What the backend specification says of failing jobs: they are retried   *)
(* and then marked failed, so every batch in "processing" gets another     *)
(* status.                                                                 *)
(***************************************************************************)
FailedJobsAreMarked ==
    \A b \in Batches : status[b] = "processing" ~> status[b] # "processing"

(***************************************************************************)
(* What an upload becomes is one snapshot with the user's edits in it.     *)
(***************************************************************************)
UploadsCountOnce == EditsReachSnapshot /\ OneSnapshotPerUpload

(***************************************************************************)
(* No stage of the pipeline ends without what the next one needs: a        *)
(* completed batch has its snapshot, a calculation its report job.         *)
(***************************************************************************)
StagesConnect == CompletedHasSnapshot /\ CalculationHasOwner

(***************************************************************************)
(* Every stage ends: polling does, and calculations are handed over.       *)
(***************************************************************************)
StagesEnd == ProcessingSettles /\ CalculationsHandedOver
=============================================================================
