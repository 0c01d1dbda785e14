--------------------------- MODULE ReportPipeline ---------------------------
(***************************************************************************)
(* Reports of app-backend: the two tiers of a Calculation row, from the    *)
(* normalisation that creates it (end of processNormalization) and the     *)
(* requests that ask for it (handlers_reports.go) through the job list to  *)
(* processPreviewReport and processPaidReport (workflow_processing.go).    *)
(*                                                                         *)
(* One user. A handler reads a calculation and updates it in a later       *)
(* statement that does not test what it read; a worker reads it, waits for *)
(* the model, and writes its result in one transaction.                    *)
(* What a run of the model writes is identified by the number of the run:  *)
(* 0 stands for null.                                                      *)
(***************************************************************************)
EXTENDS Naturals, Sequences

CONSTANTS
    Scanned,      \* snapshots made by normalisation, with a calculation
    Derived,      \* delta and refresh snapshots, made without one
    Handlers,     \* HTTP requests the server runs at the same time
    Workers,      \* goroutines started by startWorkers
    NoSnapshot,   \* User.ActivePortfolioSnapshot when it is null
    MaxRequests,  \* report requests of the client
    MaxFaults     \* crashes and failed calls

Snapshots == Scanned \cup Derived

ASSUME SnapshotAssumption == Scanned \cap Derived = {} /\ NoSnapshot \notin Snapshots

Tiers == {"preview", "paid"}
Statuses == {"not_started", "processing", "ready", "failed"}
JobTypes == Tiers \cup {"normalize"}

VARIABLES
    calcs,     \* Calculation rows of each snapshot, oldest first
    states,    \* run whose plans the user's PlanState rows follow
    runs,      \* runs committed so far
    active,    \* User.ActivePortfolioSnapshot
    entitled,  \* hasActiveEntitlement
    queue,     \* the Redis list jobs:queue
    handler,   \* where each request is
    worker,    \* where each worker is in its job
    requests,  \* report requests sent
    dropped,   \* calculations one of whose jobs was lost
    faults

db == <<calcs, states, runs>>
vars == <<calcs, states, runs, active, entitled, queue, handler, worker, requests, dropped, faults>>

Rows == [status : [Tiers -> Statuses], payload : [Tiers -> Nat], plans : Nat, risks : Nat]
Ids == [snapshot : Snapshots, n : Nat]
Jobs == [type : JobTypes, id : Ids]
NoId == [snapshot |-> NoSnapshot, n |-> 0]
NoJob == [type |-> "none", id |-> NoId]

IdleHandler == [pc |-> "idle", tier |-> "preview", id |-> NoId, wipes |-> FALSE]
IdleWorker == [pc |-> "idle", job |-> NoJob]

TypeOK ==
    /\ calcs \in [Snapshots -> Seq(Rows)]
    /\ {states, runs, requests, faults} \subseteq Nat
    /\ active \in Snapshots \cup {NoSnapshot}
    /\ entitled \in BOOLEAN
    /\ queue \in Seq(Jobs)
    /\ handler \in [Handlers -> [pc : {"idle", "create", "reset", "push"}, tier : Tiers,
                                 id : Ids \cup {NoId}, wipes : BOOLEAN]]
    /\ worker \in [Workers -> [pc : {"idle", "popped", "committed", "marked"}, job : Jobs \cup {NoJob}]]
    /\ dropped \subseteq Ids

Init ==
    /\ calcs = [p \in Snapshots |-> << >>]
    /\ states = 0
    /\ runs = 0
    /\ active = NoSnapshot
    /\ entitled \in BOOLEAN
    /\ queue = << >>
    /\ handler = [h \in Handlers |-> IdleHandler]
    /\ worker = [w \in Workers |-> IdleWorker]
    /\ requests = 0
    /\ dropped = {}
    /\ faults = 0

NewRow(preview, paid) ==
    [status |-> [t \in Tiers |-> IF t = "preview" THEN preview ELSE paid],
     payload |-> [t \in Tiers |-> 0], plans |-> 0, risks |-> 0]

Row(id) == calcs[id.snapshot][id.n]
Write(id, row) == calcs' = [calcs EXCEPT ![id.snapshot][id.n] = row]
Push(type, id) == queue' = Append(queue, [type |-> type, id |-> id])
Stay(h) == handler' = [handler EXCEPT ![h] = IdleHandler]
Done(w) == worker' = [worker EXCEPT ![w] = IdleWorker]

----------------------------------------------------------------------------
(* Around the reports                                                      *)

\* handleUploadBatchReview: the normalisation job of a batch.
SubmitScan(p) ==
    /\ p \in Scanned
    /\ calcs[p] = << >>
    /\ ~\E i \in 1..Len(queue) : queue[i].id.snapshot = p
    /\ ~\E w \in Workers : worker[w].job.id.snapshot = p
    /\ [snapshot |-> p, n |-> 1] \notin dropped
    /\ Push("normalize", [snapshot |-> p, n |-> 1])
    /\ UNCHANGED <<db, active, entitled, handler, worker, requests, dropped, faults>>

\* applyDeltaToActive or refreshActivePortfolio.
Derive(p) ==
    /\ p \in Derived
    /\ active \in Scanned
    /\ active' = p
    /\ UNCHANGED <<db, entitled, queue, handler, worker, requests, dropped, faults>>

\* A purchase, an expiry or a refund.
ChangeEntitlement ==
    /\ entitled' = ~entitled
    /\ UNCHANGED <<db, active, queue, handler, worker, requests, dropped, faults>>

----------------------------------------------------------------------------
(* HTTP handlers                                                           *)

\* A report that is processing or ready is not started again.
Restartable(status) == status \in {"not_started", "failed"}

\* Mutated form: a new calculation counts as asked for before its job exists.
SettledRow(tier) == NewRow("processing", "processing")

\* The row handleReportActive creates for a snapshot without one.
RequestedRow(tier) ==
    NewRow(IF tier = "preview" THEN "processing" ELSE "not_started",
           IF tier = "paid" THEN "processing" ELSE "not_started")

Begin(h) ==
    /\ handler[h].pc = "idle"
    /\ requests < MaxRequests
    /\ requests' = requests + 1
    /\ UNCHANGED <<db, active, entitled, queue, worker, dropped, faults>>

\* handleReportPaid up to its status check.
RequestPaid(h, id) ==
    /\ Begin(h)
    /\ id.n \in 1..Len(calcs[id.snapshot])
    /\ entitled
    /\ Restartable(Row(id).status["paid"])
    /\ handler' = [handler EXCEPT ![h] = [pc |-> "reset", tier |-> "paid", id |-> id, wipes |-> FALSE]]

\* handleReportActive up to its status check, on the latest calculation of
\* the active snapshot if it has one.
RequestActive(h, tier) ==
    /\ Begin(h)
    /\ active # NoSnapshot
    /\ tier = "paid" => entitled
    /\ LET n == Len(calcs[active])
           id == [snapshot |-> active, n |-> n]
       IN  /\ n > 0 => Restartable(Row(id).status[tier])
           /\ handler' = [handler EXCEPT ![h] =
                [pc |-> IF n = 0 THEN "create" ELSE "reset", tier |-> tier, id |-> id, wipes |-> TRUE]]

\* handleReportActive creates a calculation.
Create(h) ==
    /\ handler[h].pc = "create"
    /\ LET p == handler[h].id.snapshot IN
         /\ calcs' = [calcs EXCEPT ![p] = Append(@, RequestedRow(handler[h].tier))]
         /\ handler' = [handler EXCEPT ![h].pc = "push", ![h].id.n = Len(calcs[p]) + 1]
    /\ UNCHANGED <<states, runs, active, entitled, queue, worker, requests, dropped, faults>>

\* The UPDATE of handleReportPaid, and of handleReportActive, which also
\* removes the payload.
Reset(h) ==
    /\ handler[h].pc = "reset"
    /\ LET id == handler[h].id
           tier == handler[h].tier
       IN  Write(id, [Row(id) EXCEPT !.status[tier] = "processing",
                                     !.payload[tier] = IF handler[h].wipes THEN 0 ELSE @])
    /\ handler' = [handler EXCEPT ![h].pc = "push"]
    /\ UNCHANGED <<states, runs, active, entitled, queue, worker, requests, dropped, faults>>

Enqueue(h) ==
    /\ handler[h].pc = "push"
    /\ Push(handler[h].tier, handler[h].id)
    /\ Stay(h)
    /\ UNCHANGED <<db, active, entitled, worker, requests, dropped, faults>>

\* A failed statement or a cancelled request ends the request; the error of
\* enqueue is discarded, with the status already written.
GiveUp(h) ==
    /\ handler[h].pc # "idle"
    /\ faults < MaxFaults
    /\ faults' = faults + 1
    /\ dropped' = IF handler[h].pc = "push" THEN dropped \cup {handler[h].id} ELSE dropped
    /\ Stay(h)
    /\ UNCHANGED <<db, active, entitled, queue, worker, requests>>

----------------------------------------------------------------------------
(* Workers                                                                 *)

\* A report worker has read its calculation once it has popped the job: what
\* it read decides only which prompt it sends.
Pop(w) ==
    /\ worker[w].pc = "idle"
    /\ queue # << >>
    /\ worker' = [worker EXCEPT ![w] = [pc |-> "popped", job |-> Head(queue)]]
    /\ queue' = Tail(queue)
    /\ UNCHANGED <<db, active, entitled, handler, requests, dropped, faults>>

At(w, pc, type) == worker[w].pc = pc /\ worker[w].job.type = type

\* processNormalization, its transaction.
Normalize(w) ==
    /\ At(w, "popped", "normalize")
    /\ LET p == worker[w].job.id.snapshot IN
         /\ calcs' = [calcs EXCEPT ![p] = Append(@, NewRow("processing", "not_started"))]
         /\ active' = p
    /\ worker' = [worker EXCEPT ![w].pc = "committed"]
    /\ UNCHANGED <<states, runs, entitled, queue, handler, requests, dropped, faults>>

\* Its tail: a paid report for an entitled user ...
MarkPaid(w) ==
    /\ worker[w].pc = "committed"
    /\ entitled
    /\ Write(worker[w].job.id, [Row(worker[w].job.id) EXCEPT !.status["paid"] = "processing"])
    /\ worker' = [worker EXCEPT ![w].pc = "marked"]
    /\ UNCHANGED <<states, runs, active, entitled, queue, handler, requests, dropped, faults>>

PushPaid(w) ==
    /\ worker[w].pc = "marked"
    /\ Push("paid", worker[w].job.id)
    /\ Done(w)
    /\ UNCHANGED <<db, active, entitled, handler, requests, dropped, faults>>

\* ... and a preview for any other.
PushPreview(w) ==
    /\ worker[w].pc = "committed"
    /\ ~entitled
    /\ Push("preview", worker[w].job.id)
    /\ Done(w)
    /\ UNCHANGED <<db, active, entitled, handler, requests, dropped, faults>>

\* The model does not answer, or breaks the rules three times.
FailReport(w) ==
    /\ worker[w].pc = "popped"
    /\ worker[w].job.type \in Tiers
    /\ LET id == worker[w].job.id IN
         Write(id, [Row(id) EXCEPT !.status[worker[w].job.type] = "failed"])
    /\ Done(w)
    /\ UNCHANGED <<states, runs, active, entitled, queue, handler, requests, dropped, faults>>

\* Mutated forms: the status of an upload batch, and none at all.
PreviewRowCompleted(row, run) ==
    [row EXCEPT !.status["preview"] = "completed", !.payload["preview"] = run, !.risks = run]
PreviewRowUnmarked(row, run) == [row EXCEPT !.payload["preview"] = run, !.risks = run]

\* Mutated form: the plans of an earlier run are kept.
PaidRowKeepingPlans(row, run) ==
    [row EXCEPT !.status["paid"] = "ready", !.payload["paid"] = run, !.risks = run,
                !.plans = IF @ = 0 THEN run ELSE @]

\* What the two kinds of run write, each in one transaction that begins with
\* the calculation's row: it replaces the risks, and a paid run the plans.
PreviewRow(row, run) ==
    [row EXCEPT !.status["preview"] = "ready", !.payload["preview"] = run, !.risks = run]
PaidRow(row, run) ==
    [row EXCEPT !.status["paid"] = "ready", !.payload["paid"] = run, !.plans = run, !.risks = run]

FinishPreview(w) ==
    /\ At(w, "popped", "preview")
    /\ Write(worker[w].job.id, PreviewRow(Row(worker[w].job.id), runs + 1))
    /\ runs' = runs + 1
    /\ Done(w)
    /\ UNCHANGED <<states, active, entitled, queue, handler, requests, dropped, faults>>

\* A paid run also replaces every PlanState of the user.
FinishPaid(w) ==
    /\ At(w, "popped", "paid")
    /\ Write(worker[w].job.id, PaidRow(Row(worker[w].job.id), runs + 1))
    /\ states' = runs + 1
    /\ runs' = runs + 1
    /\ Done(w)
    /\ UNCHANGED <<active, entitled, queue, handler, requests, dropped, faults>>

\* processJob returns an error, or an enqueue fails.
JobError(w) ==
    /\ worker[w].pc # "idle"
    /\ faults < MaxFaults
    /\ faults' = faults + 1
    /\ dropped' = dropped \cup {worker[w].job.id}
    /\ Done(w)
    /\ UNCHANGED <<db, active, entitled, queue, handler, requests>>

Crash ==
    /\ faults < MaxFaults
    /\ faults' = faults + 1
    /\ dropped' = dropped \cup {handler[h].id : h \in {g \in Handlers : handler[g].pc = "push"}}
                          \cup {worker[w].job.id : w \in {v \in Workers : worker[v].pc # "idle"}}
    /\ handler' = [h \in Handlers |-> IdleHandler]
    /\ worker' = [w \in Workers |-> IdleWorker]
    /\ UNCHANGED <<db, active, entitled, queue, requests>>

----------------------------------------------------------------------------
HandlerStep(h) == Create(h) \/ Reset(h) \/ Enqueue(h)

WorkerStep(w) ==
    \/ Pop(w) \/ Normalize(w) \/ MarkPaid(w) \/ PushPaid(w) \/ PushPreview(w)
    \/ FailReport(w) \/ FinishPreview(w) \/ FinishPaid(w)

Client ==
    \/ \E p \in Snapshots : SubmitScan(p) \/ Derive(p)
    \/ ChangeEntitlement
    \/ \E h \in Handlers, p \in Snapshots : \E n \in 1..Len(calcs[p]) :
         RequestPaid(h, [snapshot |-> p, n |-> n])
    \/ \E h \in Handlers, tier \in Tiers : RequestActive(h, tier)

Faults ==
    \/ \E h \in Handlers : GiveUp(h)
    \/ \E w \in Workers : JobError(w)
    \/ Crash

Next ==
    \/ Client
    \/ \E h \in Handlers : HandlerStep(h)
    \/ \E w \in Workers : WorkerStep(w)
    \/ Faults

Spec == Init /\ [][Next]_vars

\* As in UploadPipeline: handlers and workers are scheduled, every external
\* call has a timeout. Nothing is assumed of the client.
FairSpec ==
    /\ Spec
    /\ \A h \in Handlers : WF_vars(HandlerStep(h))
    /\ \A w \in Workers : WF_vars(WorkerStep(w))

----------------------------------------------------------------------------
(* Properties                                                              *)

Calculations == {[snapshot |-> p, n |-> n] : p \in Snapshots, n \in 1..MaxRequests + 1}
Existing == {id \in Calculations : id.n <= Len(calcs[id.snapshot])}

(***************************************************************************)
(* handleReportByID and handleReportPlan serve a ready report from its     *)
(* payload and its plans: they are there, and of the same run, although    *)
(* handlers reset a report while older jobs of it are still running.       *)
(***************************************************************************)
ReadyIsComplete ==
    \A id \in Existing :
        /\ \A t \in Tiers : Row(id).status[t] = "ready" => Row(id).payload[t] # 0
        /\ Row(id).status["paid"] = "ready" => Row(id).plans = Row(id).payload["paid"]

\* Somebody is going to write the report's next status.
Awaited(id, tier) ==
    \/ \E i \in 1..Len(queue) : queue[i] = [type |-> tier, id |-> id]
    \/ \E h \in Handlers : handler[h].pc = "push" /\ handler[h].tier = tier /\ handler[h].id = id
    \/ \E w \in Workers : worker[w].pc # "idle" /\ worker[w].job.id = id
                          /\ worker[w].job.type \in {tier, "normalize"}

(***************************************************************************)
(* A report the client is told to wait for has a job on the list, a        *)
(* handler or a worker at it, unless one of its jobs was lost. A preview   *)
(* is exempt once the paid tier was asked for: for an entitled user        *)
(* normalisation pushes no preview job, and nothing restarts one.          *)
(***************************************************************************)
ProcessingIsAwaited ==
    \A id \in Existing : id \notin dropped =>
        /\ Row(id).status["paid"] = "processing" => Awaited(id, "paid")
        /\ Row(id).status["preview"] = "processing" =>
             Awaited(id, "preview") \/ Row(id).status["paid"] # "not_started"

Settled(id, t) == id \in Existing /\ Row(id).status[t] \in {"ready", "failed"}
Waiting(id, t) == id \in Existing /\ Row(id).status[t] = "processing"

(***************************************************************************)
(* Waiting for a paid report ends: it becomes ready or failed, unless one  *)
(* of its jobs was lost.                                                   *)
(***************************************************************************)
PaidSettles ==
    \A id \in Calculations : Waiting(id, "paid") ~> (Settled(id, "paid") \/ id \in dropped)

(***************************************************************************)
(* Every scan yields some report: a calculation that normalisation left    *)
(* with a preview in processing gets one tier settled, or lost a job.      *)
(***************************************************************************)
ScanYieldsReport ==
    \A id \in Calculations : Waiting(id, "preview") ~>
        (Settled(id, "preview") \/ Settled(id, "paid") \/ id \in dropped)

(***************************************************************************)
(* A plan's priority follows the severity of the risk it is linked to:     *)
(* handleReportPlan reads it from the ReportRisk rows, which must be those *)
(* of the run that wrote the paid report.                                  *)
(***************************************************************************)
PlanRisksAgree ==
    \A id \in Existing :
        Row(id).status["paid"] = "ready" => Row(id).risks = Row(id).payload["paid"]

\* loadLatestPaidPlansForUser: the ready report with the latest paid_at.
ReadyPaid == {id \in Existing : Row(id).status["paid"] = "ready"}

(***************************************************************************)
(* Trades advance PlanState rows with the plans of the user's latest ready *)
(* report: the rows must be those of that report.                          *)
(***************************************************************************)
StatesFollowPlans ==
    \A id \in ReadyPaid :
        (\A o \in ReadyPaid : Row(o).payload["paid"] <= Row(id).payload["paid"])
            => states = Row(id).plans

(***************************************************************************)
(* Whoever waits for a report gets one: for a paid report after a request, *)
(* for some report after a scan.                                           *)
(***************************************************************************)
ReportsSettle == PaidSettles /\ ScanYieldsReport
=============================================================================
