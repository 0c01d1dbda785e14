----------------------- MODULE UploadPipeline_proofs ------------------------
(* Proofs about UploadPipeline, for every set of batches, handlers and     *)
(* workers and every bound on requests and faults.                         *)
EXTENDS UploadLifecycle, TLAPS

\* A worker that is not idle holds a job.
BusyHasJob == \A w \in Workers : worker[w].pc # "idle" => worker[w].job \in Jobs

\* A worker that has committed a calculation knows where it is.
CalcInRange ==
    \A w \in Workers : worker[w].pc \in {"committed", "marked"} =>
        worker[w].calc \in 1..Len(scans[worker[w].job.batch])

TInv == TypeOK /\ BusyHasJob /\ CalcInRange

----------------------------------------------------------------------------
(* What the helpers do to one worker                                       *)

LEMMA JobFacts ==
  /\ \A b \in Batches : OCRJob(b) \in Jobs /\ NormalizeJob(b) \in Jobs
  /\ \A j \in Jobs : j.batch \in Batches /\ j # NoJob
  BY NoJobAssumption DEF OCRJob, NormalizeJob, Jobs, JobTypes

LEMMA IdleFacts ==
  IdleWorker \in WorkerStates /\ IdleWorker.pc = "idle" /\ IdleWorker.job = NoJob
  BY DEF IdleWorker, WorkerStates, WorkerPCs, RowSources

LEMMA GotoEffect ==
  ASSUME worker \in [Workers -> WorkerStates], NEW w \in Workers, NEW pc \in WorkerPCs, Goto(w, pc)
  PROVE  /\ worker' \in [Workers -> WorkerStates]
         /\ worker'[w].pc = pc
         /\ worker'[w].job = worker[w].job
         /\ worker'[w].calc = worker[w].calc
         /\ \A v \in Workers \ {w} : worker'[v] = worker[v]
  BY DEF Goto, WorkerStates

LEMMA DoneEffect ==
  ASSUME worker \in [Workers -> WorkerStates], NEW w \in Workers, Done(w)
  PROVE  /\ worker' \in [Workers -> WorkerStates]
         /\ worker'[w].pc = "idle"
         /\ \A v \in Workers \ {w} : worker'[v] = worker[v]
  BY IdleFacts DEF Done

\* What a step on worker w must establish of the other variables.
LEMMA WorkerFrame ==
  ASSUME TInv, NEW w \in Workers,
         worker' \in [Workers -> WorkerStates],
         \A v \in Workers \ {w} : worker'[v] = worker[v],
         worker'[w].pc # "idle" => worker'[w].job \in Jobs,
         worker'[w].pc \in {"committed", "marked"} =>
            worker'[w].calc \in 1..Len(scans'[worker'[w].job.batch]),
         status' \in [Batches -> Statuses],
         rows' \in [Batches -> RowStates],
         scans' \in [Batches -> Seq(ScanStates)],
         \A b \in Batches : Len(scans'[b]) >= Len(scans[b]),
         deltas' \in [Batches -> Nat],
         portfolio' \in {"absent", "active"},
         queue' \in Seq(Jobs),
         UNCHANGED <<handler, client>>,
         dropped' \subseteq Batches,
         faults' \in Nat
  PROVE  TInv'
<1>1. TypeOK'
  BY DEF TInv, TypeOK
<1>2. BusyHasJob'
  BY DEF TInv, BusyHasJob
<1>3. CalcInRange'
  <2> SUFFICES ASSUME NEW v \in Workers, worker'[v].pc \in {"committed", "marked"}, v # w
               PROVE  worker'[v].calc \in 1..Len(scans'[worker'[v].job.batch])
    BY DEF CalcInRange
  <2>1. worker'[v] = worker[v] /\ worker[v].job \in Jobs /\ worker[v].calc \in 1..Len(scans[worker[v].job.batch])
    BY DEF TInv, BusyHasJob, CalcInRange
  <2>2. worker[v].job.batch \in Batches
    BY <2>1, JobFacts
  <2>3. ASSUME NEW b \in Batches PROVE Len(scans[b]) \in Nat /\ Len(scans'[b]) \in Nat
    BY <1>1 DEF TInv, TypeOK
  <2> QED
    BY <2>1, <2>2, <2>3
<1> QED
  BY <1>1, <1>2, <1>3 DEF TInv

LEMMA WorkerTInv ==
  ASSUME TInv, NEW w \in Workers, WorkerStep(w)
  PROVE  TInv'
<1> DEFINE b == worker[w].job.batch
<1>1. /\ worker \in [Workers -> WorkerStates] /\ worker[w] \in WorkerStates
      /\ status \in [Batches -> Statuses] /\ rows \in [Batches -> RowStates]
      /\ scans \in [Batches -> Seq(ScanStates)] /\ deltas \in [Batches -> Nat]
      /\ portfolio \in {"absent", "active"} /\ queue \in Seq(Jobs)
      /\ dropped \subseteq Batches /\ faults \in Nat
      /\ \A c \in Batches : Len(scans[c]) \in Nat /\ Len(scans[c]) >= Len(scans[c])
  BY DEF TInv, TypeOK
<1>2. worker[w].pc # "idle" => worker[w].job \in Jobs /\ b \in Batches
  BY JobFacts DEF TInv, BusyHasJob
<1>3. worker[w].pc \in {"committed", "marked"} => worker[w].calc \in 1..Len(scans[b])
  BY DEF TInv, CalcInRange
<1> HIDE DEF b
<1>4. CASE Pop(w)
  <2> DEFINE r == [IdleWorker EXCEPT !.pc = "popped", !.job = Head(queue)]
  <2>1. Head(queue) \in Jobs /\ Tail(queue) \in Seq(Jobs)
    BY <1>1, <1>4 DEF Pop
  <2>2. r \in WorkerStates /\ r.pc = "popped" /\ r.job = Head(queue)
    BY <2>1 DEF IdleWorker, WorkerStates, WorkerPCs, RowSources
  <2>3. worker' = [worker EXCEPT ![w] = r] /\ queue' = Tail(queue)
    BY <1>4 DEF Pop, Remaining
  <2> HIDE DEF r
  <2>4. UNCHANGED <<status, rows, scans, deltas, portfolio, handler, client, dropped, faults>>
    BY <1>4 DEF Pop, db, env
  <2>5. worker' \in [Workers -> WorkerStates] /\ worker'[w] = r /\ \A v \in Workers \ {w} : worker'[v] = worker[v]
    BY <1>1, <2>2, <2>3
  <2> QED
    BY <1>1, <2>1, <2>2, <2>3, <2>4, <2>5, WorkerFrame
<1>5. CASE Load(w)
  <2> DEFINE r == IF Admits(worker[w].job.type, status[worker[w].job.batch])
                  THEN [worker[w] EXCEPT !.pc = "loaded"] ELSE IdleWorker
  <2>1. r \in WorkerStates /\ r.pc \in {"loaded", "idle"} /\ (r.pc = "loaded" => r.job = worker[w].job)
    BY <1>1, IdleFacts DEF WorkerStates, WorkerPCs
  <2>2. worker' = [worker EXCEPT ![w] = r]
    BY <1>1, <1>5 DEF Load
  <2> HIDE DEF r
  <2>3. worker[w].pc = "popped" /\ UNCHANGED <<status, rows, scans, deltas, portfolio, queue, handler, client, dropped, faults>>
    BY <1>5 DEF Load, db, env
  <2>4. worker' \in [Workers -> WorkerStates] /\ worker'[w] = r /\ \A v \in Workers \ {w} : worker'[v] = worker[v]
    BY <1>1, <2>1, <2>2
  <2> QED
    BY <1>1, <1>2, <2>1, <2>3, <2>4, WorkerFrame
<1>6. CASE FailExtraction(w)
  <2>1. /\ worker[w].pc = "loaded" /\ Done(w)
        /\ UNCHANGED <<rows, scans, deltas, portfolio, queue, handler, client, dropped, faults>>
    BY <1>6 DEF FailExtraction, env
  <2>2. status' \in [Batches -> Statuses]
    BY <1>1, <1>2, <1>6, <2>1 DEF FailExtraction, SetStatus, Statuses, b
  <2> QED
    BY <1>1, <2>1, <2>2, DoneEffect, WorkerFrame
<1>7. CASE StoreExtraction(w)
  <2> PICK pc \in {"stored", "rejected"} :
        /\ rows' = [rows EXCEPT ![b] = [gen |-> @.gen + 1, source |-> IF pc = "stored" THEN "ocr" ELSE "none"]]
        /\ Goto(w, pc)
    BY <1>7 DEF StoreExtraction, b
  <2>1. worker[w].pc = "loaded" /\ pc \in WorkerPCs /\ b \in Batches
    BY <1>2, <1>7 DEF StoreExtraction, At, WorkerPCs
  <2>2. rows' \in [Batches -> RowStates]
    BY <1>1, <2>1 DEF RowStates, RowSources
  <2>3. UNCHANGED <<status, scans, deltas, portfolio, queue, handler, client, dropped, faults>>
    BY <1>7 DEF StoreExtraction, env
  <2>4. worker'[w].pc = pc /\ worker'[w].job \in Jobs /\ worker' \in [Workers -> WorkerStates]
        /\ \A v \in Workers \ {w} : worker'[v] = worker[v]
    BY <1>1, <1>2, <2>1, GotoEffect
  <2> QED
    BY <1>1, <2>2, <2>3, <2>4, WorkerFrame
<1>8. CASE PublishExtraction(w)
  <2>1. /\ worker[w].pc \in {"stored", "rejected"} /\ Done(w)
        /\ UNCHANGED <<rows, scans, deltas, portfolio, queue, handler, client, dropped, faults>>
    BY <1>8 DEF PublishExtraction, env
  <2>2. status' \in [Batches -> Statuses]
    BY <1>1, <1>2, <1>8, <2>1 DEF PublishExtraction, OutcomeOf, SetStatus, Statuses, b
  <2> QED
    BY <1>1, <2>1, <2>2, DoneEffect, WorkerFrame
<1>9. CASE ApplySlip(w)
  <2>1. worker[w].pc = "loaded" /\ "applied" \in WorkerPCs /\ b \in Batches
    BY <1>2, <1>9 DEF ApplySlip, At, WorkerPCs
  <2>2. Goto(w, "applied") /\ UNCHANGED <<status, rows, scans, portfolio, queue, handler, client, dropped, faults>>
    BY <1>9 DEF ApplySlip, env
  <2>3. deltas' \in [Batches -> Nat]
    BY <1>1, <1>9, <2>1 DEF ApplySlip, b
  <2> QED
    BY <1>1, <1>2, <2>1, <2>2, <2>3, GotoEffect, WorkerFrame
<1>10. CASE PublishSlip(w)
  <2>1. /\ worker[w].pc = "applied" /\ Done(w)
        /\ UNCHANGED <<rows, scans, deltas, portfolio, queue, handler, client, dropped, faults>>
    BY <1>10 DEF PublishSlip, env
  <2>2. status' \in [Batches -> Statuses]
    BY <1>1, <1>2, <1>10, <2>1 DEF PublishSlip, SetStatus, Statuses, b
  <2> QED
    BY <1>1, <2>1, <2>2, DoneEffect, WorkerFrame
<1>11. CASE AbandonSlip(w)
  <2>1. worker[w].pc = "loaded" /\ Done(w) /\ UNCHANGED <<status, rows, scans, deltas, portfolio, queue, handler, client, faults>>
    BY <1>11 DEF AbandonSlip, At, db
  <2>2. dropped' \subseteq Batches
    BY <1>1, <1>2, <1>11, <2>1 DEF AbandonSlip, b
  <2> QED
    BY <1>1, <2>1, <2>2, DoneEffect, WorkerFrame
<1>12. CASE Build(w)
  <2> DEFINE r == [worker[w] EXCEPT !.pc = "built", !.source = rows[b].source]
  <2>1. worker[w].pc = "loaded" /\ b \in Batches
    BY <1>2, <1>12 DEF Build, At
  <2>2. r \in WorkerStates /\ r.pc = "built" /\ r.job = worker[w].job
    BY <1>1, <2>1 DEF WorkerStates, RowStates, WorkerPCs
  <2>3. worker' = [worker EXCEPT ![w] = r]
    BY <1>1, <1>12 DEF Build, b
  <2> HIDE DEF r
  <2>4. UNCHANGED <<status, rows, scans, deltas, portfolio, queue, handler, client, dropped, faults>>
    BY <1>12 DEF Build, db, env
  <2>5. worker' \in [Workers -> WorkerStates] /\ worker'[w] = r /\ \A v \in Workers \ {w} : worker'[v] = worker[v]
    BY <1>1, <2>2, <2>3
  <2> QED
    BY <1>1, <1>2, <2>1, <2>2, <2>4, <2>5, WorkerFrame
<1>13. CASE Commit(w)
  <2> DEFINE r == [worker[w] EXCEPT !.pc = "committed", !.calc = Len(scans[b]) + 1]
  <2>1. worker[w].pc = "built" /\ b \in Batches
    BY <1>2, <1>13 DEF Commit
  <2>2. r \in WorkerStates /\ r.pc = "committed" /\ r.job = worker[w].job /\ r.calc = Len(scans[b]) + 1
    <3> DEFINE n == Len(scans[b]) + 1
    <3>1. n \in Nat
      BY <1>1, <2>1
    <3> HIDE DEF n
    <3>2. [worker[w] EXCEPT !.pc = "committed", !.calc = n] \in WorkerStates
      BY <1>1, <3>1 DEF WorkerStates, WorkerPCs
    <3> QED
      BY <1>1, <3>2 DEF n, WorkerStates
  <2>3. worker' = [worker EXCEPT ![w] = r]
    BY <1>1, <1>13 DEF Commit, b
  <2>4. NewScan(worker[w].source) \in ScanStates
    BY <1>1 DEF NewScan, ScanStates, WorkerStates, Handoffs
  <2>5. /\ scans' = [scans EXCEPT ![b] = Append(scans[b], NewScan(worker[w].source))]
        /\ status' = [status EXCEPT ![b] = "completed"]
    BY <1>1, <1>13, <2>1 DEF Commit, SetStatus, b
  <2>6. /\ scans' \in [Batches -> Seq(ScanStates)]
        /\ Len(scans'[b]) = Len(scans[b]) + 1
        /\ \A c \in Batches : Len(scans'[c]) >= Len(scans[c])
    BY <1>1, <2>1, <2>4, <2>5
  <2>7. r.job.batch = b
    BY <2>2 DEF b
  <2> HIDE DEF r
  <2>8. worker' \in [Workers -> WorkerStates] /\ worker'[w] = r /\ \A v \in Workers \ {w} : worker'[v] = worker[v]
    BY <1>1, <2>2, <2>3
  <2>9. portfolio' = "active" /\ UNCHANGED <<rows, deltas, queue, handler, client, dropped, faults>>
    BY <1>13 DEF Commit, env
  <2>10. status' \in [Batches -> Statuses]
    BY <1>1, <2>1, <2>5 DEF Statuses
  <2>11. worker'[w].job \in Jobs /\ worker'[w].calc \in 1..Len(scans'[worker'[w].job.batch])
    BY <1>1, <1>2, <2>1, <2>2, <2>6, <2>7, <2>8
  <2> QED
    BY <1>1, <2>6, <2>8, <2>9, <2>10, <2>11, WorkerFrame
<1>14. ASSUME NEW report \in Handoffs, HandOver(w, report), worker[w].pc \in {"committed", "marked"}
       PROVE  /\ scans' \in [Batches -> Seq(ScanStates)]
              /\ \A c \in Batches : Len(scans'[c]) = Len(scans[c])
  <2>1. b \in Batches /\ worker[w].calc \in 1..Len(scans[b])
    BY <1>2, <1>3, <1>14
  <2>2. scans' = [scans EXCEPT ![b][worker[w].calc].report = report]
    BY <1>14 DEF HandOver, b
  <2>3. scans[b] \in Seq(ScanStates) /\ scans[b][worker[w].calc] \in ScanStates
    BY <1>1, <2>1
  <2>4. [scans[b][worker[w].calc] EXCEPT !.report = report] \in ScanStates
    BY <2>3 DEF ScanStates
  <2>5. [scans[b] EXCEPT ![worker[w].calc] = [scans[b][worker[w].calc] EXCEPT !.report = report]] \in Seq(ScanStates)
    BY <2>1, <2>3, <2>4
  <2> QED
    BY <1>1, <2>1, <2>2, <2>3, <2>5
<1>15. CASE MarkPaid(w)
  <2>1. worker[w].pc = "committed" /\ "marked" \in WorkerPCs /\ "marked" \in Handoffs
    BY <1>15 DEF MarkPaid, WorkerPCs, Handoffs
  <2>2. /\ scans' \in [Batches -> Seq(ScanStates)]
        /\ \A c \in Batches : Len(scans'[c]) = Len(scans[c])
    BY <1>14, <1>15, <2>1 DEF MarkPaid
  <2>3. Goto(w, "marked") /\ UNCHANGED <<status, rows, deltas, portfolio, queue, handler, client, dropped, faults>>
    BY <1>15 DEF MarkPaid, env
  <2>4. /\ worker' \in [Workers -> WorkerStates] /\ \A v \in Workers \ {w} : worker'[v] = worker[v]
        /\ worker'[w].pc = "marked" /\ worker'[w].job = worker[w].job /\ worker'[w].calc = worker[w].calc
    BY <1>1, <2>1, <2>3, GotoEffect
  <2>5. worker'[w].job \in Jobs /\ worker'[w].calc \in 1..Len(scans'[worker'[w].job.batch])
    BY <1>2, <1>3, <2>1, <2>2, <2>4 DEF b
  <2>6. \A c \in Batches : Len(scans'[c]) >= Len(scans[c])
    BY <1>1, <2>2
  <2> QED
    BY <1>1, <2>2, <2>3, <2>4, <2>5, <2>6, WorkerFrame
<1>16. CASE PushPaid(w)
  <2>1. /\ scans' \in [Batches -> Seq(ScanStates)]
        /\ \A c \in Batches : Len(scans'[c]) = Len(scans[c])
    BY <1>14, <1>16 DEF PushPaid, Handoffs
  <2>2. Done(w) /\ UNCHANGED <<status, rows, deltas, portfolio, queue, handler, client, dropped, faults>>
    BY <1>16 DEF PushPaid, env
  <2>3. \A c \in Batches : Len(scans'[c]) >= Len(scans[c])
    BY <1>1, <2>1
  <2> QED
    BY <1>1, <2>1, <2>2, <2>3, DoneEffect, WorkerFrame
<1>17. CASE PushPreview(w)
  <2>1. /\ scans' \in [Batches -> Seq(ScanStates)]
        /\ \A c \in Batches : Len(scans'[c]) = Len(scans[c])
    BY <1>14, <1>17 DEF PushPreview, Handoffs
  <2>2. Done(w) /\ UNCHANGED <<status, rows, deltas, portfolio, queue, handler, client, dropped, faults>>
    BY <1>17 DEF PushPreview, env
  <2>3. \A c \in Batches : Len(scans'[c]) >= Len(scans[c])
    BY <1>1, <2>1
  <2> QED
    BY <1>1, <2>1, <2>2, <2>3, DoneEffect, WorkerFrame
<1> QED
  BY <1>4, <1>5, <1>6, <1>7, <1>8, <1>9, <1>10, <1>11, <1>12, <1>13, <1>15, <1>16, <1>17 DEF WorkerStep

----------------------------------------------------------------------------
(* The other steps                                                         *)

LEMMA InitTInv == Init => TInv
<1> SUFFICES ASSUME Init PROVE TInv
  OBVIOUS
<1>1. TypeOK
  BY IdleFacts DEF Init, TypeOK, Statuses, RowStates, RowSources, ClientStates
<1>2. BusyHasJob /\ CalcInRange
  BY IdleFacts DEF Init, BusyHasJob, CalcInRange
<1> QED
  BY <1>1, <1>2 DEF TInv

\* Steps that leave the workers and the snapshots alone.
LEMMA IdleWorkersFrame ==
  ASSUME TInv, TypeOK', UNCHANGED <<worker, scans>>
  PROVE  TInv'
  BY DEF TInv, BusyHasJob, CalcInRange

LEMMA ClientFacts ==
  ASSUME NEW c \in ClientStates
  PROVE  /\ [c EXCEPT !.completes = @ + 1] \in ClientStates
         /\ [c EXCEPT !.reviews = @ + 1] \in ClientStates
<1> DEFINE n == c.completes + 1
           m == c.reviews + 1
<1>1. n \in Nat /\ m \in Nat
  BY DEF ClientStates
<1> HIDE DEF n, m
<1>2. [c EXCEPT !.completes = n] \in ClientStates
  BY <1>1 DEF ClientStates
<1>3. [c EXCEPT !.reviews = m] \in ClientStates
  BY <1>1 DEF ClientStates
<1> QED
  BY <1>2, <1>3 DEF n, m

LEMMA RequestsTInv ==
  ASSUME TInv, Requests
  PROVE  TInv'
<1>1. TypeOK
  BY DEF TInv
<1>2. ASSUME NEW b \in Batches, Create(b)
      PROVE  TInv'
  <2>1. UNCHANGED <<rows, scans, deltas, portfolio, queue, handler, worker, client, dropped, faults>>
    BY <1>2 DEF Create, procs, env
  <2>2. status' \in [Batches -> Statuses]
    BY <1>1, <1>2 DEF Create, TypeOK, Statuses
  <2> QED
    BY <1>1, <2>1, <2>2, IdleWorkersFrame DEF TypeOK
<1>3. ASSUME NEW b \in Batches, Poll(b)
      PROVE  TInv'
  <2>1. UNCHANGED <<status, rows, scans, deltas, portfolio, queue, handler, worker, dropped, faults>>
    BY <1>3 DEF Poll, db, procs
  <2>2. client' \in [Batches -> ClientStates]
    BY <1>1, <1>3 DEF Poll, TypeOK, ClientStates, RowStates
  <2> QED
    BY <1>1, <2>1, <2>2, IdleWorkersFrame DEF TypeOK
<1>4. ASSUME NEW h \in Handlers, NEW b \in Batches, Complete(h, b)
      PROVE  TInv'
  <2>1. UNCHANGED <<rows, scans, deltas, portfolio, queue, worker, dropped, faults>>
    BY <1>4 DEF Complete
  <2>2. status' \in [Batches -> Statuses]
    BY <1>1, <1>4 DEF Complete, TypeOK, Statuses
  <2>3. client' \in [Batches -> ClientStates]
    BY <1>1, <1>4, ClientFacts DEF Complete, TypeOK
  <2>4. handler' \in [Handlers -> Jobs \cup {NoJob}]
    BY <1>1, <1>4, JobFacts DEF Complete, TypeOK
  <2> QED
    BY <1>1, <2>1, <2>2, <2>3, <2>4, IdleWorkersFrame DEF TypeOK
<1>5. ASSUME NEW h \in Handlers, NEW b \in Batches, Review(h, b)
      PROVE  TInv'
  <2>1. UNCHANGED <<scans, deltas, portfolio, queue, worker, dropped, faults>>
    BY <1>5 DEF Review
  <2>2. status' \in [Batches -> Statuses]
    BY <1>1, <1>5 DEF Review, TypeOK, Statuses
  <2>3. client' \in [Batches -> ClientStates]
    BY <1>1, <1>5, ClientFacts DEF Review, TypeOK
  <2>4. handler' \in [Handlers -> Jobs \cup {NoJob}]
    BY <1>1, <1>5, JobFacts DEF Review, TypeOK
  <2>5. Edited(rows[b], client[b].seen) \in RowStates
    <3>1. rows[b] \in RowStates
      BY <1>1 DEF TypeOK
    <3>2. [rows[b] EXCEPT !.source = "edited"] \in RowStates
      BY <3>1 DEF RowStates, RowSources
    <3> QED
      BY <3>1, <3>2 DEF Edited
  <2>6. rows' \in [Batches -> RowStates]
    BY <1>1, <1>5, <2>5 DEF Review, TypeOK
  <2> QED
    BY <1>1, <2>1, <2>2, <2>3, <2>4, <2>6, IdleWorkersFrame DEF TypeOK
<1> QED
  BY <1>2, <1>3, <1>4, <1>5 DEF Requests

LEMMA EnqueueTInv ==
  ASSUME TInv, NEW h \in Handlers, Enqueue(h)
  PROVE  TInv'
<1>1. TypeOK
  BY DEF TInv
<1>2. UNCHANGED <<status, rows, scans, deltas, portfolio, worker, client, dropped, faults>>
  BY DEF Enqueue, db, env
<1>3. handler[h] \in Jobs
  BY <1>1 DEF Enqueue, TypeOK
<1>4. queue' \in Seq(Jobs)
  BY <1>1, <1>3 DEF Enqueue, TypeOK
<1>5. handler' \in [Handlers -> Jobs \cup {NoJob}]
  BY <1>1 DEF Enqueue, TypeOK
<1> QED
  BY <1>1, <1>2, <1>4, <1>5, IdleWorkersFrame DEF TypeOK

LEMMA FaultsTInv ==
  ASSUME TInv, Faults
  PROVE  TInv'
<1>1. TypeOK
  BY DEF TInv
<1>2. ASSUME NEW h \in Handlers, LoseEnqueue(h)
      PROVE  TInv'
  <2>1. UNCHANGED <<status, rows, scans, deltas, portfolio, queue, worker, client>>
    BY <1>2 DEF LoseEnqueue, db
  <2>2. handler[h].batch \in Batches
    BY <1>1, <1>2, JobFacts DEF LoseEnqueue, TypeOK
  <2>3. dropped' \subseteq Batches /\ faults' \in Nat
    BY <1>1, <1>2, <2>2 DEF LoseEnqueue, TypeOK
  <2>4. handler' \in [Handlers -> Jobs \cup {NoJob}]
    BY <1>1, <1>2 DEF LoseEnqueue, TypeOK
  <2> QED
    BY <1>1, <2>1, <2>3, <2>4, IdleWorkersFrame DEF TypeOK
<1>3. ASSUME NEW w \in Workers, JobError(w)
      PROVE  TInv'
  <2>1. Done(w) /\ UNCHANGED <<status, rows, scans, deltas, portfolio, queue, handler, client>>
    BY <1>3 DEF JobError, db
  <2>2. worker[w].job.batch \in Batches
    BY <1>3, JobFacts DEF JobError, TInv, BusyHasJob
  <2>3. dropped' \subseteq Batches /\ faults' \in Nat
    BY <1>1, <1>3, <2>2 DEF JobError, TypeOK
  <2>4. worker \in [Workers -> WorkerStates] /\ \A b \in Batches : Len(scans[b]) >= Len(scans[b])
    BY <1>1 DEF TypeOK
  <2> QED
    BY <1>1, <2>1, <2>3, <2>4, DoneEffect, WorkerFrame DEF TypeOK
<1>4. CASE Crash
  <2>1. UNCHANGED <<status, rows, scans, deltas, portfolio, queue, client>>
    BY <1>4 DEF Crash, db
  <2>2. dropped' \subseteq Batches /\ faults' \in Nat
    BY <1>1, <1>4 DEF Crash, TypeOK
  <2>3. handler' \in [Handlers -> Jobs \cup {NoJob}]
    BY <1>4 DEF Crash
  <2>4. worker' = [w \in Workers |-> IdleWorker]
    BY <1>4 DEF Crash
  <2>5. TypeOK'
    BY <1>1, <2>1, <2>2, <2>3, <2>4, IdleFacts DEF TypeOK
  <2>6. BusyHasJob' /\ CalcInRange'
    BY <2>4, IdleFacts DEF BusyHasJob, CalcInRange
  <2> QED
    BY <2>5, <2>6 DEF TInv
<1> QED
  BY <1>2, <1>3, <1>4 DEF Faults

LEMMA NextTInv == TInv /\ [Next]_vars => TInv'
<1> SUFFICES ASSUME TInv, [Next]_vars PROVE TInv'
  OBVIOUS
<1>1. CASE UNCHANGED vars
  <2>1. UNCHANGED <<status, rows, scans, deltas, portfolio, queue, handler, worker, client, dropped, faults>>
    BY <1>1 DEF vars, db, procs, env
  <2> QED
    BY <2>1, IdleWorkersFrame DEF TInv, TypeOK
<1>2. CASE Next
  BY <1>2, RequestsTInv, EnqueueTInv, WorkerTInv, FaultsTInv DEF Next
<1> QED
  BY <1>1, <1>2

LEMMA AlwaysTInv == Spec => []TInv
  BY InitTInv, NextTInv, PTL DEF Spec

(***************************************************************************)
(* Every variable of the pipeline keeps its type: a status is one of the   *)
(* five of models.go, the list holds jobs of known batches only, and no    *)
(* worker touches a calculation that is not there.                         *)
(***************************************************************************)
THEOREM TypeCorrect == Spec => []TypeOK
<1>1. TInv => TypeOK
  BY DEF TInv
<1> QED
  BY <1>1, AlwaysTInv, PTL

----------------------------------------------------------------------------
(* Processing batches have an owner                                        *)

\* The job of worker w can still move its batch b on.
WorksOn(w, b) ==
    /\ worker[w].pc \notin {"idle", "committed", "marked"}
    /\ worker[w].job.batch = b

\* A step of worker w that keeps what it works on, or leaves the batch.
LEMMA WorkStays ==
  ASSUME NEW b \in Batches, NEW w \in Workers, HasWork(b),
         UNCHANGED <<queue, handler>>,
         \A v \in Workers \ {w} : worker'[v] = worker[v],
         WorksOn(w, b) => WorksOn(w, b)'
  PROVE  HasWork(b)'
<1>1. CASE \E i \in 1..Len(queue) : queue[i].batch = b
  BY <1>1 DEF HasWork
<1>2. CASE \E h \in Handlers : handler[h] # NoJob /\ handler[h].batch = b
  BY <1>2 DEF HasWork
<1>3. CASE \E v \in Workers : WorksOn(v, b)
  <2> PICK v \in Workers : WorksOn(v, b)
    BY <1>3
  <2>1. WorksOn(v, b)'
    BY DEF WorksOn
  <2> QED
    BY <2>1 DEF HasWork, WorksOn
<1> QED
  BY <1>1, <1>2, <1>3 DEF HasWork, WorksOn

LEMMA WorkerOwner ==
  ASSUME TInv, ProcessingHasOwner, NEW w \in Workers, WorkerStep(w)
  PROVE  ProcessingHasOwner'
<1> SUFFICES ASSUME NEW b \in Batches, status'[b] = "processing", b \notin dropped'
             PROVE  HasWork(b)'
  BY DEF ProcessingHasOwner
<1> DEFINE c == worker[w].job.batch
<1>1. /\ worker \in [Workers -> WorkerStates] /\ status \in [Batches -> Statuses]
      /\ queue \in Seq(Jobs) /\ worker[w] \in WorkerStates /\ dropped \subseteq Batches
  BY DEF TInv, TypeOK
<1>2. worker[w].pc # "idle" => c \in Batches
  BY JobFacts DEF TInv, BusyHasJob
<1>3. status[b] = "processing" /\ b \notin dropped => HasWork(b)
  BY DEF ProcessingHasOwner
<1> HIDE DEF c
\* The job moves from the list to the worker.
<1>4. CASE Pop(w)
  <2> DEFINE r == [IdleWorker EXCEPT !.pc = "popped", !.job = Head(queue)]
  <2>1. worker' = [worker EXCEPT ![w] = r] /\ queue' = Tail(queue)
        /\ queue # << >> /\ worker[w].pc = "idle" /\ UNCHANGED <<status, handler, dropped>>
    BY <1>4 DEF Pop, Remaining, db, env
  <2>2. r.pc = "popped" /\ r.job = Head(queue)
    BY DEF IdleWorker
  <2> HIDE DEF r
  <2>3. worker'[w] = r /\ \A v \in Workers \ {w} : worker'[v] = worker[v]
    BY <1>1, <2>1
  <2>4. HasWork(b)
    BY <1>3, <2>1
  <2>5. CASE \E i \in 1..Len(queue) : queue[i].batch = b
    <3> PICK i \in 1..Len(queue) : queue[i].batch = b
      BY <2>5
    <3>1. CASE i = 1
      <4>1. r.job.batch = b
        BY <1>1, <2>1, <2>2, <3>1
      <4> QED
        BY <2>2, <2>3, <4>1 DEF HasWork
    <3>2. CASE i # 1
      <4>1. i - 1 \in 1..Len(queue') /\ queue'[i - 1] = queue[i]
        BY <1>1, <2>1, <3>2
      <4> QED
        BY <4>1 DEF HasWork
    <3> QED
      BY <3>1, <3>2
  <2>6. CASE \E h \in Handlers : handler[h] # NoJob /\ handler[h].batch = b
    BY <2>1, <2>6 DEF HasWork
  <2>7. CASE \E v \in Workers : WorksOn(v, b)
    <3> PICK v \in Workers : WorksOn(v, b)
      BY <2>7
    <3>1. v # w
      BY <2>1 DEF WorksOn
    <3>2. WorksOn(v, b)'
      BY <2>3, <3>1 DEF WorksOn
    <3> QED
      BY <3>2 DEF HasWork, WorksOn
  <2> QED
    BY <2>4, <2>5, <2>6, <2>7 DEF HasWork, WorksOn
\* A job that returns at once read a status other than "processing".
<1>5. CASE Load(w)
  <2> DEFINE r == IF Admits(worker[w].job.type, status[c])
                  THEN [worker[w] EXCEPT !.pc = "loaded"] ELSE IdleWorker
  <2>1. worker' = [worker EXCEPT ![w] = r]
    BY <1>1, <1>5 DEF Load, c
  <2>2. status[c] = "processing" => r.pc = "loaded" /\ r.job = worker[w].job
    BY <1>1 DEF Admits, WorkerStates
  <2> HIDE DEF r
  <2>3. worker'[w] = r /\ \A v \in Workers \ {w} : worker'[v] = worker[v]
    BY <1>1, <2>1
  <2>4. UNCHANGED <<status, queue, handler, dropped>>
    BY <1>5 DEF Load, db, env
  <2>5. WorksOn(w, b) => WorksOn(w, b)'
    <3> SUFFICES ASSUME WorksOn(w, b)
                 PROVE  WorksOn(w, b)'
      OBVIOUS
    <3>1. c = b
      BY DEF WorksOn, c
    <3>2. worker'[w].pc = "loaded" /\ worker'[w].job = worker[w].job
      BY <2>2, <2>3, <2>4, <3>1
    <3> QED
      BY <3>1, <3>2 DEF WorksOn, c
  <2> QED
    BY <1>3, <2>3, <2>4, <2>5, WorkStays
\* Steps that publish a status of c other than "processing".
<1>6. ASSUME NEW st \in Statuses \ {"processing"}, SetStatus(c, st), worker[w].pc # "idle",
             \A v \in Workers \ {w} : worker'[v] = worker[v],
             UNCHANGED <<queue, handler, dropped>>
      PROVE  HasWork(b)'
  <2>1. b # c /\ status'[b] = status[b]
    BY <1>1, <1>2, <1>6 DEF SetStatus
  <2>2. ~WorksOn(w, b)
    BY <2>1 DEF WorksOn, c
  <2> QED
    BY <1>3, <1>6, <2>1, <2>2, WorkStays
<1>7. CASE FailExtraction(w)
  <2>1. /\ SetStatus(c, "failed") /\ worker[w].pc # "idle" /\ Done(w)
        /\ UNCHANGED <<queue, handler, dropped>>
    BY <1>7 DEF FailExtraction, env, c
  <2> QED
    BY <1>1, <1>6, <2>1, DoneEffect DEF Statuses
<1>8. CASE PublishExtraction(w)
  <2>1. /\ SetStatus(c, OutcomeOf(worker[w].pc)) /\ worker[w].pc # "idle" /\ Done(w)
        /\ UNCHANGED <<queue, handler, dropped>>
    BY <1>8 DEF PublishExtraction, env, c
  <2>2. OutcomeOf(worker[w].pc) \in Statuses \ {"processing"}
    BY DEF OutcomeOf, Statuses
  <2> QED
    BY <1>1, <1>6, <2>1, <2>2, DoneEffect
<1>9. CASE PublishSlip(w)
  <2>1. /\ SetStatus(c, "completed") /\ worker[w].pc # "idle" /\ Done(w)
        /\ UNCHANGED <<queue, handler, dropped>>
    BY <1>9 DEF PublishSlip, env, c
  <2> QED
    BY <1>1, <1>6, <2>1, DoneEffect DEF Statuses
<1>10. CASE Commit(w)
  <2>1. /\ SetStatus(c, "completed") /\ worker[w].pc # "idle"
        /\ UNCHANGED <<queue, handler, dropped>>
    BY <1>10 DEF Commit, env, c
  <2>2. \A v \in Workers \ {w} : worker'[v] = worker[v]
    BY <1>1, <1>10 DEF Commit
  <2> QED
    BY <1>6, <2>1, <2>2 DEF Statuses
\* Steps on the way to a status.
<1>11. ASSUME NEW pc \in WorkerPCs \ {"idle", "committed", "marked"}, Goto(w, pc), UNCHANGED <<status, queue, handler, dropped>>
       PROVE  HasWork(b)'
  <2>1. worker'[w].pc = pc /\ worker'[w].job = worker[w].job /\ \A v \in Workers \ {w} : worker'[v] = worker[v]
    BY <1>1, <1>11, GotoEffect
  <2>2. WorksOn(w, b) => WorksOn(w, b)'
    BY <1>11, <2>1 DEF WorksOn
  <2> QED
    BY <1>3, <1>11, <2>1, <2>2, WorkStays
<1>12. CASE StoreExtraction(w)
  <2>1. \E pc \in {"stored", "rejected"} : Goto(w, pc)
    BY <1>12 DEF StoreExtraction
  <2>2. UNCHANGED <<status, queue, handler, dropped>>
    BY <1>12 DEF StoreExtraction, env
  <2> QED
    BY <1>11, <2>1, <2>2 DEF WorkerPCs
<1>13. CASE ApplySlip(w)
  <2>1. Goto(w, "applied") /\ UNCHANGED <<status, queue, handler, dropped>>
    BY <1>13 DEF ApplySlip, env
  <2> QED
    BY <1>11, <2>1 DEF WorkerPCs
<1>14. CASE Build(w)
  <2>1. UNCHANGED <<status, queue, handler, dropped>>
    BY <1>14 DEF Build, db, env
  <2>2. worker'[w].pc = "built" /\ worker'[w].job = worker[w].job /\ \A v \in Workers \ {w} : worker'[v] = worker[v]
    BY <1>1, <1>14 DEF Build, WorkerStates
  <2>3. WorksOn(w, b) => WorksOn(w, b)'
    BY <2>2 DEF WorksOn
  <2> QED
    BY <1>3, <2>1, <2>2, <2>3, WorkStays
\* The slip's batch is abandoned.
<1>15. CASE AbandonSlip(w)
  <2>1. /\ Done(w) /\ dropped' = dropped \cup {c}
        /\ UNCHANGED <<status, queue, handler>>
    BY <1>15 DEF AbandonSlip, db, c
  <2>2. ~WorksOn(w, b) /\ b \notin dropped
    BY <2>1 DEF WorksOn, c
  <2> QED
    BY <1>1, <1>3, <2>1, <2>2, DoneEffect, WorkStays
\* After its commit a worker owns nothing.
<1>16. ASSUME worker[w].pc \in {"committed", "marked"}, UNCHANGED <<status, queue, handler, dropped>>,
              \A v \in Workers \ {w} : worker'[v] = worker[v]
       PROVE  HasWork(b)'
  <2>1. ~WorksOn(w, b)
    BY <1>16 DEF WorksOn
  <2> QED
    BY <1>3, <1>16, <2>1, WorkStays
<1>17. CASE MarkPaid(w)
  <2>1. /\ worker[w].pc = "committed" /\ Goto(w, "marked")
        /\ UNCHANGED <<status, queue, handler, dropped>>
    BY <1>17 DEF MarkPaid, env
  <2> QED
    BY <1>1, <1>16, <2>1, GotoEffect DEF WorkerPCs
<1>18. CASE PushPaid(w) \/ PushPreview(w)
  <2>1. /\ worker[w].pc \in {"committed", "marked"} /\ Done(w)
        /\ UNCHANGED <<status, queue, handler, dropped>>
    BY <1>18 DEF PushPaid, PushPreview, env
  <2> QED
    BY <1>1, <1>16, <2>1, DoneEffect
<1> QED
  BY <1>4, <1>5, <1>7, <1>8, <1>9, <1>10, <1>12, <1>13, <1>14, <1>15, <1>17, <1>18 DEF WorkerStep

\* Requests on another batch, or none that touches a status.
LEMMA HandlerOwner ==
  ASSUME TInv, ProcessingHasOwner,
         \/ Requests
         \/ \E h \in Handlers : Enqueue(h) \/ LoseEnqueue(h)
  PROVE  ProcessingHasOwner'
<1> SUFFICES ASSUME NEW b \in Batches, status'[b] = "processing", b \notin dropped'
             PROVE  HasWork(b)'
  BY DEF ProcessingHasOwner
<1>1. /\ status \in [Batches -> Statuses] /\ queue \in Seq(Jobs) /\ dropped \subseteq Batches
      /\ handler \in [Handlers -> Jobs \cup {NoJob}]
  BY DEF TInv, TypeOK
<1>2. status[b] = "processing" /\ b \notin dropped => HasWork(b)
  BY DEF ProcessingHasOwner
<1>3. ASSUME NEW c \in Batches, Create(c) \/ Poll(c)
      PROVE  HasWork(b)'
  <2>1. UNCHANGED <<queue, handler, worker, dropped>>
    BY <1>3 DEF Create, Poll, procs, env
  <2>2. status[b] = "processing"
    BY <1>1, <1>3 DEF Create, Poll, db
  <2> QED
    BY <1>2, <2>1, <2>2 DEF HasWork
<1>4. ASSUME NEW h \in Handlers, NEW c \in Batches, NEW j \in Jobs, j.batch = c,
             handler[h] = NoJob, handler' = [handler EXCEPT ![h] = j],
             status' = [status EXCEPT ![c] = "processing"], UNCHANGED <<queue, worker, dropped>>
      PROVE  HasWork(b)'
  <2>1. CASE b = c
    <3>1. handler'[h] # NoJob /\ handler'[h].batch = b
      BY <1>1, <1>4, <2>1, NoJobAssumption
    <3> QED
      BY <3>1 DEF HasWork
  <2>2. CASE b # c
    <3>1. HasWork(b)
      BY <1>1, <1>2, <1>4, <2>2
    <3>2. \A k \in Handlers : handler[k] # NoJob => handler'[k] = handler[k]
      BY <1>1, <1>4
    <3> QED
      BY <1>4, <3>1, <3>2 DEF HasWork
  <2> QED
    BY <2>1, <2>2
<1>5. ASSUME NEW h \in Handlers, NEW c \in Batches, Complete(h, c) \/ Review(h, c)
      PROVE  HasWork(b)'
  <2>1. OCRJob(c) \in Jobs /\ NormalizeJob(c) \in Jobs /\ OCRJob(c).batch = c /\ NormalizeJob(c).batch = c
    BY JobFacts DEF OCRJob, NormalizeJob
  <2>2. CASE Complete(h, c)
    BY <1>4, <2>1, <2>2 DEF Complete
  <2>3. CASE Review(h, c)
    BY <1>4, <2>1, <2>3 DEF Review
  <2> QED
    BY <1>5, <2>2, <2>3
<1>6. ASSUME NEW h \in Handlers, Enqueue(h)
      PROVE  HasWork(b)'
  <2>1. /\ handler[h] \in Jobs /\ queue' = Append(queue, handler[h])
        /\ handler' = [handler EXCEPT ![h] = NoJob] /\ UNCHANGED <<status, worker, dropped>>
    BY <1>1, <1>6 DEF Enqueue, db, env
  <2>2. /\ Len(queue') = Len(queue) + 1 /\ queue'[Len(queue) + 1] = handler[h]
        /\ \A i \in 1..Len(queue) : queue'[i] = queue[i]
        /\ Len(queue) \in Nat
    BY <1>1, <2>1
  <2>3. HasWork(b)
    BY <1>2, <2>1
  <2>4. CASE \E i \in 1..Len(queue) : queue[i].batch = b
    <3>1. \E i \in 1..Len(queue') : queue'[i].batch = b
      BY <2>2, <2>4
    <3> QED
      BY <3>1 DEF HasWork
  <2>5. CASE handler[h].batch = b
    <3>1. Len(queue) + 1 \in 1..Len(queue')
      BY <2>2
    <3> QED
      BY <2>2, <2>5, <3>1 DEF HasWork
  <2>6. CASE \E k \in Handlers \ {h} : handler[k] # NoJob /\ handler[k].batch = b
    <3>1. \A k \in Handlers \ {h} : handler'[k] = handler[k]
      BY <1>1, <2>1
    <3> QED
      BY <2>6, <3>1 DEF HasWork
  <2>7. CASE \E v \in Workers : WorksOn(v, b)
    BY <2>1, <2>7 DEF HasWork, WorksOn
  <2> QED
    BY <2>3, <2>4, <2>5, <2>6, <2>7 DEF HasWork, WorksOn
<1>7. ASSUME NEW h \in Handlers, LoseEnqueue(h)
      PROVE  HasWork(b)'
  <2>1. /\ handler' = [handler EXCEPT ![h] = NoJob] /\ dropped' = dropped \cup {handler[h].batch}
        /\ UNCHANGED <<status, queue, worker>>
    BY <1>7 DEF LoseEnqueue, db
  <2>2. HasWork(b) /\ handler[h].batch # b
    BY <1>2, <2>1
  <2>3. \A k \in Handlers \ {h} : handler'[k] = handler[k]
    BY <1>1, <2>1
  <2> QED
    BY <2>1, <2>2, <2>3 DEF HasWork
<1> QED
  BY <1>3, <1>5, <1>6, <1>7 DEF Requests

LEMMA JobLossOwner ==
  ASSUME TInv, ProcessingHasOwner, Crash \/ \E w \in Workers : JobError(w)
  PROVE  ProcessingHasOwner'
<1> SUFFICES ASSUME NEW b \in Batches, status'[b] = "processing", b \notin dropped'
             PROVE  HasWork(b)'
  BY DEF ProcessingHasOwner
<1>1. worker \in [Workers -> WorkerStates]
  BY DEF TInv, TypeOK
<1>2. UNCHANGED <<status, queue>> /\ dropped \subseteq dropped'
  BY DEF Crash, JobError, db
<1>3. HasWork(b)
  BY <1>2 DEF ProcessingHasOwner
<1>4. ASSUME NEW w \in Workers, JobError(w)
      PROVE  HasWork(b)'
  <2>1. /\ Done(w) /\ dropped' = dropped \cup {worker[w].job.batch} /\ UNCHANGED <<queue, handler>>
    BY <1>4 DEF JobError, db
  <2>2. ~WorksOn(w, b)
    BY <2>1 DEF WorksOn
  <2> QED
    BY <1>1, <1>3, <2>1, <2>2, DoneEffect, WorkStays
<1>5. CASE Crash
  <2>1. /\ ~\E h \in Handlers : handler[h] # NoJob /\ handler[h].batch = b
        /\ ~\E w \in Workers : WorksOn(w, b)
    BY <1>5 DEF Crash, WorksOn
  <2>2. \E i \in 1..Len(queue) : queue[i].batch = b
    BY <1>3, <2>1 DEF HasWork, WorksOn
  <2> QED
    BY <1>2, <2>2 DEF HasWork
<1> QED
  BY <1>4, <1>5

LEMMA NextOwner == TInv /\ ProcessingHasOwner /\ [Next]_vars => ProcessingHasOwner'
<1> SUFFICES ASSUME TInv, ProcessingHasOwner, [Next]_vars
             PROVE  ProcessingHasOwner'
  OBVIOUS
<1>1. CASE UNCHANGED vars
  BY <1>1 DEF vars, db, procs, env, ProcessingHasOwner, HasWork
<1>2. CASE Next
  BY <1>2, HandlerOwner, WorkerOwner, JobLossOwner DEF Next, Faults
<1> QED
  BY <1>1, <1>2

(***************************************************************************)
(* Whatever the number of requests, workers and crashes, a batch that the  *)
(* client waits for has a job on the list, a handler about to push one, or *)
(* a worker that will give it a status - unless a job of it was abandoned. *)
(* The early returns of processOCRHoldings, processOCRTradeSlip and        *)
(* processNormalization never throw away the last job of such a batch.     *)
(***************************************************************************)
THEOREM ProcessingIsOwned == Spec => []ProcessingHasOwner
<1>1. Init => ProcessingHasOwner
  BY DEF Init, ProcessingHasOwner
<1> QED
  BY <1>1, NextOwner, AlwaysTInv, PTL DEF Spec

----------------------------------------------------------------------------
(* Stages leave what the next one needs                                    *)

\* A trade slip's batch has trade slip jobs only, any other batch the others.
Fits(j) == IF j.type = "ocr_trade_slip" THEN j.batch \in TradeSlips ELSE j.batch \in Holdings

WorkerFits(w) ==
    /\ worker[w].pc # "idle" => Fits(worker[w].job)
    /\ worker[w].pc = "stored" => worker[w].job.type = "ocr_holdings"
    /\ worker[w].pc = "applied" =>
         worker[w].job.type = "ocr_trade_slip" /\ deltas[worker[w].job.batch] > 0
    /\ worker[w].pc = "built" => worker[w].job.type = "normalize_holdings"

JobsFit ==
    /\ \A i \in 1..Len(queue) : Fits(queue[i])
    /\ \A h \in Handlers : handler[h] # NoJob => Fits(handler[h])
    /\ \A w \in Workers : WorkerFits(w)

\* Only holdings are reviewed.
ReviewsHoldings ==
    \A b \in Batches : status[b] = "needs_review" \/ client[b].seen > 0 => b \in Holdings

LEMMA JobsFitFrame ==
  ASSUME TInv, JobsFit, NEW w \in Workers,
         \A i \in 1..Len(queue') : Fits(queue'[i]),
         UNCHANGED handler,
         \A v \in Workers \ {w} : worker'[v] = worker[v],
         deltas' \in [Batches -> Nat],
         \A b \in Batches : deltas'[b] >= deltas[b],
         WorkerFits(w)'
  PROVE  JobsFit'
<1>1. \A h \in Handlers : handler'[h] # NoJob => Fits(handler'[h])
  BY DEF JobsFit
<1>2. ASSUME NEW v \in Workers, v # w
      PROVE  WorkerFits(v)'
  <2>1. WorkerFits(v) /\ worker'[v] = worker[v]
    BY <1>2 DEF JobsFit
  <2>2. worker[v].pc # "idle" => worker[v].job.batch \in Batches
    BY JobFacts DEF TInv, BusyHasJob
  <2>3. worker[v].pc = "applied" => deltas'[worker[v].job.batch] > 0
    BY <2>1, <2>2 DEF WorkerFits, TInv, TypeOK
  <2> QED
    BY <2>1, <2>3 DEF WorkerFits
<1> QED
  BY <1>1, <1>2 DEF JobsFit

LEMMA WorkerJobsFit ==
  ASSUME TInv, JobsFit, NEW w \in Workers, WorkerStep(w)
  PROVE  JobsFit'
<1>1. /\ worker \in [Workers -> WorkerStates] /\ worker[w] \in WorkerStates
      /\ deltas \in [Batches -> Nat] /\ queue \in Seq(Jobs)
      /\ \A b \in Batches : deltas[b] >= deltas[b]
  BY DEF TInv, TypeOK
<1>2. WorkerFits(w) /\ \A i \in 1..Len(queue) : Fits(queue[i])
  BY DEF JobsFit
<1>3. worker[w].pc # "idle" => worker[w].job.batch \in Batches
  BY JobFacts DEF TInv, BusyHasJob
\* A worker that becomes idle fits.
<1>4. ASSUME Done(w), UNCHANGED <<queue, handler, deltas>>
      PROVE  JobsFit'
  <2>1. worker'[w].pc = "idle" /\ \A v \in Workers \ {w} : worker'[v] = worker[v]
    BY <1>1, <1>4, DoneEffect
  <2>2. WorkerFits(w)'
    BY <2>1 DEF WorkerFits
  <2> QED
    BY <1>1, <1>2, <1>4, <2>1, <2>2, JobsFitFrame
<1>5. CASE Pop(w)
  <2> DEFINE r == [IdleWorker EXCEPT !.pc = "popped", !.job = Head(queue)]
  <2>1. worker' = [worker EXCEPT ![w] = r] /\ queue' = Tail(queue)
        /\ queue # << >> /\ UNCHANGED <<handler, deltas>>
    BY <1>5 DEF Pop, Remaining, db
  <2>2. r.pc = "popped" /\ r.job = queue[1] /\ Fits(queue[1])
    <3>1. Head(queue) = queue[1] /\ 1 \in 1..Len(queue)
      BY <1>1, <2>1
    <3>2. r.pc = "popped" /\ r.job = Head(queue)
      BY DEF IdleWorker
    <3> QED
      BY <1>2, <3>1, <3>2
  <2> HIDE DEF r
  <2>3. worker'[w] = r /\ \A v \in Workers \ {w} : worker'[v] = worker[v]
    BY <1>1, <2>1
  <2>4. \A i \in 1..Len(queue') : i + 1 \in 1..Len(queue) /\ queue'[i] = queue[i + 1]
    BY <1>1, <2>1
  <2>5. WorkerFits(w)'
    BY <2>2, <2>3 DEF WorkerFits
  <2> QED
    BY <1>1, <1>2, <2>1, <2>3, <2>4, <2>5, JobsFitFrame
<1>6. CASE Load(w)
  <2> DEFINE r == IF Admits(worker[w].job.type, status[worker[w].job.batch])
                  THEN [worker[w] EXCEPT !.pc = "loaded"] ELSE IdleWorker
  <2>1. worker' = [worker EXCEPT ![w] = r] /\ worker[w].pc = "popped" /\ UNCHANGED <<queue, handler, deltas>>
    BY <1>1, <1>6 DEF Load, db
  <2>2. r.pc \in {"loaded", "idle"} /\ (r.pc = "loaded" => r.job = worker[w].job)
    BY <1>1, IdleFacts DEF WorkerStates
  <2> HIDE DEF r
  <2>3. worker'[w] = r /\ \A v \in Workers \ {w} : worker'[v] = worker[v]
    BY <1>1, <2>1
  <2>4. WorkerFits(w)'
    BY <1>2, <2>1, <2>2, <2>3 DEF WorkerFits
  <2> QED
    BY <1>1, <1>2, <2>1, <2>3, <2>4, JobsFitFrame
<1>7. CASE FailExtraction(w) \/ PublishExtraction(w) \/ PublishSlip(w) \/ AbandonSlip(w) \/ PushPaid(w) \/ PushPreview(w)
  BY <1>4, <1>7 DEF FailExtraction, PublishExtraction, PublishSlip, AbandonSlip, PushPaid, PushPreview, db
<1>8. CASE StoreExtraction(w)
  <2> PICK pc \in {"stored", "rejected"} : Goto(w, pc)
    BY <1>8 DEF StoreExtraction
  <2>1. At(w, "loaded", "ocr_holdings") /\ UNCHANGED <<queue, handler, deltas>>
    BY <1>8 DEF StoreExtraction
  <2>2. worker'[w].pc = pc /\ worker'[w].job = worker[w].job /\ \A v \in Workers \ {w} : worker'[v] = worker[v]
    BY <1>1, GotoEffect DEF WorkerPCs
  <2>3. WorkerFits(w)'
    BY <1>2, <2>1, <2>2 DEF WorkerFits, At
  <2> QED
    BY <1>1, <1>2, <2>1, <2>2, <2>3, JobsFitFrame
<1>9. CASE ApplySlip(w)
  <2>1. /\ At(w, "loaded", "ocr_trade_slip") /\ Goto(w, "applied") /\ UNCHANGED <<queue, handler>>
        /\ deltas' = [deltas EXCEPT ![worker[w].job.batch] = @ + 1]
    BY <1>9 DEF ApplySlip
  <2>2. worker'[w].pc = "applied" /\ worker'[w].job = worker[w].job /\ \A v \in Workers \ {w} : worker'[v] = worker[v]
    BY <1>1, <2>1, GotoEffect DEF WorkerPCs
  <2>3. worker[w].job.batch \in Batches
    BY <1>3, <2>1 DEF At
  <2>4. /\ deltas' \in [Batches -> Nat] /\ deltas'[worker[w].job.batch] > 0
        /\ \A b \in Batches : deltas'[b] >= deltas[b]
    BY <1>1, <2>1, <2>3
  <2>5. WorkerFits(w)'
    BY <1>2, <2>1, <2>2, <2>4 DEF WorkerFits, At
  <2> QED
    BY <1>2, <2>1, <2>2, <2>4, <2>5, JobsFitFrame
<1>10. CASE Build(w)
  <2>1. At(w, "loaded", "normalize_holdings") /\ UNCHANGED <<queue, handler, deltas>>
    BY <1>10 DEF Build, db
  <2>2. worker'[w].pc = "built" /\ worker'[w].job = worker[w].job /\ \A v \in Workers \ {w} : worker'[v] = worker[v]
    BY <1>1, <1>10 DEF Build, WorkerStates
  <2>3. WorkerFits(w)'
    BY <1>2, <2>1, <2>2 DEF WorkerFits, At
  <2> QED
    BY <1>1, <1>2, <2>1, <2>2, <2>3, JobsFitFrame
<1>11. CASE Commit(w)
  <2>1. worker[w].pc = "built" /\ UNCHANGED <<queue, handler, deltas>>
    BY <1>11 DEF Commit
  <2>2. worker'[w].pc = "committed" /\ worker'[w].job = worker[w].job /\ \A v \in Workers \ {w} : worker'[v] = worker[v]
    BY <1>1, <1>11 DEF Commit, WorkerStates
  <2>3. WorkerFits(w)'
    BY <1>2, <2>1, <2>2 DEF WorkerFits
  <2> QED
    BY <1>1, <1>2, <2>1, <2>2, <2>3, JobsFitFrame
<1>12. CASE MarkPaid(w)
  <2>1. worker[w].pc = "committed" /\ Goto(w, "marked") /\ UNCHANGED <<queue, handler, deltas>>
    BY <1>12 DEF MarkPaid
  <2>2. worker'[w].pc = "marked" /\ worker'[w].job = worker[w].job /\ \A v \in Workers \ {w} : worker'[v] = worker[v]
    BY <1>1, <2>1, GotoEffect DEF WorkerPCs
  <2>3. WorkerFits(w)'
    BY <1>2, <2>1, <2>2 DEF WorkerFits
  <2> QED
    BY <1>1, <1>2, <2>1, <2>2, <2>3, JobsFitFrame
<1> QED
  BY <1>5, <1>6, <1>7, <1>8, <1>9, <1>10, <1>11, <1>12 DEF WorkerStep

LEMMA NextJobsFit ==
  ASSUME TInv, JobsFit, ReviewsHoldings, [Next]_vars
  PROVE  JobsFit'
<1>1. /\ worker \in [Workers -> WorkerStates] /\ queue \in Seq(Jobs)
      /\ handler \in [Handlers -> Jobs \cup {NoJob}]
  BY DEF TInv, TypeOK
\* Handlers push jobs of the batch they were asked about.
<1>2. ASSUME UNCHANGED <<queue, worker, deltas>>,
             \A h \in Handlers : handler'[h] # NoJob => handler'[h] = handler[h] \/ Fits(handler'[h])
      PROVE  JobsFit'
  BY <1>2 DEF JobsFit, WorkerFits
<1>3. CASE Requests
  <2>1. ASSUME NEW b \in Batches, Create(b) \/ Poll(b)
        PROVE  JobsFit'
    BY <1>2, <2>1 DEF Create, Poll, db, procs
  <2>2. ASSUME NEW h \in Handlers, NEW b \in Batches, Complete(h, b)
        PROVE  JobsFit'
    <3>1. Fits(OCRJob(b))
      BY DEF Fits, OCRJob, Batches
    <3> QED
      BY <1>1, <1>2, <2>2, <3>1 DEF Complete
  <2>3. ASSUME NEW h \in Handlers, NEW b \in Batches, Review(h, b)
        PROVE  JobsFit'
    <3>1. b \in Holdings
      BY <2>3 DEF Review, ReviewsHoldings
    <3>2. Fits(NormalizeJob(b))
      BY <3>1 DEF Fits, NormalizeJob
    <3> QED
      BY <1>1, <1>2, <2>3, <3>2 DEF Review
  <2> QED
    BY <1>3, <2>1, <2>2, <2>3 DEF Requests
<1>4. ASSUME NEW h \in Handlers, Enqueue(h)
      PROVE  JobsFit'
  <2>1. /\ handler[h] \in Jobs /\ Fits(handler[h]) /\ queue' = Append(queue, handler[h])
        /\ handler' = [handler EXCEPT ![h] = NoJob] /\ UNCHANGED <<worker, deltas>>
    BY <1>1, <1>4 DEF Enqueue, JobsFit, db
  <2>2. \A i \in 1..Len(queue') : Fits(queue'[i])
    BY <1>1, <2>1 DEF JobsFit
  <2> QED
    BY <1>1, <2>1, <2>2 DEF JobsFit, WorkerFits
<1>5. CASE Faults
  <2>1. ASSUME NEW h \in Handlers, LoseEnqueue(h)
        PROVE  JobsFit'
    BY <1>1, <1>2, <2>1 DEF LoseEnqueue, db
  <2>2. ASSUME NEW w \in Workers, JobError(w)
        PROVE  JobsFit'
    <3>1. Done(w) /\ UNCHANGED <<queue, handler, deltas>>
      BY <2>2 DEF JobError, db
    <3>2. worker'[w].pc = "idle" /\ \A v \in Workers \ {w} : worker'[v] = worker[v]
      BY <1>1, <3>1, DoneEffect
    <3> QED
      BY <3>1, <3>2 DEF JobsFit, WorkerFits
  <2>3. CASE Crash
    BY <2>3, IdleFacts DEF Crash, JobsFit, WorkerFits, db
  <2> QED
    BY <1>5, <2>1, <2>2, <2>3 DEF Faults
<1>6. CASE UNCHANGED vars
  BY <1>6 DEF JobsFit, WorkerFits, vars, db, procs
<1> QED
  BY <1>3, <1>4, <1>5, <1>6, WorkerJobsFit DEF Next

LEMMA NextReviews ==
  ASSUME TInv, JobsFit, ReviewsHoldings, [Next]_vars
  PROVE  ReviewsHoldings'
<1>1. status \in [Batches -> Statuses] /\ client \in [Batches -> ClientStates]
  BY DEF TInv, TypeOK
<1>2. ASSUME UNCHANGED client,
             \A b \in Batches : status'[b] = "needs_review" => status[b] = "needs_review" \/ b \in Holdings
      PROVE  ReviewsHoldings'
  BY <1>2 DEF ReviewsHoldings
<1>3. ASSUME NEW b \in Batches, Create(b) \/ Poll(b)
      PROVE  ReviewsHoldings'
  <2>1. CASE Create(b)
    BY <1>1, <1>2, <2>1 DEF Create, env
  <2>2. CASE Poll(b)
    <3>1. UNCHANGED status /\ \A c \in Batches \ {b} : client'[c] = client[c]
      BY <1>1, <2>2 DEF Poll, db
    <3>2. b \in Holdings
      BY <2>2 DEF Poll, ReviewsHoldings
    <3> QED
      BY <3>1, <3>2 DEF ReviewsHoldings
  <2> QED
    BY <1>3, <2>1, <2>2
<1>4. ASSUME NEW h \in Handlers, NEW b \in Batches, Complete(h, b) \/ Review(h, b)
      PROVE  ReviewsHoldings'
  <2>1. \A c \in Batches : client'[c].seen = client[c].seen
    BY <1>1, <1>4 DEF Complete, Review, ClientStates
  <2>2. status' = [status EXCEPT ![b] = "processing"]
    BY <1>4 DEF Complete, Review
  <2> QED
    BY <1>1, <2>1, <2>2 DEF ReviewsHoldings
<1>5. ASSUME NEW w \in Workers, WorkerStep(w)
      PROVE  ReviewsHoldings'
  <2>1. CASE PublishExtraction(w)
    <3>1. worker[w].pc \in {"stored", "rejected"} /\ WorkerFits(w) /\ worker[w].job.batch \in Batches
      BY <2>1, JobFacts DEF PublishExtraction, JobsFit, TInv, BusyHasJob
    <3>2. OutcomeOf(worker[w].pc) = "needs_review" => worker[w].job.batch \in Holdings
      BY <3>1 DEF OutcomeOf, WorkerFits, Fits
    <3>3. UNCHANGED client /\ status' = [status EXCEPT ![worker[w].job.batch] = OutcomeOf(worker[w].pc)]
      BY <2>1 DEF PublishExtraction, SetStatus, env
    <3> QED
      BY <1>1, <1>2, <3>2, <3>3
  <2>2. CASE FailExtraction(w) \/ PublishSlip(w) \/ Commit(w)
    BY <1>1, <1>2, <2>2 DEF FailExtraction, PublishSlip, Commit, SetStatus, env
  <2>3. CASE ~(PublishExtraction(w) \/ FailExtraction(w) \/ PublishSlip(w) \/ Commit(w))
    <3>1. UNCHANGED <<status, client>>
      BY <1>5, <2>3 DEF WorkerStep, Pop, Load, StoreExtraction, ApplySlip, AbandonSlip, Build, MarkPaid, PushPaid, PushPreview, db, env
    <3> QED
      BY <1>2, <3>1
  <2> QED
    BY <2>1, <2>2, <2>3
<1>6. CASE Faults \/ (\E h \in Handlers : Enqueue(h)) \/ UNCHANGED vars
  BY <1>2, <1>6 DEF Faults, LoseEnqueue, JobError, Crash, Enqueue, vars, db, env
<1> QED
  BY <1>3, <1>4, <1>5, <1>6 DEF Next, Requests

\* No step takes a snapshot of a batch away.
LEMMA SnapshotsGrow ==
  ASSUME TInv, [Next]_vars, NEW b \in Batches
  PROVE  Len(scans'[b]) >= Len(scans[b]) /\ deltas'[b] >= deltas[b]
<1>1. scans \in [Batches -> Seq(ScanStates)] /\ deltas \in [Batches -> Nat] /\ Len(scans[b]) \in Nat /\ deltas[b] \in Nat
  BY DEF TInv, TypeOK
<1>2. ASSUME NEW w \in Workers, NEW report, HandOver(w, report)
      PROVE  Len(scans'[b]) = Len(scans[b])
  BY <1>1, <1>2 DEF HandOver
<1>3. ASSUME NEW w \in Workers, Commit(w)
      PROVE  Len(scans'[b]) >= Len(scans[b])
  <2>1. CASE worker[w].job.batch = b
    <3>1. scans'[b] = Append(scans[b], NewScan(worker[w].source)) /\ NewScan(worker[w].source) \in ScanStates
      BY <1>1, <1>3, <2>1 DEF Commit, NewScan, ScanStates, Handoffs, TInv, TypeOK, WorkerStates
    <3> QED
      BY <1>1, <3>1
  <2>2. CASE worker[w].job.batch # b
    BY <1>1, <1>3, <2>2 DEF Commit
  <2> QED
    BY <2>1, <2>2
<1>4. ASSUME NEW w \in Workers, WorkerStep(w)
      PROVE  Len(scans'[b]) >= Len(scans[b]) /\ deltas'[b] >= deltas[b]
  <2>1. CASE Commit(w)
    BY <1>1, <1>3, <2>1 DEF Commit
  <2>2. CASE MarkPaid(w) \/ PushPaid(w) \/ PushPreview(w)
    BY <1>1, <1>2, <2>2 DEF MarkPaid, PushPaid, PushPreview
  <2>3. CASE ApplySlip(w)
    BY <1>1, <2>3 DEF ApplySlip
  <2>4. CASE ~(Commit(w) \/ MarkPaid(w) \/ PushPaid(w) \/ PushPreview(w) \/ ApplySlip(w))
    BY <1>1, <1>4, <2>4 DEF WorkerStep, Pop, Load, FailExtraction, StoreExtraction, PublishExtraction, PublishSlip, AbandonSlip, Build, db
  <2> QED
    BY <2>1, <2>2, <2>3, <2>4
<1>5. CASE Requests \/ Faults \/ (\E h \in Handlers : Enqueue(h)) \/ UNCHANGED vars
  BY <1>1, <1>5 DEF Requests, Create, Poll, Complete, Review, Faults, LoseEnqueue, JobError, Crash, Enqueue, vars, db
<1> QED
  BY <1>4, <1>5 DEF Next

LEMMA NextCompleted ==
  ASSUME TInv, JobsFit, CompletedHasSnapshot, [Next]_vars
  PROVE  CompletedHasSnapshot'
<1> SUFFICES ASSUME NEW b \in Batches, status'[b] = "completed"
             PROVE  IF b \in Holdings THEN scans'[b] # << >> ELSE deltas'[b] > 0
  BY DEF CompletedHasSnapshot
<1>1. /\ status \in [Batches -> Statuses] /\ deltas[b] \in Nat /\ scans[b] \in Seq(ScanStates)
      /\ scans \in [Batches -> Seq(ScanStates)]
  BY DEF TInv, TypeOK
<1>2. TInv'
  BY NextTInv
<1>3. deltas'[b] \in Nat /\ scans'[b] \in Seq(ScanStates)
  BY <1>2 DEF TInv, TypeOK
<1>4. CASE status[b] = "completed"
  <2>1. IF b \in Holdings THEN scans[b] # << >> ELSE deltas[b] > 0
    BY <1>4 DEF CompletedHasSnapshot
  <2> QED
    BY <1>1, <1>3, <2>1, SnapshotsGrow
<1>5. CASE status[b] # "completed"
  <2>1. ASSUME NEW w \in Workers, PublishSlip(w)
        PROVE  b \in TradeSlips /\ deltas'[b] > 0
    <3>1. worker[w].pc = "applied" /\ WorkerFits(w) /\ worker[w].job.batch = b /\ UNCHANGED deltas
      BY <1>1, <1>5, <2>1 DEF PublishSlip, SetStatus, JobsFit
    <3> QED
      BY <3>1 DEF WorkerFits, Fits
  <2>2. ASSUME NEW w \in Workers, Commit(w)
        PROVE  b \in Holdings /\ scans'[b] # << >>
    <3>1. /\ worker[w].pc = "built" /\ WorkerFits(w) /\ worker[w].job.batch = b
      BY <1>1, <1>5, <2>2 DEF Commit, SetStatus, JobsFit
    <3>2. scans'[b] = Append(scans[b], NewScan(worker[w].source)) /\ NewScan(worker[w].source) \in ScanStates
      BY <1>1, <2>2, <3>1 DEF Commit, NewScan, ScanStates, Handoffs, TInv, TypeOK, WorkerStates
    <3>3. Len(scans'[b]) = Len(scans[b]) + 1
      BY <1>1, <3>2
    <3> QED
      BY <1>1, <3>1, <3>3 DEF WorkerFits, Fits
  <2>3. \E w \in Workers : PublishSlip(w) \/ Commit(w)
    <3> SUFFICES ASSUME ~\E w \in Workers : PublishSlip(w) \/ Commit(w)
                 PROVE  FALSE
      OBVIOUS
    <3>1. CASE Requests
      BY <1>1, <1>5, <3>1 DEF Requests, Create, Poll, Complete, Review, db
    <3>2. CASE Faults \/ (\E h \in Handlers : Enqueue(h)) \/ UNCHANGED vars
      BY <1>5, <3>2 DEF Faults, LoseEnqueue, JobError, Crash, Enqueue, vars, db
    <3>3. ASSUME NEW w \in Workers, WorkerStep(w)
          PROVE  FALSE
      <4>1. CASE FailExtraction(w) \/ PublishExtraction(w)
        BY <1>1, <1>5, <4>1 DEF FailExtraction, PublishExtraction, OutcomeOf, SetStatus
      <4>2. CASE ~(FailExtraction(w) \/ PublishExtraction(w))
        <5>1. UNCHANGED status
          BY <3>3, <4>2 DEF WorkerStep, Pop, Load, StoreExtraction, ApplySlip, AbandonSlip, Build, MarkPaid, PushPaid, PushPreview, db
        <5> QED
          BY <1>5, <5>1
      <4> QED
        BY <4>1, <4>2
    <3> QED
      BY <3>1, <3>2, <3>3 DEF Next
  <2> QED
    BY <2>1, <2>2, <2>3, PurposeAssumption
<1> QED
  BY <1>4, <1>5

\* Worker w is the one that will hand calculation i of batch b over.
HandsOver(w, b, i) ==
    /\ worker[w].pc \in {"committed", "marked"}
    /\ worker[w].job.batch = b
    /\ worker[w].calc = i

Pending(b, i) == scans[b][i].report \in {"created", "marked"} /\ b \notin dropped

LEMMA WorkerCalculation ==
  ASSUME TInv, CalculationHasOwner, NEW w \in Workers, WorkerStep(w)
  PROVE  CalculationHasOwner'
<1> SUFFICES ASSUME NEW b \in Batches, NEW i \in 1..Len(scans'[b]), Pending(b, i)'
             PROVE  \E v \in Workers : HandsOver(v, b, i)'
  BY DEF CalculationHasOwner, HandsOver, Pending
<1> DEFINE c == worker[w].job.batch
           n == worker[w].calc
<1>1. /\ worker \in [Workers -> WorkerStates] /\ worker[w] \in WorkerStates
      /\ scans \in [Batches -> Seq(ScanStates)] /\ dropped \subseteq Batches
      /\ Len(scans[b]) \in Nat /\ scans[b] \in Seq(ScanStates)
  BY DEF TInv, TypeOK
<1>2. worker[w].pc # "idle" => c \in Batches
  BY JobFacts DEF TInv, BusyHasJob
<1>3. i \in 1..Len(scans[b]) /\ Pending(b, i) => \E v \in Workers : HandsOver(v, b, i)
  BY DEF CalculationHasOwner, HandsOver, Pending
<1>4. \A v \in Workers \ {w} : worker'[v] = worker[v]
  <2>1. ASSUME Done(w) \/ \E pc \in WorkerPCs : Goto(w, pc)
        PROVE  \A v \in Workers \ {w} : worker'[v] = worker[v]
    BY <1>1, <2>1 DEF Done, Goto
  <2>2. CASE FailExtraction(w) \/ PublishExtraction(w) \/ PublishSlip(w) \/ AbandonSlip(w) \/ PushPaid(w) \/ PushPreview(w)
    BY <2>1, <2>2 DEF FailExtraction, PublishExtraction, PublishSlip, AbandonSlip, PushPaid, PushPreview
  <2>3. CASE StoreExtraction(w) \/ ApplySlip(w) \/ MarkPaid(w)
    BY <2>1, <2>3 DEF StoreExtraction, ApplySlip, MarkPaid, WorkerPCs
  <2>4. CASE Pop(w) \/ Load(w) \/ Build(w) \/ Commit(w)
    BY <1>1, <2>4 DEF Pop, Load, Build, Commit
  <2> QED
    BY <2>2, <2>3, <2>4 DEF WorkerStep
\* Whoever else hands it over still does.
<1>5. ASSUME i \in 1..Len(scans[b]), Pending(b, i), ~HandsOver(w, b, i)
      PROVE  \E v \in Workers : HandsOver(v, b, i)'
  <2> PICK v \in Workers : HandsOver(v, b, i)
    BY <1>3, <1>5
  <2>1. v # w
    BY <1>5
  <2> QED
    BY <1>4, <2>1 DEF HandsOver
<1> HIDE DEF c, n
<1>6. CASE Commit(w)
  <2>1. worker[w].pc = "built" /\ c \in Batches /\ UNCHANGED dropped
    BY <1>2, <1>6 DEF Commit, env
  <2>2. scans' = [scans EXCEPT ![c] = Append(@, NewScan(worker[w].source))] /\ NewScan(worker[w].source) \in ScanStates
    BY <1>1, <1>6 DEF Commit, NewScan, ScanStates, Handoffs, WorkerStates, c
  <2>3. ~HandsOver(w, b, i)
    BY <2>1 DEF HandsOver
  <2>4. CASE b = c /\ i = Len(scans[b]) + 1
    <3>1. worker'[w].pc = "committed" /\ worker'[w].job = worker[w].job /\ worker'[w].calc = Len(scans[c]) + 1
      <4> DEFINE m == Len(scans[c]) + 1
      <4>1. worker' = [worker EXCEPT ![w] = [worker[w] EXCEPT !.pc = "committed", !.calc = m]]
        BY <1>1, <1>6 DEF Commit, c
      <4> HIDE DEF m
      <4>2. worker'[w].pc = "committed" /\ worker'[w].job = worker[w].job /\ worker'[w].calc = m
        BY <1>1, <4>1 DEF WorkerStates
      <4> QED
        BY <4>2 DEF m
    <3> QED
      BY <2>4, <3>1 DEF HandsOver, c
  <2>5. CASE ~(b = c /\ i = Len(scans[b]) + 1)
    <3>1. i \in 1..Len(scans[b]) /\ scans'[b][i] = scans[b][i]
      BY <1>1, <2>1, <2>2, <2>5
    <3>2. Pending(b, i)
      BY <2>1, <3>1 DEF Pending
    <3> QED
      BY <1>5, <2>3, <3>1, <3>2
  <2> QED
    BY <2>4, <2>5
<1>7. ASSUME NEW report \in Handoffs, HandOver(w, report), UNCHANGED dropped, worker[w].pc \in {"committed", "marked"},
             report # "created",
             report = "marked" => worker'[w].pc = "marked" /\ worker'[w].job.batch = c /\ worker'[w].calc = n
      PROVE  \E v \in Workers : HandsOver(v, b, i)'
  <2>1. c \in Batches /\ n \in 1..Len(scans[c])
    BY <1>2, <1>7 DEF TInv, CalcInRange, c, n
  <2>2. scans' = [scans EXCEPT ![c][n].report = report]
    BY <1>7 DEF HandOver, c, n
  <2>3. CASE b = c /\ i = n
    <3>1. scans'[b][i].report = report
      <4>1. scans[c] \in Seq(ScanStates) /\ scans[c][n] \in ScanStates
        BY <1>1, <2>1
      <4> QED
        BY <1>1, <2>1, <2>2, <2>3, <4>1 DEF ScanStates
    <3>2. report = "marked"
      BY <1>7, <3>1 DEF Pending
    <3> QED
      BY <1>7, <2>3, <3>2 DEF HandsOver
  <2>4. CASE ~(b = c /\ i = n)
    <3>1. i \in 1..Len(scans[b]) /\ scans'[b][i] = scans[b][i]
      BY <1>1, <2>1, <2>2, <2>4
    <3>2. Pending(b, i) /\ ~HandsOver(w, b, i)
      BY <1>7, <2>4, <3>1 DEF Pending, HandsOver, c, n
    <3> QED
      BY <1>5, <3>1, <3>2
  <2> QED
    BY <2>3, <2>4
<1>8. CASE MarkPaid(w)
  <2>1. worker[w].pc = "committed" /\ HandOver(w, "marked") /\ Goto(w, "marked") /\ UNCHANGED dropped
    BY <1>8 DEF MarkPaid, env
  <2>2. worker'[w].pc = "marked" /\ worker'[w].job.batch = c /\ worker'[w].calc = n
    BY <1>1, <2>1, GotoEffect DEF WorkerPCs, c, n
  <2> QED
    BY <1>7, <2>1, <2>2 DEF Handoffs
<1>9. CASE PushPaid(w) \/ PushPreview(w)
  BY <1>7, <1>9 DEF PushPaid, PushPreview, Handoffs, env
<1>10. CASE ~(Commit(w) \/ MarkPaid(w) \/ PushPaid(w) \/ PushPreview(w))
  <2>1. UNCHANGED scans /\ dropped \subseteq dropped' /\ worker[w].pc \notin {"committed", "marked"}
    BY <1>10 DEF WorkerStep, Pop, Load, FailExtraction, StoreExtraction, PublishExtraction, ApplySlip, PublishSlip, AbandonSlip, Build, At, db, env
  <2> QED
    BY <1>5, <2>1 DEF Pending, HandsOver
<1> QED
  BY <1>6, <1>8, <1>9, <1>10

LEMMA NextCalculation ==
  ASSUME TInv, CalculationHasOwner, [Next]_vars
  PROVE  CalculationHasOwner'
<1>1. CASE Requests \/ (\E h \in Handlers : Enqueue(h) \/ LoseEnqueue(h)) \/ UNCHANGED vars
  <2>1. UNCHANGED <<worker, scans>> /\ dropped \subseteq dropped'
    BY <1>1 DEF Requests, Create, Poll, Complete, Review, Enqueue, LoseEnqueue, vars, db, procs, env
  <2> QED
    BY <2>1 DEF CalculationHasOwner
<1>2. ASSUME NEW w \in Workers, JobError(w)
      PROVE  CalculationHasOwner'
  <2>1. Done(w) /\ dropped' = dropped \cup {worker[w].job.batch} /\ UNCHANGED scans
    BY <1>2 DEF JobError, db
  <2>2. \A v \in Workers \ {w} : worker'[v] = worker[v]
    BY <2>1, DoneEffect DEF TInv, TypeOK
  <2> SUFFICES ASSUME NEW b \in Batches, NEW i \in 1..Len(scans[b]), Pending(b, i)'
               PROVE  \E v \in Workers : HandsOver(v, b, i)'
    BY <2>1 DEF CalculationHasOwner, HandsOver, Pending
  <2>3. Pending(b, i) /\ b # worker[w].job.batch
    BY <2>1 DEF Pending
  <2>4. PICK v \in Workers : HandsOver(v, b, i)
    BY <2>3 DEF CalculationHasOwner, HandsOver, Pending
  <2> QED
    BY <2>2, <2>3, <2>4 DEF HandsOver
<1>3. CASE Crash
  <2> SUFFICES ASSUME NEW b \in Batches, NEW i \in 1..Len(scans[b]), Pending(b, i)'
               PROVE  FALSE
    BY <1>3 DEF CalculationHasOwner, Pending, Crash, db
  <2>1. Pending(b, i)
    BY <1>3 DEF Pending, Crash, db
  <2>2. PICK v \in Workers : HandsOver(v, b, i)
    BY <2>1 DEF CalculationHasOwner, HandsOver, Pending
  <2> QED
    BY <1>3, <2>2 DEF Crash, Pending, HandsOver
<1> QED
  BY <1>1, <1>2, <1>3, WorkerCalculation DEF Next, Faults

LEMMA InitFits == Init => JobsFit /\ ReviewsHoldings
<1> SUFFICES ASSUME Init PROVE JobsFit /\ ReviewsHoldings
  OBVIOUS
<1>1. JobsFit
  BY IdleFacts DEF Init, JobsFit, WorkerFits
<1>2. ReviewsHoldings
  BY DEF Init, ReviewsHoldings
<1> QED
  BY <1>1, <1>2

(***************************************************************************)
(* Whatever the number of requests, workers and crashes: a batch that      *)
(* handleUploadBatchGet answers "completed" has a snapshot of its kind,    *)
(* and a calculation without a report job has the worker that will push    *)
(* one, unless a job of its batch was abandoned.                           *)
(***************************************************************************)
THEOREM StagesAreConnected == Spec => []StagesConnect
<1> DEFINE SInv == JobsFit /\ ReviewsHoldings /\ StagesConnect
<1>1. Init => SInv
  <2> SUFFICES ASSUME Init PROVE SInv
    OBVIOUS
  <2>1. CompletedHasSnapshot /\ CalculationHasOwner
    BY DEF Init, CompletedHasSnapshot, CalculationHasOwner
  <2> QED
    BY <2>1, InitFits DEF StagesConnect
<1>2. TInv /\ SInv /\ [Next]_vars => SInv'
  BY NextJobsFit, NextReviews, NextCompleted, NextCalculation DEF StagesConnect
<1>3. SInv => StagesConnect
  OBVIOUS
<1> HIDE DEF SInv
<1> QED
  BY <1>1, <1>2, <1>3, AlwaysTInv, PTL DEF Spec

----------------------------------------------------------------------------
(* A client that sends each request once                                   *)

(***************************************************************************)
(* From here on a client completes and reviews each batch at most once,    *)
(* whatever the number of batches, handlers and workers and whatever       *)
(* fails: then every batch has at most one job, on the list, with a        *)
(* handler or with a worker, and that job finds the batch as its own       *)
(* request left it.                                                        *)
(***************************************************************************)
SendsOnce == MaxCompletes \in {0, 1} /\ MaxReviews \in {0, 1}

----------------------------------------------------------------------------
(* The invariant                                                           *)

NoResult(b) == scans[b] = << >> /\ deltas[b] = 0

\* Nothing was asked of the batch yet.
Untouched(b) ==
    /\ status[b] \in {"none", "pending_upload"}
    /\ client[b].reviews = 0 /\ client[b].seen = 0
    /\ NoResult(b)

\* The batch was completed, and neither read nor reviewed.
Submitted(b) ==
    /\ status[b] = "processing"
    /\ client[b].completes = 1 /\ client[b].reviews = 0 /\ client[b].seen = 0

Extracting(b) == Submitted(b) /\ NoResult(b)

\* The review has edited the rows that are priced.
Pricing(b) ==
    /\ status[b] = "processing"
    /\ client[b].completes = 1 /\ client[b].reviews = 1
    /\ rows[b].source = "edited"
    /\ NoResult(b)

Reviewable(b) ==
    /\ client[b].completes = 1 /\ client[b].reviews = 0
    /\ rows[b].source = "ocr" /\ rows[b].gen > 0
    /\ client[b].seen \in {0, rows[b].gen}
    /\ NoResult(b)

BatchOnce(b) ==
    /\ client[b].completes \in {0, 1} /\ client[b].reviews \in {0, 1}
    /\ client[b].completes = 0 => Untouched(b)
    /\ status[b] = "needs_review" => Reviewable(b)
    /\ client[b].seen > 0 /\ client[b].reviews = 0 => status[b] = "needs_review"
    /\ Len(scans[b]) + deltas[b] <= 1
    /\ \A i \in 1..Len(scans[b]) : scans[b][i].source = "edited"

JobOnce(j) == IF j.type = "normalize_holdings" THEN Pricing(j.batch) ELSE Extracting(j.batch)

WorkerOnce(w) ==
    /\ worker[w].pc \in {"popped", "loaded"} => JobOnce(worker[w].job)
    /\ worker[w].pc \in {"stored", "rejected"} => Extracting(worker[w].job.batch)
    /\ worker[w].pc = "stored" =>
         rows[worker[w].job.batch].source = "ocr" /\ rows[worker[w].job.batch].gen > 0
    /\ worker[w].pc = "applied" =>
         /\ Submitted(worker[w].job.batch)
         /\ scans[worker[w].job.batch] = << >> /\ deltas[worker[w].job.batch] = 1
    /\ worker[w].pc = "built" => Pricing(worker[w].job.batch) /\ worker[w].source = "edited"
    /\ worker[w].pc \in {"committed", "marked"} => status[worker[w].job.batch] = "completed"

\* The three places a job can be in.
Pushing(h, b) == handler[h] # NoJob /\ handler[h].batch = b
Working(w, b) == worker[w].pc # "idle" /\ worker[w].job.batch = b
Listed(i, b) == i \in 1..Len(queue) /\ queue[i].batch = b

Unlisted(b) == \A i \in 1..Len(queue) : ~Listed(i, b)
Idle(b) == Unlisted(b) /\ (\A h \in Handlers : ~Pushing(h, b)) /\ \A w \in Workers : ~Working(w, b)

\* A batch has one job at most.
Alone(b) ==
    /\ \A i, j \in 1..Len(queue) : Listed(i, b) /\ Listed(j, b) => i = j
    /\ \A h, k \in Handlers : Pushing(h, b) /\ Pushing(k, b) => h = k
    /\ \A w, v \in Workers : Working(w, b) /\ Working(v, b) => w = v
    /\ \A h \in Handlers : Pushing(h, b) => Unlisted(b) /\ \A w \in Workers : ~Working(w, b)
    /\ \A w \in Workers : Working(w, b) => Unlisted(b)

JobsOnce ==
    /\ \A i \in 1..Len(queue) : JobOnce(queue[i])
    /\ \A h \in Handlers : handler[h] # NoJob => JobOnce(handler[h])
    /\ \A w \in Workers : WorkerOnce(w)

OnceInv ==
    /\ \A b \in Batches : BatchOnce(b)
    /\ JobsOnce
    /\ \A b \in Batches : Alone(b)

\* Everything proved before, for use in the steps below.
Known == TInv /\ JobsFit /\ ReviewsHoldings

----------------------------------------------------------------------------
(* Steps that leave a batch alone                                          *)

Same(b) ==
    /\ status'[b] = status[b] /\ rows'[b] = rows[b]
    /\ scans'[b] = scans[b] /\ deltas'[b] = deltas[b]
    /\ client'[b] = client[b]

LEMMA SameBatch ==
  ASSUME NEW b, Same(b)
  PROVE  /\ Submitted(b)' <=> Submitted(b)
         /\ Extracting(b)' <=> Extracting(b)
         /\ Pricing(b)' <=> Pricing(b)
         /\ BatchOnce(b) => BatchOnce(b)'
<1>1. NoResult(b)' <=> NoResult(b)
  BY DEF Same, NoResult
<1>2. /\ Submitted(b)' <=> Submitted(b)
      /\ Extracting(b)' <=> Extracting(b)
      /\ Pricing(b)' <=> Pricing(b)
  BY <1>1 DEF Same, Submitted, Extracting, Pricing
<1>3. Untouched(b)' <=> Untouched(b)
  BY <1>1 DEF Same, Untouched
<1>4. Reviewable(b)' <=> Reviewable(b)
  BY <1>1 DEF Same, Reviewable
<1>5. BatchOnce(b) => BatchOnce(b)'
  BY <1>3, <1>4 DEF Same, BatchOnce
<1> QED
  BY <1>2, <1>5

LEMMA SameJob ==
  ASSUME NEW j, Same(j.batch), JobOnce(j)
  PROVE  JobOnce(j)'
  BY SameBatch DEF JobOnce

LEMMA SameWorker ==
  ASSUME NEW w \in Workers, worker'[w] = worker[w], Same(worker[w].job.batch), WorkerOnce(w)
  PROVE  WorkerOnce(w)'
<1> DEFINE s == worker[w]
           b == s.job.batch
<1>1. s.pc \in {"popped", "loaded"} => JobOnce(s.job)
  BY DEF WorkerOnce
<1> PICK j : j = s.job
  OBVIOUS
<1>2. s.pc \in {"popped", "loaded"} => JobOnce(j)'
  BY <1>1, SameJob
<1>3. /\ Extracting(j.batch)' <=> Extracting(j.batch)
      /\ Submitted(j.batch)' <=> Submitted(j.batch)
      /\ Pricing(j.batch)' <=> Pricing(j.batch)
  BY SameBatch
<1> QED
  BY <1>2, <1>3 DEF WorkerOnce, Same

\* Types of what carries a job.
LEMMA Carriers ==
  ASSUME Known
  PROVE  /\ \A i \in 1..Len(queue) : queue[i] \in Jobs /\ queue[i].batch \in Batches
         /\ \A h \in Handlers : handler[h] # NoJob => handler[h] \in Jobs /\ handler[h].batch \in Batches
         /\ \A w \in Workers : worker[w].pc # "idle" => worker[w].job \in Jobs /\ worker[w].job.batch \in Batches
  BY JobFacts DEF Known, TInv, TypeOK, BusyHasJob

\* Worker w moves its own batch.
LEMMA WorkFrame ==
  ASSUME Known, OnceInv, NEW w \in Workers, NEW b \in Batches, Working(w, b),
         UNCHANGED <<queue, handler>>,
         \A v \in Workers \ {w} : worker'[v] = worker[v],
         \A c \in Batches \ {b} : Same(c),
         worker'[w].pc # "idle" => worker'[w].job.batch = b,
         BatchOnce(b)', WorkerOnce(w)'
  PROVE  OnceInv'
<1>1. Alone(b) /\ Unlisted(b) /\ \A h \in Handlers : ~Pushing(h, b)
  BY DEF OnceInv, Alone
<1>2. \A c \in Batches : BatchOnce(c)'
  BY SameBatch DEF OnceInv
<1>3. \A i \in 1..Len(queue') : JobOnce(queue[i])'
  <2> SUFFICES ASSUME NEW i \in 1..Len(queue), NEW j, j = queue[i]
               PROVE  JobOnce(j)'
    BY DEF JobOnce, Pricing, Extracting, Submitted, NoResult
  <2>1. j.batch \in Batches \ {b} /\ JobOnce(j)
    BY <1>1, Carriers DEF Unlisted, Listed, OnceInv, JobsOnce
  <2> QED
    BY <2>1, SameJob
<1>4. \A h \in Handlers : handler'[h] # NoJob => JobOnce(handler[h])'
  <2> SUFFICES ASSUME NEW h \in Handlers, handler[h] # NoJob, NEW j, j = handler[h]
               PROVE  JobOnce(j)'
    BY DEF JobOnce, Pricing, Extracting, Submitted, NoResult
  <2>1. j.batch \in Batches \ {b} /\ JobOnce(j)
    BY <1>1, Carriers DEF Pushing, OnceInv, JobsOnce
  <2> QED
    BY <2>1, SameJob
<1>5. ASSUME NEW v \in Workers
      PROVE  WorkerOnce(v)'
  <2>1. CASE v = w
    BY <2>1
  <2>2. CASE v # w /\ worker[v].pc = "idle"
    BY <2>2 DEF WorkerOnce
  <2>3. CASE v # w /\ worker[v].pc # "idle"
    <3>1. worker[v].job.batch \in Batches \ {b} /\ WorkerOnce(v)
      BY <1>1, <2>3, Carriers DEF Alone, Working, OnceInv, JobsOnce
    <3> QED
      BY <2>3, <3>1, SameWorker
  <2> QED
    BY <2>1, <2>2, <2>3
<1>6. ASSUME NEW c \in Batches
      PROVE  Alone(c)'
  <2>1. Alone(c)
    BY DEF OnceInv
  <2>2. \A v \in Workers : Working(v, c)' => Working(v, c)
    BY DEF Working
  <2>3. Unlisted(c)' <=> Unlisted(c)
    BY DEF Unlisted, Listed
  <2> QED
    BY <2>1, <2>2, <2>3 DEF Alone, Listed, Pushing
<1> QED
  BY <1>2, <1>3, <1>4, <1>5, <1>6 DEF OnceInv, JobsOnce

\* A request changes a batch without a job, and handler h may get a job of it.
LEMMA RequestFrame ==
  ASSUME Known, OnceInv, NEW b \in Batches, Idle(b),
         UNCHANGED <<queue, worker>>,
         \A c \in Batches \ {b} : Same(c),
         BatchOnce(b)',
         \/ UNCHANGED handler
         \/ \E h \in Handlers, j \in Jobs :
              handler[h] = NoJob /\ handler' = [handler EXCEPT ![h] = j] /\ j.batch = b /\ JobOnce(j)'
  PROVE  OnceInv'
<1>1. \A c \in Batches : BatchOnce(c)'
  BY SameBatch DEF OnceInv
<1>2. \A i \in 1..Len(queue') : JobOnce(queue[i])'
  <2> SUFFICES ASSUME NEW i \in 1..Len(queue), NEW j, j = queue[i]
               PROVE  JobOnce(j)'
    BY DEF JobOnce, Pricing, Extracting, Submitted, NoResult
  <2>1. j.batch \in Batches \ {b} /\ JobOnce(j)
    BY Carriers DEF Idle, Unlisted, Listed, OnceInv, JobsOnce
  <2> QED
    BY <2>1, SameJob
<1>3. ASSUME NEW h \in Handlers, handler'[h] = handler[h], handler[h] # NoJob
      PROVE  JobOnce(handler[h])'
  <2> SUFFICES ASSUME NEW j, j = handler[h]
               PROVE  JobOnce(j)'
    BY <1>3 DEF JobOnce, Pricing, Extracting, Submitted, NoResult
  <2>1. j.batch \in Batches \ {b} /\ JobOnce(j)
    BY <1>3, Carriers DEF Idle, Pushing, OnceInv, JobsOnce
  <2> QED
    BY <2>1, SameJob
<1>4. ASSUME NEW v \in Workers
      PROVE  WorkerOnce(v)'
  <2>1. CASE worker[v].pc = "idle"
    BY <2>1 DEF WorkerOnce
  <2>2. CASE worker[v].pc # "idle"
    <3>1. worker[v].job.batch \in Batches \ {b} /\ WorkerOnce(v)
      BY <2>2, Carriers DEF Idle, Working, OnceInv, JobsOnce
    <3> QED
      BY <3>1, SameWorker
  <2> QED
    BY <2>1, <2>2
<1>5. \A c \in Batches : (Unlisted(c)' <=> Unlisted(c)) /\ \A v \in Workers : Working(v, c)' <=> Working(v, c)
  BY DEF Unlisted, Listed, Working
<1>6. CASE UNCHANGED handler
  <2>1. \A c \in Batches : Alone(c)'
    BY <1>5, <1>6 DEF OnceInv, Alone, Listed, Pushing
  <2> QED
    BY <1>1, <1>2, <1>3, <1>4, <1>6, <2>1 DEF OnceInv, JobsOnce
<1>7. ASSUME NEW h \in Handlers, NEW j \in Jobs, handler[h] = NoJob,
             handler' = [handler EXCEPT ![h] = j], j.batch = b, JobOnce(j)'
      PROVE  OnceInv'
  <2>1. handler'[h] = j /\ \A k \in Handlers \ {h} : handler'[k] = handler[k]
    BY <1>7 DEF Known, TInv, TypeOK
  <2>2. \A k \in Handlers : handler'[k] # NoJob => JobOnce(handler[k])'
    <3> SUFFICES ASSUME NEW k \in Handlers, handler'[k] # NoJob
                 PROVE  JobOnce(handler[k])'
      OBVIOUS
    <3>1. CASE k = h
      BY <1>7, <2>1, <3>1 DEF JobOnce, Pricing, Extracting, Submitted, NoResult
    <3>2. CASE k # h
      BY <1>3, <2>1, <3>2
    <3> QED
      BY <3>1, <3>2
  <2>3. ASSUME NEW c \in Batches
        PROVE  Alone(c)'
    <3>1. Alone(c)
      BY DEF OnceInv
    <3>2. CASE c = b
      <4>1. \A k \in Handlers : Pushing(k, c)' => k = h
        BY <2>1, <3>2 DEF Idle, Pushing
      <4>2. Unlisted(c)' /\ \A v \in Workers : ~Working(v, c)'
        BY <1>5, <3>2 DEF Idle
      <4> QED
        BY <4>1, <4>2 DEF Alone, Unlisted
    <3>3. CASE c # b
      <4>1. \A k \in Handlers : Pushing(k, c)' => Pushing(k, c)
        BY <1>7, <2>1, <3>3 DEF Pushing
      <4> QED
        BY <1>5, <3>1, <4>1 DEF Alone, Listed
    <3> QED
      BY <3>2, <3>3
  <2> QED
    BY <1>1, <1>2, <1>4, <2>2, <2>3 DEF OnceInv, JobsOnce
<1> QED
  BY <1>6, <1>7

\* Jobs are dropped and nothing else changes.
LEMMA DropFrame ==
  ASSUME Known, OnceInv, UNCHANGED <<db, queue, client>>,
         \A h \in Handlers : handler'[h] = handler[h] \/ handler'[h] = NoJob,
         \A w \in Workers : worker'[w] = worker[w] \/ worker'[w].pc = "idle"
  PROVE  OnceInv'
<1>1. \A b : Same(b)
  BY DEF db, Same
<1>2. \A b \in Batches : BatchOnce(b)'
  BY <1>1, SameBatch DEF OnceInv
<1>3. JobsOnce'
  <2>1. \A j : JobOnce(j) => JobOnce(j)'
    BY <1>1, SameJob
  <2>2. \A i \in 1..Len(queue') : JobOnce(queue[i])'
    <3> SUFFICES ASSUME NEW i \in 1..Len(queue), NEW j, j = queue[i]
                 PROVE  JobOnce(j)'
      BY DEF JobOnce, Pricing, Extracting, Submitted, NoResult
    <3> QED
      BY <2>1 DEF OnceInv, JobsOnce
  <2>3. \A h \in Handlers : handler'[h] # NoJob => JobOnce(handler[h])'
    <3> SUFFICES ASSUME NEW h \in Handlers, handler[h] # NoJob, handler'[h] = handler[h], NEW j, j = handler[h]
                 PROVE  JobOnce(j)'
      BY DEF JobOnce, Pricing, Extracting, Submitted, NoResult
    <3> QED
      BY <2>1 DEF OnceInv, JobsOnce
  <2>4. \A w \in Workers : WorkerOnce(w)'
    <3> SUFFICES ASSUME NEW w \in Workers
                 PROVE  WorkerOnce(w)'
      OBVIOUS
    <3>1. CASE worker'[w].pc = "idle"
      BY <3>1 DEF WorkerOnce
    <3>2. CASE worker'[w] = worker[w]
      BY <1>1, <3>2, SameWorker DEF OnceInv, JobsOnce
    <3> QED
      BY <3>1, <3>2
  <2> QED
    BY <2>2, <2>3, <2>4 DEF JobsOnce
<1>4. \A b \in Batches : Alone(b)'
  <2> SUFFICES ASSUME NEW b \in Batches
               PROVE  Alone(b)'
    OBVIOUS
  <2>1. /\ \A h \in Handlers : Pushing(h, b)' => Pushing(h, b)
        /\ \A w \in Workers : Working(w, b)' => Working(w, b)
        /\ Unlisted(b)' <=> Unlisted(b)
    BY DEF Pushing, Working, Unlisted, Listed
  <2> QED
    BY <2>1 DEF OnceInv, Alone, Listed
<1> QED
  BY <1>2, <1>3, <1>4 DEF OnceInv

----------------------------------------------------------------------------
(* Steps of handlers                                                       *)

\* A batch with a job was completed, and waits or has been answered.
LEMMA IdleWhen ==
  ASSUME Known, OnceInv, NEW b \in Batches,
         client[b].completes = 0 \/ status[b] \notin {"processing", "completed"}
  PROVE  Idle(b)
<1>1. BatchOnce(b) /\ JobsOnce
  BY DEF OnceInv
<1>2. ~(status[b] = "processing" /\ client[b].completes = 1)
  OBVIOUS
<1>3. status[b] # "completed"
  BY <1>1 DEF BatchOnce, Untouched
<1>4. \A j : j.batch = b => ~JobOnce(j)
  BY <1>2 DEF JobOnce, Pricing, Extracting, Submitted
<1>5. Unlisted(b)
  <2> SUFFICES ASSUME NEW i \in 1..Len(queue), queue[i].batch = b
               PROVE  FALSE
    BY DEF Unlisted, Listed
  <2> QED
    BY <1>1, <1>4 DEF JobsOnce
<1>6. \A h \in Handlers : ~Pushing(h, b)
  BY <1>1, <1>4 DEF Pushing, JobsOnce
<1>7. ASSUME NEW w \in Workers, Working(w, b)
      PROVE  FALSE
  <2>1. worker[w].pc \in WorkerPCs \ {"idle"} /\ worker[w].job.batch = b /\ WorkerOnce(w)
    BY <1>1, <1>7 DEF Working, JobsOnce, Known, TInv, TypeOK, WorkerStates
  <2>2. CASE worker[w].pc \in {"popped", "loaded"}
    BY <1>4, <2>1, <2>2 DEF WorkerOnce
  <2>3. CASE worker[w].pc \in {"stored", "rejected", "applied", "built"}
    BY <1>2, <2>1, <2>3 DEF WorkerOnce, Extracting, Submitted, Pricing
  <2>4. CASE worker[w].pc \in {"committed", "marked"}
    BY <1>3, <2>1, <2>4 DEF WorkerOnce
  <2> QED
    BY <2>1, <2>2, <2>3, <2>4 DEF WorkerPCs
<1> QED
  BY <1>5, <1>6, <1>7 DEF Idle

LEMMA BatchTypes ==
  ASSUME Known, NEW b \in Batches
  PROVE  /\ status \in [Batches -> Statuses] /\ rows \in [Batches -> RowStates]
         /\ scans \in [Batches -> Seq(ScanStates)] /\ deltas \in [Batches -> Nat]
         /\ client \in [Batches -> ClientStates]
         /\ rows[b] \in RowStates /\ client[b] \in ClientStates
         /\ scans[b] \in Seq(ScanStates) /\ deltas[b] \in Nat
  BY DEF Known, TInv, TypeOK

LEMMA CreateOnce ==
  ASSUME Known, OnceInv, NEW b \in Batches, Create(b)
  PROVE  OnceInv'
<1>1. /\ status[b] = "none" /\ status' = [status EXCEPT ![b] = "pending_upload"]
      /\ UNCHANGED <<rows, scans, deltas, client, queue, handler, worker>>
  BY DEF Create, procs, env
<1>2. Idle(b)
  BY <1>1, IdleWhen
<1>3. \A c \in Batches \ {b} : Same(c)
  BY <1>1, BatchTypes DEF Same
<1>4. status'[b] = "pending_upload"
  BY <1>1, BatchTypes
<1>5. BatchOnce(b)'
  BY <1>1, <1>4 DEF OnceInv, BatchOnce, Untouched, NoResult
<1> QED
  BY <1>1, <1>2, <1>3, <1>5, RequestFrame

LEMMA PollOnce ==
  ASSUME Known, OnceInv, NEW b \in Batches, Poll(b)
  PROVE  OnceInv'
<1>1. /\ status[b] = "needs_review" /\ client' = [client EXCEPT ![b].seen = rows[b].gen]
      /\ UNCHANGED <<status, rows, scans, deltas, queue, handler, worker>>
  BY DEF Poll, db, procs
<1>2. Idle(b)
  BY <1>1, IdleWhen
<1>3. \A c \in Batches \ {b} : Same(c)
  BY <1>1, BatchTypes DEF Same
<1>4. client'[b].seen = rows[b].gen /\ client'[b].completes = client[b].completes /\ client'[b].reviews = client[b].reviews
  BY <1>1, BatchTypes DEF ClientStates
<1>5. BatchOnce(b)'
  BY <1>1, <1>4 DEF OnceInv, BatchOnce, Untouched, Reviewable, NoResult
<1> QED
  BY <1>1, <1>2, <1>3, <1>5, RequestFrame

LEMMA CompleteOnce ==
  ASSUME SendsOnce, Known, OnceInv, NEW h \in Handlers, NEW b \in Batches, Complete(h, b)
  PROVE  OnceInv' /\ status[b] = "pending_upload" /\ client[b].completes = 0
<1>1. /\ handler[h] = NoJob /\ status[b] # "none" /\ client[b].completes < MaxCompletes
      /\ client' = [client EXCEPT ![b].completes = @ + 1]
      /\ status' = [status EXCEPT ![b] = "processing"]
      /\ handler' = [handler EXCEPT ![h] = OCRJob(b)]
      /\ UNCHANGED <<rows, scans, deltas, queue, worker>>
  BY DEF Complete
<1>2. client[b].completes = 0 /\ BatchOnce(b)
  BY <1>1, BatchTypes DEF OnceInv, BatchOnce, SendsOnce
<1>3. Untouched(b) /\ status[b] = "pending_upload"
  BY <1>1, <1>2 DEF BatchOnce, Untouched
<1>4. Idle(b)
  BY <1>2, IdleWhen
<1>5. \A c \in Batches \ {b} : Same(c)
  BY <1>1, BatchTypes DEF Same
<1>6. /\ client'[b].completes = 1 /\ client'[b].reviews = client[b].reviews /\ client'[b].seen = client[b].seen
      /\ status'[b] = "processing"
  BY <1>1, <1>2, BatchTypes DEF ClientStates
<1>7. BatchOnce(b)' /\ Extracting(b)'
  BY <1>1, <1>2, <1>3, <1>6 DEF BatchOnce, Untouched, NoResult, Extracting, Submitted
<1>8. PICK j \in Jobs : j = OCRJob(b)
  BY JobFacts
<1>9. j.batch = b /\ JobOnce(j)'
  BY <1>7, <1>8 DEF OCRJob, JobOnce
<1> QED
  BY <1>1, <1>2, <1>3, <1>4, <1>5, <1>7, <1>8, <1>9, RequestFrame

\* The rows on screen are the ones the review edits.
LEMMA ReviewOnce ==
  ASSUME SendsOnce, Known, OnceInv, NEW h \in Handlers, NEW b \in Batches, Review(h, b)
  PROVE  OnceInv' /\ status[b] = "needs_review"
<1>1. /\ handler[h] = NoJob /\ client[b].seen > 0 /\ client[b].reviews < MaxReviews
      /\ client' = [client EXCEPT ![b].reviews = @ + 1]
      /\ rows' = [rows EXCEPT ![b] = Edited(@, client[b].seen)]
      /\ status' = [status EXCEPT ![b] = "processing"]
      /\ handler' = [handler EXCEPT ![h] = NormalizeJob(b)]
      /\ UNCHANGED <<scans, deltas, queue, worker>>
  BY DEF Review
<1>2. client[b].reviews = 0 /\ BatchOnce(b)
  BY <1>1, BatchTypes DEF OnceInv, BatchOnce, SendsOnce
<1>3. status[b] = "needs_review" /\ Reviewable(b) /\ client[b].seen = rows[b].gen
  BY <1>1, <1>2 DEF BatchOnce, Reviewable
<1>4. Idle(b)
  BY <1>3, IdleWhen
<1>5. \A c \in Batches \ {b} : Same(c)
  BY <1>1, BatchTypes DEF Same
<1>6. client'[b].completes = 1 /\ client'[b].reviews = 1 /\ status'[b] = "processing"
  BY <1>1, <1>2, <1>3, BatchTypes DEF ClientStates, Reviewable
<1>7. rows'[b].source = "edited"
  <2>1. rows'[b] = Edited(rows[b], client[b].seen)
    BY <1>1, BatchTypes
  <2>2. rows'[b] = [rows[b] EXCEPT !.source = "edited"]
    BY <1>3, <2>1 DEF Edited, Reviewable
  <2> QED
    BY <2>2, BatchTypes DEF RowStates
<1>8. BatchOnce(b)' /\ Pricing(b)'
  BY <1>1, <1>2, <1>3, <1>6, <1>7 DEF BatchOnce, Reviewable, NoResult, Pricing
<1>9. PICK j \in Jobs : j = NormalizeJob(b)
  BY JobFacts
<1>10. j.batch = b /\ JobOnce(j)'
  BY <1>8, <1>9 DEF NormalizeJob, JobOnce
<1> QED
  BY <1>1, <1>3, <1>4, <1>5, <1>8, <1>9, <1>10, RequestFrame

\* The job moves from the handler to the list ...
LEMMA EnqueueOnce ==
  ASSUME Known, OnceInv, NEW h \in Handlers, Enqueue(h)
  PROVE  OnceInv'
<1>1. /\ handler[h] # NoJob /\ queue' = Append(queue, handler[h])
      /\ handler' = [handler EXCEPT ![h] = NoJob]
      /\ UNCHANGED <<status, rows, scans, deltas, worker, client>>
  BY DEF Enqueue, db, env
<1>2. queue \in Seq(Jobs) /\ handler \in [Handlers -> Jobs \cup {NoJob}]
  BY DEF Known, TInv, TypeOK
<1>3. /\ Len(queue) \in Nat /\ Len(queue') = Len(queue) + 1 /\ queue'[Len(queue) + 1] = handler[h]
      /\ \A i \in 1..Len(queue) : queue'[i] = queue[i]
  BY <1>1, <1>2
<1>4. handler'[h] = NoJob /\ \A k \in Handlers \ {h} : handler'[k] = handler[k]
  BY <1>1, <1>2
<1>5. \A b : Same(b)
  BY <1>1 DEF Same
<1>6. \A b \in Batches : BatchOnce(b)'
  BY <1>5, SameBatch DEF OnceInv
<1>7. JobsOnce'
  <2>1. \A j : JobOnce(j) => JobOnce(j)'
    BY <1>5, SameJob
  <2>2. \A i \in 1..Len(queue') : JobOnce(queue[i])'
    <3> SUFFICES ASSUME NEW i \in 1..Len(queue'), NEW j, j = queue'[i]
                 PROVE  JobOnce(j)'
      BY DEF JobOnce, Pricing, Extracting, Submitted, NoResult
    <3>1. CASE i \in 1..Len(queue)
      BY <1>3, <2>1, <3>1 DEF OnceInv, JobsOnce
    <3>2. CASE i = Len(queue) + 1
      BY <1>1, <1>3, <2>1, <3>2 DEF OnceInv, JobsOnce
    <3> QED
      BY <1>3, <3>1, <3>2
  <2>3. \A k \in Handlers : handler'[k] # NoJob => JobOnce(handler[k])'
    <3> SUFFICES ASSUME NEW k \in Handlers, handler[k] # NoJob, handler'[k] = handler[k], NEW j, j = handler[k]
                 PROVE  JobOnce(j)'
      BY <1>4 DEF JobOnce, Pricing, Extracting, Submitted, NoResult
    <3> QED
      BY <2>1 DEF OnceInv, JobsOnce
  <2>4. \A w \in Workers : WorkerOnce(w)'
    BY <1>1, <1>5, SameWorker DEF OnceInv, JobsOnce
  <2> QED
    BY <2>2, <2>3, <2>4 DEF JobsOnce
<1>8. ASSUME NEW b \in Batches
      PROVE  Alone(b)'
  <2>1. Alone(b)
    BY DEF OnceInv
  <2>2. \A k \in Handlers : Pushing(k, b)' => Pushing(k, b) /\ k # h
    BY <1>4 DEF Pushing
  <2>3. \A w \in Workers : Working(w, b)' <=> Working(w, b)
    BY <1>1 DEF Working
  <2>4. CASE handler[h].batch = b
    <3>1. Pushing(h, b)
      BY <1>1, <2>4 DEF Pushing
    <3>2. Unlisted(b) /\ (\A w \in Workers : ~Working(w, b)) /\ \A k \in Handlers : ~Pushing(k, b)'
      BY <2>1, <2>2, <3>1 DEF Alone
    <3>3. \A i \in 1..Len(queue') : Listed(i, b)' => i = Len(queue) + 1
      BY <1>3, <3>2 DEF Unlisted, Listed
    <3> QED
      BY <2>3, <3>2, <3>3 DEF Alone
  <2>5. CASE handler[h].batch # b
    <3>1. \A i \in 1..Len(queue') : Listed(i, b)' <=> Listed(i, b)
      BY <1>3, <2>5 DEF Listed
    <3>2. Unlisted(b) => Unlisted(b)'
      BY <1>3, <2>5 DEF Unlisted, Listed
    <3>3. 1..Len(queue) \subseteq 1..Len(queue') /\ \A i \in 1..Len(queue') : Listed(i, b)' => i \in 1..Len(queue)
      BY <1>3, <3>1 DEF Listed
    <3> QED
      BY <2>1, <2>2, <2>3, <3>1, <3>2, <3>3 DEF Alone
  <2> QED
    BY <2>4, <2>5
<1> QED
  BY <1>6, <1>7, <1>8 DEF OnceInv

----------------------------------------------------------------------------
(* Steps of workers                                                        *)

\* ... and from the list to a worker.
LEMMA PopOnce ==
  ASSUME Known, OnceInv, NEW w \in Workers, Pop(w)
  PROVE  OnceInv'
<1> DEFINE r == [IdleWorker EXCEPT !.pc = "popped", !.job = Head(queue)]
<1>1. /\ worker' = [worker EXCEPT ![w] = r] /\ queue' = Tail(queue)
      /\ queue # << >> /\ worker[w].pc = "idle"
      /\ UNCHANGED <<status, rows, scans, deltas, handler, client>>
  BY DEF Pop, Remaining, db, env
<1>2. r.pc = "popped" /\ r.job = Head(queue)
  BY DEF IdleWorker
<1> HIDE DEF r
<1>3. queue \in Seq(Jobs) /\ worker \in [Workers -> WorkerStates]
  BY DEF Known, TInv, TypeOK
<1>4. worker'[w] = r /\ \A v \in Workers \ {w} : worker'[v] = worker[v]
  BY <1>1, <1>3
<1>5. /\ 1 \in 1..Len(queue) /\ Head(queue) = queue[1]
      /\ \A i \in 1..Len(queue') : i + 1 \in 2..Len(queue) /\ queue'[i] = queue[i + 1]
  BY <1>1, <1>3
<1>6. \A b : Same(b)
  BY <1>1 DEF Same
<1>7. \A b \in Batches : BatchOnce(b)'
  BY <1>6, SameBatch DEF OnceInv
<1>8. JobsOnce'
  <2>1. \A j : JobOnce(j) => JobOnce(j)'
    BY <1>6, SameJob
  <2>2. \A i \in 1..Len(queue') : JobOnce(queue[i])'
    <3> SUFFICES ASSUME NEW i \in 1..Len(queue'), NEW j, j = queue'[i]
                 PROVE  JobOnce(j)'
      BY DEF JobOnce, Pricing, Extracting, Submitted, NoResult
    <3>1. i + 1 \in 1..Len(queue) /\ j = queue[i + 1]
      BY <1>3, <1>5
    <3> QED
      BY <2>1, <3>1 DEF OnceInv, JobsOnce
  <2>3. \A h \in Handlers : handler'[h] # NoJob => JobOnce(handler[h])'
    <3> SUFFICES ASSUME NEW h \in Handlers, handler[h] # NoJob, NEW j, j = handler[h]
                 PROVE  JobOnce(j)'
      BY <1>1 DEF JobOnce, Pricing, Extracting, Submitted, NoResult
    <3> QED
      BY <2>1 DEF OnceInv, JobsOnce
  <2>4. ASSUME NEW v \in Workers
        PROVE  WorkerOnce(v)'
    <3>1. CASE v = w
      <4> PICK j : j = queue[1]
        OBVIOUS
      <4>1. JobOnce(j)'
        BY <1>5, <2>1 DEF OnceInv, JobsOnce
      <4>2. worker'[w].pc = "popped" /\ worker'[w].job = j
        BY <1>2, <1>4, <1>5
      <4> QED
        BY <3>1, <4>1, <4>2 DEF WorkerOnce, JobOnce, Pricing, Extracting, Submitted, NoResult
    <3>2. CASE v # w
      BY <1>4, <1>6, <3>2, SameWorker DEF OnceInv, JobsOnce
    <3> QED
      BY <3>1, <3>2
  <2> QED
    BY <2>2, <2>3, <2>4 DEF JobsOnce
<1>9. ASSUME NEW b \in Batches
      PROVE  Alone(b)'
  <2>1. Alone(b)
    BY DEF OnceInv
  <2>2. \A h \in Handlers : Pushing(h, b)' <=> Pushing(h, b)
    BY <1>1 DEF Pushing
  <2>3. \A v \in Workers \ {w} : Working(v, b)' <=> Working(v, b)
    BY <1>4 DEF Working
  <2>4. \A i \in 1..Len(queue') : Listed(i, b)' => Listed(i + 1, b) /\ i + 1 \in 1..Len(queue) /\ i + 1 # 1
    BY <1>3, <1>5 DEF Listed
  <2>5. CASE queue[1].batch = b
    <3>1. Listed(1, b)
      BY <1>5, <2>5 DEF Listed
    <3>2. ~Unlisted(b)
      BY <1>5, <3>1 DEF Unlisted
    <3>3. (\A h \in Handlers : ~Pushing(h, b)) /\ \A v \in Workers : ~Working(v, b)
      BY <2>1, <3>2 DEF Alone
    <3>4. Unlisted(b)'
      BY <1>5, <2>1, <2>4, <3>1 DEF Alone, Unlisted
    <3> QED
      BY <2>2, <2>3, <3>3, <3>4 DEF Alone, Unlisted
  <2>6. CASE queue[1].batch # b
    <3>1. ~Working(w, b) /\ ~Working(w, b)'
      BY <1>1, <1>2, <1>4, <1>5, <2>6 DEF Working
    <3>2. Unlisted(b) => Unlisted(b)'
      BY <2>4 DEF Unlisted
    <3>3. \A i, j \in 1..Len(queue') : Listed(i, b)' /\ Listed(j, b)' => i = j
      <4> SUFFICES ASSUME NEW i \in 1..Len(queue'), NEW j \in 1..Len(queue'), Listed(i, b)', Listed(j, b)'
                   PROVE  i = j
        OBVIOUS
      <4>1. i + 1 = j + 1
        BY <2>1, <2>4 DEF Alone
      <4> QED
        BY <4>1
    <3> QED
      BY <2>1, <2>2, <2>3, <3>1, <3>2, <3>3 DEF Alone
  <2> QED
    BY <2>5, <2>6
<1> QED
  BY <1>7, <1>8, <1>9 DEF OnceInv

\* A worker touches the batch of its job only.
LEMMA OwnBatch ==
  ASSUME Known, NEW w \in Workers, WorkerStep(w), ~Pop(w), NEW c \in Batches \ {worker[w].job.batch}
  PROVE  Same(c)
<1>1. /\ status \in [Batches -> Statuses] /\ rows \in [Batches -> RowStates]
      /\ scans \in [Batches -> Seq(ScanStates)] /\ deltas \in [Batches -> Nat]
  BY BatchTypes
<1>2. CASE Load(w) \/ AbandonSlip(w) \/ Build(w)
  BY <1>2 DEF Load, AbandonSlip, Build, db, env, Same
<1>3. CASE FailExtraction(w) \/ PublishExtraction(w) \/ PublishSlip(w)
  BY <1>1, <1>3 DEF FailExtraction, PublishExtraction, PublishSlip, SetStatus, env, Same
<1>4. CASE StoreExtraction(w) \/ ApplySlip(w)
  BY <1>1, <1>4 DEF StoreExtraction, ApplySlip, env, Same
<1>5. CASE Commit(w)
  BY <1>1, <1>5 DEF Commit, SetStatus, env, Same
<1>6. CASE MarkPaid(w) \/ PushPaid(w) \/ PushPreview(w)
  <2>1. \E report \in Handoffs : HandOver(w, report)
    BY <1>6 DEF MarkPaid, PushPaid, PushPreview, Handoffs
  <2>2. scans'[c] = scans[c]
    BY <1>1, <2>1 DEF HandOver
  <2> QED
    BY <1>6, <2>2 DEF MarkPaid, PushPaid, PushPreview, env, Same
<1> QED
  BY <1>2, <1>3, <1>4, <1>5, <1>6 DEF WorkerStep

LEMMA WorkerOnceStep ==
  ASSUME Known, OnceInv, NEW w \in Workers, WorkerStep(w)
  PROVE  OnceInv'
<1> DEFINE b == worker[w].job.batch
<1>1. worker \in [Workers -> WorkerStates] /\ worker[w] \in WorkerStates /\ WorkerOnce(w)
  BY DEF Known, TInv, TypeOK, OnceInv, JobsOnce
<1>2. CASE Pop(w)
  BY <1>2, PopOnce
<1>3. ASSUME ~Pop(w)
      PROVE  worker[w].pc # "idle"
  BY <1>3 DEF WorkerStep, Load, FailExtraction, StoreExtraction, PublishExtraction, ApplySlip, PublishSlip, AbandonSlip, Build, Commit, MarkPaid, PushPaid, PushPreview, At
<1>4. CASE ~Pop(w)
  <2>1. b \in Batches /\ Working(w, b) /\ worker[w].pc # "idle"
    BY <1>3, <1>4, Carriers DEF Working
  <2> PICK c \in Batches : c = b
    BY <2>1
  <2>2. \A d \in Batches \ {c} : Same(d)
    BY <1>4, OwnBatch
  <2>3. BatchOnce(c) /\ c = worker[w].job.batch /\ Working(w, c)
    BY <2>1 DEF OnceInv
  <2> HIDE DEF b
  <2>4. /\ status \in [Batches -> Statuses] /\ rows \in [Batches -> RowStates]
        /\ scans \in [Batches -> Seq(ScanStates)] /\ deltas \in [Batches -> Nat]
        /\ rows[c] \in RowStates /\ scans[c] \in Seq(ScanStates) /\ deltas[c] \in Nat
    BY BatchTypes
  \* Only the batch's own facts are left to show.
  <2>5. ASSUME UNCHANGED <<queue, handler>>, \A v \in Workers \ {w} : worker'[v] = worker[v],
               worker'[w].pc # "idle" => worker'[w].job = worker[w].job,
               BatchOnce(c)', WorkerOnce(w)'
        PROVE  OnceInv'
    BY <2>2, <2>3, <2>5, WorkFrame
  <2>6. ASSUME UNCHANGED <<queue, handler>>, Done(w), BatchOnce(c)'
        PROVE  OnceInv'
    <3>1. worker'[w].pc = "idle" /\ \A v \in Workers \ {w} : worker'[v] = worker[v]
      BY <1>1, <2>6, DoneEffect
    <3>2. WorkerOnce(w)'
      BY <3>1 DEF WorkerOnce
    <3> QED
      BY <2>5, <2>6, <3>1, <3>2
  <2>7. CASE Load(w)
    <3> DEFINE r == IF Admits(worker[w].job.type, status[worker[w].job.batch])
                    THEN [worker[w] EXCEPT !.pc = "loaded"] ELSE IdleWorker
    <3>1. worker' = [worker EXCEPT ![w] = r] /\ worker[w].pc = "popped"
          /\ UNCHANGED <<status, rows, scans, deltas, client, queue, handler>>
      BY <1>1, <2>7 DEF Load, db, env
    <3>2. r.pc \in {"loaded", "idle"} /\ (r.pc = "loaded" => r.job = worker[w].job)
      BY <1>1, IdleFacts DEF WorkerStates
    <3> HIDE DEF r
    <3>3. worker'[w] = r /\ \A v \in Workers \ {w} : worker'[v] = worker[v]
      BY <1>1, <3>1
    <3>4. \A d : Same(d)
      BY <3>1 DEF Same
    <3>5. BatchOnce(c)'
      BY <2>3, <3>4, SameBatch
    <3>6. WorkerOnce(w)'
      <4> PICK j : j = worker[w].job
        OBVIOUS
      <4>1. JobOnce(j)
        BY <1>1, <3>1 DEF WorkerOnce
      <4>2. JobOnce(j)'
        BY <3>4, <4>1, SameJob
      <4> QED
        BY <3>2, <3>3, <4>2 DEF WorkerOnce, JobOnce, Pricing, Extracting, Submitted, NoResult
    <3> QED
      BY <2>5, <3>1, <3>2, <3>3, <3>5, <3>6
  <2>8. CASE FailExtraction(w)
    <3>1. Extracting(c)
      BY <1>1, <2>3, <2>8 DEF FailExtraction, WorkerOnce, JobOnce
    <3>2. status'[c] = "failed" /\ Done(w) /\ UNCHANGED <<rows, scans, deltas, client, queue, handler>>
      BY <2>3, <2>4, <2>8 DEF FailExtraction, SetStatus, env
    <3>3. BatchOnce(c)'
      BY <2>3, <3>1, <3>2 DEF BatchOnce, Extracting, Submitted, NoResult
    <3> QED
      BY <2>6, <3>2, <3>3
  <2>9. CASE StoreExtraction(w)
    <3> PICK pc \in {"stored", "rejected"} :
          /\ rows' = [rows EXCEPT ![c] = [gen |-> @.gen + 1, source |-> IF pc = "stored" THEN "ocr" ELSE "none"]]
          /\ Goto(w, pc)
      BY <2>3, <2>9 DEF StoreExtraction
    <3>1. Extracting(c)
      BY <1>1, <2>3, <2>9 DEF StoreExtraction, At, WorkerOnce, JobOnce
    <3>2. UNCHANGED <<status, scans, deltas, client, queue, handler>>
      BY <2>9 DEF StoreExtraction, env
    <3>3. worker'[w].pc = pc /\ worker'[w].job = worker[w].job /\ \A v \in Workers \ {w} : worker'[v] = worker[v]
      BY <1>1, GotoEffect DEF WorkerPCs
    <3>4. rows'[c].gen > 0 /\ (pc = "stored" => rows'[c].source = "ocr")
      BY <2>4 DEF RowStates
    <3>5. BatchOnce(c)' /\ Extracting(c)'
      <4>1. Extracting(c)'
        BY <3>1, <3>2 DEF Extracting, Submitted, NoResult
      <4>2. BatchOnce(c)'
        BY <2>3, <3>2, <4>1 DEF BatchOnce, Extracting, Submitted, NoResult
      <4> QED
        BY <4>1, <4>2
    <3>6. WorkerOnce(w)'
      BY <2>3, <3>3, <3>4, <3>5 DEF WorkerOnce, Extracting, Submitted, NoResult
    <3> QED
      BY <2>5, <3>2, <3>3, <3>5, <3>6
  <2>10. CASE PublishExtraction(w)
    <3>1. /\ worker[w].pc \in {"stored", "rejected"} /\ Extracting(c)
          /\ worker[w].pc = "stored" => rows[c].source = "ocr" /\ rows[c].gen > 0
      BY <1>1, <2>3, <2>10 DEF PublishExtraction, WorkerOnce
    <3>2. status'[c] = OutcomeOf(worker[w].pc) /\ Done(w) /\ UNCHANGED <<rows, scans, deltas, client, queue, handler>>
      BY <2>3, <2>4, <2>10 DEF PublishExtraction, SetStatus, env
    <3>3. Submitted(c) /\ NoResult(c) /\ NoResult(c)'
      BY <3>1, <3>2 DEF Extracting, NoResult
    <3>4. ASSUME worker[w].pc = "stored"
          PROVE  BatchOnce(c)'
      <4>1. Reviewable(c)'
        BY <3>1, <3>2, <3>3, <3>4 DEF Reviewable, Submitted
      <4> QED
        BY <2>3, <3>2, <3>3, <3>4, <4>1 DEF BatchOnce, Submitted, OutcomeOf
    <3>5. ASSUME worker[w].pc = "rejected"
          PROVE  BatchOnce(c)'
      <4>1. status'[c] = "failed"
        BY <3>2, <3>5 DEF OutcomeOf
      <4> QED
        BY <2>3, <3>2, <3>3, <4>1 DEF BatchOnce, Submitted
    <3> QED
      BY <2>6, <3>1, <3>2, <3>4, <3>5
  <2>11. CASE ApplySlip(w)
    <3>1. Extracting(c)
      BY <1>1, <2>3, <2>11 DEF ApplySlip, At, WorkerOnce, JobOnce
    <3>2. deltas'[c] = 1 /\ Goto(w, "applied") /\ UNCHANGED <<status, rows, scans, client, queue, handler>>
      BY <2>3, <2>4, <2>11, <3>1 DEF ApplySlip, env, Extracting, NoResult
    <3>3. worker'[w].pc = "applied" /\ worker'[w].job = worker[w].job /\ \A v \in Workers \ {w} : worker'[v] = worker[v]
      BY <1>1, <3>2, GotoEffect DEF WorkerPCs
    <3>4. BatchOnce(c)' /\ Submitted(c)'
      BY <2>3, <3>1, <3>2 DEF BatchOnce, Extracting, Submitted, NoResult
    <3>5. WorkerOnce(w)'
      BY <2>3, <3>1, <3>2, <3>3, <3>4 DEF WorkerOnce, Extracting, Submitted, NoResult
    <3> QED
      BY <2>5, <3>2, <3>3, <3>4, <3>5
  <2>12. CASE PublishSlip(w)
    <3>1. Submitted(c) /\ scans[c] = << >> /\ deltas[c] = 1
      BY <1>1, <2>3, <2>12 DEF PublishSlip, WorkerOnce
    <3>2. status'[c] = "completed" /\ Done(w) /\ UNCHANGED <<rows, scans, deltas, client, queue, handler>>
      BY <2>3, <2>4, <2>12 DEF PublishSlip, SetStatus, env
    <3>3. BatchOnce(c)'
      BY <2>3, <3>1, <3>2 DEF BatchOnce, Submitted
    <3> QED
      BY <2>6, <3>2, <3>3
  <2>13. CASE AbandonSlip(w)
    <3>1. Done(w) /\ UNCHANGED <<status, rows, scans, deltas, client, queue, handler>>
      BY <2>13 DEF AbandonSlip, db
    <3>2. BatchOnce(c)'
      BY <2>3, <3>1, SameBatch DEF Same
    <3> QED
      BY <2>6, <3>1, <3>2
  <2>14. CASE Build(w)
    <3>1. Pricing(c)
      BY <1>1, <2>3, <2>14 DEF Build, At, WorkerOnce, JobOnce
    <3>2. UNCHANGED <<status, rows, scans, deltas, client, queue, handler>>
      BY <2>14 DEF Build, db, env
    <3>3. /\ worker'[w].pc = "built" /\ worker'[w].job = worker[w].job /\ worker'[w].source = rows[c].source
          /\ \A v \in Workers \ {w} : worker'[v] = worker[v]
      BY <1>1, <2>3, <2>14 DEF Build, WorkerStates
    <3>4. BatchOnce(c)' /\ Pricing(c)'
      BY <2>3, <3>1, <3>2, SameBatch DEF Same
    <3>5. WorkerOnce(w)'
      BY <2>3, <3>1, <3>2, <3>3, <3>4 DEF WorkerOnce, Pricing, NoResult
    <3> QED
      BY <2>5, <3>2, <3>3, <3>4, <3>5
  <2>15. CASE Commit(w)
    <3>1. Pricing(c) /\ worker[w].source = "edited"
      BY <1>1, <2>3, <2>15 DEF Commit, WorkerOnce
    <3>2. /\ status'[c] = "completed" /\ UNCHANGED <<rows, deltas, client, queue, handler>>
          /\ scans'[c] = Append(scans[c], NewScan("edited"))
      BY <2>3, <2>4, <2>15, <3>1 DEF Commit, SetStatus, env
    <3>3. worker'[w].pc = "committed" /\ worker'[w].job = worker[w].job /\ \A v \in Workers \ {w} : worker'[v] = worker[v]
      BY <1>1, <2>15 DEF Commit, WorkerStates
    <3>4. Len(scans'[c]) = 1 /\ scans'[c][1].source = "edited"
      <4>1. scans[c] = << >> /\ NewScan("edited").source = "edited"
        BY <3>1 DEF Pricing, NoResult, NewScan
      <4> QED
        BY <3>2, <4>1
    <3>5. BatchOnce(c)'
      BY <2>3, <3>1, <3>2, <3>4 DEF BatchOnce, Pricing, NoResult
    <3>6. WorkerOnce(w)'
      BY <2>3, <3>2, <3>3 DEF WorkerOnce
    <3> QED
      BY <2>5, <3>2, <3>3, <3>5, <3>6
  <2>16. ASSUME NEW report \in Handoffs, HandOver(w, report), worker[w].pc \in {"committed", "marked"},
                UNCHANGED <<status, rows, deltas, client, queue, handler>>
         PROVE  BatchOnce(c)' /\ status'[c] = "completed"
    <3>1. status[c] = "completed"
      BY <1>1, <2>3, <2>16 DEF WorkerOnce
    <3>2. worker[w].calc \in 1..Len(scans[c])
      BY <2>3, <2>16 DEF Known, TInv, CalcInRange
    <3>3. scans' = [scans EXCEPT ![c][worker[w].calc].report = report]
      BY <2>3, <2>16 DEF HandOver
    <3>4. Len(scans'[c]) = Len(scans[c]) /\ \A i \in 1..Len(scans[c]) : scans'[c][i].source = scans[c][i].source
      BY <2>4, <3>2, <3>3 DEF ScanStates
    <3>5. BatchOnce(c)'
      BY <2>3, <2>16, <3>1, <3>4 DEF BatchOnce, Untouched
    <3> QED
      BY <2>16, <3>1, <3>5
  <2>17. CASE MarkPaid(w)
    <3>1. /\ worker[w].pc = "committed" /\ HandOver(w, "marked") /\ Goto(w, "marked")
          /\ UNCHANGED <<status, rows, deltas, client, queue, handler>>
      BY <2>17 DEF MarkPaid, env
    <3>2. worker'[w].pc = "marked" /\ worker'[w].job = worker[w].job /\ \A v \in Workers \ {w} : worker'[v] = worker[v]
      BY <1>1, <3>1, GotoEffect DEF WorkerPCs
    <3>3. BatchOnce(c)' /\ status'[c] = "completed"
      BY <2>16, <3>1 DEF Handoffs
    <3>4. WorkerOnce(w)'
      BY <2>3, <3>2, <3>3 DEF WorkerOnce
    <3> QED
      BY <2>5, <3>1, <3>2, <3>3, <3>4
  <2>18. CASE PushPaid(w) \/ PushPreview(w)
    <3>1. /\ \E report \in Handoffs : HandOver(w, report)
          /\ worker[w].pc \in {"committed", "marked"} /\ Done(w)
          /\ UNCHANGED <<status, rows, deltas, client, queue, handler>>
      BY <2>18 DEF PushPaid, PushPreview, Handoffs, env
    <3>2. BatchOnce(c)'
      BY <2>16, <3>1
    <3> QED
      BY <2>6, <3>1, <3>2
  <2> QED
    BY <1>4, <2>7, <2>8, <2>9, <2>10, <2>11, <2>12, <2>13, <2>14, <2>15, <2>17, <2>18 DEF WorkerStep
<1> QED
  BY <1>2, <1>4

----------------------------------------------------------------------------
(* The invariant holds                                                     *)

LEMMA FaultsOnce ==
  ASSUME Known, OnceInv, Faults
  PROVE  OnceInv'
<1>1. worker \in [Workers -> WorkerStates] /\ handler \in [Handlers -> Jobs \cup {NoJob}]
  BY DEF Known, TInv, TypeOK
<1>2. ASSUME NEW h \in Handlers, LoseEnqueue(h)
      PROVE  OnceInv'
  BY <1>1, <1>2, DropFrame DEF LoseEnqueue
<1>3. ASSUME NEW w \in Workers, JobError(w)
      PROVE  OnceInv'
  <2>1. Done(w) /\ UNCHANGED <<db, queue, handler, client>>
    BY <1>3 DEF JobError
  <2> QED
    BY <1>1, <2>1, DoneEffect, DropFrame
<1>4. CASE Crash
  BY <1>4, IdleFacts, DropFrame DEF Crash
<1> QED
  BY <1>2, <1>3, <1>4 DEF Faults

LEMMA NextOnce ==
  ASSUME SendsOnce, Known, OnceInv, [Next]_vars
  PROVE  OnceInv'
<1>1. CASE UNCHANGED vars
  BY <1>1, DropFrame DEF vars, procs, env
<1>2. CASE Next
  BY <1>2, CreateOnce, PollOnce, CompleteOnce, ReviewOnce, EnqueueOnce, WorkerOnceStep, FaultsOnce DEF Next, Requests
<1> QED
  BY <1>1, <1>2

LEMMA InitOnce == Init => OnceInv
<1> SUFFICES ASSUME Init PROVE OnceInv
  OBVIOUS
<1>1. \A b \in Batches : BatchOnce(b)
  BY DEF Init, BatchOnce, Untouched, NoResult
<1>2. JobsOnce
  BY IdleFacts DEF Init, JobsOnce, WorkerOnce
<1>3. \A b \in Batches : Alone(b)
  BY IdleFacts DEF Init, Alone, Listed, Pushing, Working
<1> QED
  BY <1>1, <1>2, <1>3 DEF OnceInv

LEMMA AlwaysOnce == SendsOnce => (Spec => [](Known /\ OnceInv))
<1> SUFFICES ASSUME SendsOnce PROVE Spec => [](Known /\ OnceInv)
  OBVIOUS
<1>1. Init => Known /\ OnceInv
  BY InitTInv, InitFits, InitOnce DEF Known
<1>2. Known /\ OnceInv /\ [Next]_vars => (Known /\ OnceInv)'
  <2> SUFFICES ASSUME Known, OnceInv, [Next]_vars PROVE (Known /\ OnceInv)'
    OBVIOUS
  <2>1. Known'
    BY NextTInv, NextJobsFit, NextReviews DEF Known
  <2> QED
    BY <2>1, NextOnce
<1> QED
  BY <1>1, <1>2, PTL DEF Spec

(***************************************************************************)
(* For a client that completes and reviews each batch at most once, every  *)
(* upload changes the portfolio at most once, through every crash, lost    *)
(* enqueue and failed job, and a scan snapshot holds the rows the user     *)
(* edited on the review screen.                                            *)
(***************************************************************************)
THEOREM OncePerUpload == SendsOnce => (Spec => []UploadsCountOnce)
<1>1. Known /\ OnceInv => UploadsCountOnce
  BY DEF OnceInv, BatchOnce, UploadsCountOnce, EditsReachSnapshot, OneSnapshotPerUpload
<1> QED
  BY <1>1, AlwaysOnce, PTL

----------------------------------------------------------------------------
(* The pipeline implements the lifecycle of a batch                        *)

Confirmed == {b \in Batches : client[b].reviews > 0}
Results == [b \in Batches |-> Len(scans[b]) + deltas[b]]

LEMMA LifecycleBatches == Lifecycle!Batches = Batches
  BY DEF Lifecycle!Batches, Batches

LEMMA Stutters ==
  ASSUME Known, UNCHANGED status,
         \A b \in Batches : client'[b].reviews = client[b].reviews,
         \A b \in Batches : Len(scans'[b]) = Len(scans[b]) /\ deltas'[b] = deltas[b]
  PROVE  UNCHANGED <<status, Confirmed, Results>>
  BY DEF Confirmed, Results

LEMMA MovesOnly ==
  ASSUME UNCHANGED <<client, scans, deltas>>
  PROVE  Confirmed' = Confirmed /\ Results' = Results
  BY DEF Confirmed, Results

LEMMA OneResult ==
  ASSUME NEW b \in Batches, Len(scans'[b]) + deltas'[b] = 1,
         \A c \in Batches \ {b} : Len(scans'[c]) = Len(scans[c]) /\ deltas'[c] = deltas[c]
  PROVE  Results' = [Results EXCEPT ![b] = 1]
<1> DEFINE after == [Results EXCEPT ![b] = 1]
<1>1. after = [c \in Batches |-> IF c = b THEN 1 ELSE Len(scans[c]) + deltas[c]]
  BY DEF Results
<1>2. \A c \in Batches : (IF c = b THEN 1 ELSE Len(scans[c]) + deltas[c]) = Len(scans'[c]) + deltas'[c]
  OBVIOUS
<1> QED
  BY <1>1, <1>2 DEF Results

\* A step of the lifecycle, or none that its state shows.
LifecycleStep == [Lifecycle!Next]_<<status, Confirmed, Results>>

LEMMA RequestLifecycle ==
  ASSUME SendsOnce, Known, OnceInv, Requests
  PROVE  LifecycleStep
<1>1. ASSUME NEW b \in Batches, Create(b)
      PROVE  LifecycleStep
  <2>1. UNCHANGED <<client, scans, deltas>> /\ status[b] = "none" /\ status' = [status EXCEPT ![b] = "pending_upload"]
    BY <1>1 DEF Create, env
  <2>2. Lifecycle!Open(b)
    BY <2>1, MovesOnly DEF Lifecycle!Open, Lifecycle!Move, Confirmed, Results
  <2> QED
    BY <2>2, LifecycleBatches DEF LifecycleStep, Lifecycle!Next
<1>2. ASSUME NEW b \in Batches, Poll(b)
      PROVE  LifecycleStep
  <2>1. /\ UNCHANGED <<status, scans, deltas>>
        /\ \A c \in Batches : client'[c].reviews = client[c].reviews
    BY <1>2, BatchTypes DEF Poll, db, ClientStates
  <2> QED
    BY <2>1, Stutters DEF LifecycleStep
<1>3. ASSUME NEW h \in Handlers, NEW b \in Batches, Complete(h, b)
      PROVE  LifecycleStep
  <2>1. /\ UNCHANGED <<scans, deltas>> /\ status' = [status EXCEPT ![b] = "processing"]
        /\ \A c \in Batches : client'[c].reviews = client[c].reviews
    BY <1>3, BatchTypes DEF Complete, ClientStates
  <2>2. status[b] = "pending_upload"
    BY <1>3, CompleteOnce
  <2>3. Confirmed' = Confirmed /\ Results' = Results
    BY <2>1 DEF Confirmed, Results
  <2>4. Lifecycle!Submit(b)
    BY <2>1, <2>2, <2>3 DEF Lifecycle!Submit, Lifecycle!Move, Confirmed, Results
  <2> QED
    BY <2>4, LifecycleBatches DEF LifecycleStep, Lifecycle!Next
<1>4. ASSUME NEW h \in Handlers, NEW b \in Batches, Review(h, b)
      PROVE  LifecycleStep
  <2>1. /\ UNCHANGED <<scans, deltas>> /\ status' = [status EXCEPT ![b] = "processing"]
        /\ \A c \in Batches \ {b} : client'[c].reviews = client[c].reviews
        /\ client'[b].reviews > 0
    BY <1>4, BatchTypes DEF Review, ClientStates
  <2>2. status[b] = "needs_review"
    BY <1>4, ReviewOnce
  <2>3. Confirmed' = Confirmed \cup {b} /\ Results' = Results
    BY <2>1 DEF Confirmed, Results
  <2>4. Lifecycle!Confirm(b)
    BY <2>1, <2>2, <2>3 DEF Lifecycle!Confirm, Lifecycle!Move, Confirmed, Results
  <2> QED
    BY <2>4, LifecycleBatches DEF LifecycleStep, Lifecycle!Next
<1> QED
  BY <1>1, <1>2, <1>3, <1>4 DEF Requests

LEMMA WorkerLifecycle ==
  ASSUME Known, OnceInv, NEW w \in Workers, WorkerStep(w)
  PROVE  LifecycleStep
<1>1. WorkerOnce(w) /\ WorkerFits(w)
  BY DEF Known, JobsFit, OnceInv, JobsOnce
\* What is known of the batch whose job is extracted.
<1>2. ASSUME NEW b \in Batches, Extracting(b)
      PROVE  b \notin Confirmed /\ Results[b] = 0 /\ status[b] = "processing"
  BY <1>2 DEF Extracting, Submitted, NoResult, Confirmed, Results
<1>3. ASSUME NEW b \in Batches, Extracting(b), status' = [status EXCEPT ![b] = "failed"], UNCHANGED <<client, scans, deltas>>
      PROVE  LifecycleStep
  <2>1. Lifecycle!Reject(b)
    BY <1>2, <1>3, MovesOnly DEF Lifecycle!Reject, Lifecycle!Move, Confirmed, Results
  <2> QED
    BY <2>1, LifecycleBatches DEF LifecycleStep, Lifecycle!Next
<1>4. ASSUME UNCHANGED <<status, client, scans, deltas>>
      PROVE  LifecycleStep
  BY <1>4, Stutters DEF LifecycleStep
<1>5. CASE Pop(w) \/ Load(w) \/ StoreExtraction(w) \/ AbandonSlip(w) \/ Build(w)
  BY <1>4, <1>5 DEF Pop, Load, StoreExtraction, AbandonSlip, Build, db, env
<1>6. CASE ~(Pop(w) \/ Load(w) \/ StoreExtraction(w) \/ AbandonSlip(w) \/ Build(w))
  <2>1. worker[w].pc # "idle"
    BY <1>6 DEF WorkerStep, FailExtraction, PublishExtraction, ApplySlip, PublishSlip, Commit, MarkPaid, PushPaid, PushPreview, At
  <2> PICK b \in Batches : b = worker[w].job.batch
    BY <2>1, Carriers
  <2>2. /\ status \in [Batches -> Statuses] /\ scans \in [Batches -> Seq(ScanStates)] /\ deltas \in [Batches -> Nat]
        /\ scans[b] \in Seq(ScanStates) /\ deltas[b] \in Nat
    BY BatchTypes
  <2>3. CASE FailExtraction(w)
    <3>1. Extracting(b)
      BY <1>1, <2>3 DEF FailExtraction, WorkerOnce, JobOnce
    <3> QED
      BY <1>3, <2>3, <3>1 DEF FailExtraction, SetStatus, env
  <2>4. CASE PublishExtraction(w)
    <3>1. /\ worker[w].pc \in {"stored", "rejected"} /\ Extracting(b)
          /\ status' = [status EXCEPT ![b] = OutcomeOf(worker[w].pc)] /\ UNCHANGED <<client, scans, deltas>>
      BY <1>1, <2>4 DEF PublishExtraction, WorkerOnce, SetStatus, env
    <3>2. CASE worker[w].pc = "rejected"
      BY <1>3, <3>1, <3>2 DEF OutcomeOf
    <3>3. CASE worker[w].pc = "stored"
      <4>1. b \in Holdings /\ status' = [status EXCEPT ![b] = "needs_review"]
        BY <1>1, <3>1, <3>3 DEF WorkerFits, Fits, OutcomeOf
      <4>2. Lifecycle!Extract(b)
        BY <1>2, <3>1, <4>1, MovesOnly DEF Lifecycle!Extract, Lifecycle!Move, Confirmed, Results
      <4> QED
        BY <4>2, LifecycleBatches DEF LifecycleStep, Lifecycle!Next
    <3> QED
      BY <3>1, <3>2, <3>3
  <2>5. CASE ApplySlip(w)
    <3>1. Extracting(b) /\ b \in TradeSlips
      BY <1>1, <2>5 DEF ApplySlip, At, WorkerOnce, WorkerFits, JobOnce, Fits
    <3>2. deltas' = [deltas EXCEPT ![b] = @ + 1] /\ UNCHANGED <<status, scans, client>>
      BY <2>5 DEF ApplySlip, env
    <3>3. Results' = [Results EXCEPT ![b] = 1] /\ Confirmed' = Confirmed
      <4>1. Len(scans[b]) = 0 /\ deltas[b] = 0
        BY <3>1 DEF Extracting, NoResult
      <4>2. deltas'[b] = 1 /\ \A c \in Batches \ {b} : deltas'[c] = deltas[c]
        BY <2>2, <3>2, <4>1
      <4> QED
        BY <3>2, <4>1, <4>2, OneResult DEF Confirmed
    <3>4. Lifecycle!Trade(b)
      BY <1>2, <3>1, <3>2, <3>3 DEF Lifecycle!Trade, Confirmed, Results
    <3> QED
      BY <3>4, LifecycleBatches DEF LifecycleStep, Lifecycle!Next
  <2>6. CASE PublishSlip(w)
    <3>1. worker[w].pc = "applied" /\ status' = [status EXCEPT ![b] = "completed"] /\ UNCHANGED <<client, scans, deltas>>
      BY <2>6 DEF PublishSlip, SetStatus, env
    <3>2. b \in TradeSlips /\ Submitted(b) /\ Results[b] = 1
      <4>1. Submitted(b) /\ scans[b] = << >> /\ deltas[b] = 1 /\ b \in TradeSlips
        BY <1>1, <3>1 DEF WorkerOnce, WorkerFits, Fits
      <4> QED
        BY <4>1 DEF Results
    <3>3. Lifecycle!Book(b)
      BY <3>1, <3>2, MovesOnly DEF Lifecycle!Book, Lifecycle!Move, Submitted, Confirmed, Results
    <3> QED
      BY <3>3, LifecycleBatches DEF LifecycleStep, Lifecycle!Next
  <2>7. CASE Commit(w)
    <3>1. /\ worker[w].pc = "built" /\ status' = [status EXCEPT ![b] = "completed"]
          /\ scans' = [scans EXCEPT ![b] = Append(@, NewScan(worker[w].source))]
          /\ UNCHANGED <<client, deltas>>
      BY <2>7 DEF Commit, SetStatus, env
    <3>2. Pricing(b)
      BY <1>1, <3>1 DEF WorkerOnce
    <3>3. status[b] = "processing" /\ b \in Confirmed /\ Results[b] = 0
      BY <3>2 DEF Pricing, NoResult, Confirmed, Results
    <3>4. Results' = [Results EXCEPT ![b] = 1] /\ Confirmed' = Confirmed
      <4>1. scans[b] = << >> /\ deltas[b] = 0
        BY <3>2 DEF Pricing, NoResult
      <4>2. Len(scans'[b]) = 1 /\ \A c \in Batches \ {b} : scans'[c] = scans[c]
        BY <2>2, <3>1, <4>1
      <4> QED
        BY <3>1, <4>1, <4>2, OneResult DEF Confirmed
    <3>5. Lifecycle!Price(b)
      BY <3>1, <3>3, <3>4 DEF Lifecycle!Price, Lifecycle!Move, Confirmed, Results
    <3> QED
      BY <3>5, LifecycleBatches DEF LifecycleStep, Lifecycle!Next
  <2>8. CASE MarkPaid(w) \/ PushPaid(w) \/ PushPreview(w)
    <3>1. \E report \in Handoffs : HandOver(w, report)
      BY <2>8 DEF MarkPaid, PushPaid, PushPreview, Handoffs
    <3>2. \A c \in Batches : Len(scans'[c]) = Len(scans[c])
      BY <2>2, <3>1 DEF HandOver
    <3>3. UNCHANGED <<status, client, deltas>>
      BY <2>8 DEF MarkPaid, PushPaid, PushPreview, env
    <3> QED
      BY <3>2, <3>3, Stutters DEF LifecycleStep
  <2> QED
    BY <1>6, <2>3, <2>4, <2>5, <2>6, <2>7, <2>8 DEF WorkerStep
<1> QED
  BY <1>5, <1>6

LEMMA NextLifecycle ==
  ASSUME SendsOnce, Known, OnceInv, [Next]_vars
  PROVE  LifecycleStep
<1>1. CASE Faults \/ (\E h \in Handlers : Enqueue(h)) \/ UNCHANGED vars
  <2>1. UNCHANGED <<status, client, scans, deltas>>
    BY <1>1 DEF Faults, LoseEnqueue, JobError, Crash, Enqueue, vars, db, env
  <2> QED
    BY <2>1, Stutters DEF LifecycleStep
<1> QED
  BY <1>1, RequestLifecycle, WorkerLifecycle DEF Next

(***************************************************************************)
(* For such a client the pipeline implements BatchLifecycle: seen by its   *)
(* owner, a batch is opened, submitted, extracted, confirmed and priced,   *)
(* or booked, or rejected, each once and in this order, and nothing that   *)
(* fails or crashes in between makes it go back or count twice.            *)
(***************************************************************************)
THEOREM LifecycleIsImplemented == SendsOnce => (Spec => ImplementsLifecycle)
<1> SUFFICES ASSUME SendsOnce PROVE Spec => ImplementsLifecycle
  OBVIOUS
<1>1. Init => Lifecycle!Init
  <2> SUFFICES ASSUME Init PROVE Lifecycle!Init
    OBVIOUS
  <2>1. Confirmed = {} /\ Results = [b \in Batches |-> 0]
    BY DEF Init, Confirmed, Results
  <2> QED
    BY <2>1, LifecycleBatches DEF Init, Lifecycle!Init, Confirmed, Results
<1>2. Known /\ OnceInv /\ [Next]_vars => [Lifecycle!Next]_(Lifecycle!lifecycleVars)
  BY NextLifecycle DEF LifecycleStep, Lifecycle!lifecycleVars, Confirmed, Results
<1> QED
  BY <1>1, <1>2, AlwaysOnce, PTL DEF Spec, ImplementsLifecycle, Lifecycle!LifecycleSpec
=============================================================================
