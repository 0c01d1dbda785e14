------------------------ MODULE ReportPipeline_proofs -----------------------
(* Proofs about ReportPipeline, for every set of snapshots, handlers and   *)
(* workers and every bound on requests and faults.                         *)
EXTENDS ReportPipeline, TLAPS

HandlerStates == [pc : {"idle", "create", "reset", "push"}, tier : Tiers,
                  id : Ids \cup {NoId}, wipes : BOOLEAN]
WorkerStates == [pc : {"idle", "popped", "committed", "marked"}, job : Jobs \cup {NoJob}]

\* A calculation that exists, in the table as it is or as a step leaves it.
Exists(id, table) == id.snapshot \in Snapshots /\ id.n \in 1..Len(table[id.snapshot])

\* A job the code can have pushed: normalisation makes a snapshot's first
\* calculation, a report job is for a calculation that exists.
Sound(job, table) ==
    /\ job \in Jobs
    /\ job.type = "normalize" => job.id.n = 1
    /\ job.type \in Tiers => Exists(job.id, table)

HandlerSound(s, table) ==
    /\ s.pc = "create" => s.id.snapshot \in Snapshots
    /\ s.pc \in {"reset", "push"} => Exists(s.id, table)

WorkerSound(s, table) ==
    /\ s.pc # "idle" => Sound(s.job, table)
    /\ s.pc \in {"committed", "marked"} => Exists(s.job.id, table)

\* Every statement that writes a row leaves a ready tier complete.
Complete(row) ==
    /\ \A t \in Tiers : row.status[t] = "ready" => row.payload[t] # 0
    /\ row.status["paid"] = "ready" => row.plans = row.payload["paid"]

RowsComplete == \A p \in Snapshots : \A n \in 1..Len(calcs[p]) : Complete(calcs[p][n])

QueueSound == \A i \in 1..Len(queue) : Sound(queue[i], calcs)

IInv ==
    /\ TypeOK
    /\ QueueSound
    /\ \A h \in Handlers : HandlerSound(handler[h], calcs)
    /\ \A w \in Workers : WorkerSound(worker[w], calcs)
    /\ RowsComplete

----------------------------------------------------------------------------
(* The table                                                               *)

\* What a step may do to the calculations.
TableGrows ==
    /\ calcs' \in [Snapshots -> Seq(Rows)]
    /\ \A p \in Snapshots : Len(calcs'[p]) >= Len(calcs[p])
    /\ RowsComplete'

LEMMA Lengths ==
  ASSUME TypeOK
  PROVE  \A p \in Snapshots : calcs[p] \in Seq(Rows) /\ Len(calcs[p]) \in Nat
  BY DEF TypeOK

LEMMA ExistsStays ==
  ASSUME TypeOK, TableGrows, NEW id, Exists(id, calcs)
  PROVE  Exists(id, calcs')
<1>1. Len(calcs[id.snapshot]) \in Nat /\ Len(calcs'[id.snapshot]) \in Nat
      /\ Len(calcs'[id.snapshot]) >= Len(calcs[id.snapshot])
  BY Lengths DEF Exists, TableGrows
<1> QED
  BY <1>1 DEF Exists

LEMMA SoundStays ==
  ASSUME TypeOK, TableGrows
  PROVE  /\ \A job : Sound(job, calcs) => Sound(job, calcs')
         /\ \A s : HandlerSound(s, calcs) => HandlerSound(s, calcs')
         /\ \A s : WorkerSound(s, calcs) => WorkerSound(s, calcs')
  BY ExistsStays DEF Sound, HandlerSound, WorkerSound

LEMMA StillTable ==
  ASSUME IInv, UNCHANGED calcs
  PROVE  TableGrows
  BY Lengths DEF IInv, TypeOK, TableGrows, RowsComplete

LEMMA WriteTable ==
  ASSUME IInv, NEW id, Exists(id, calcs), NEW row \in Rows, Complete(row), Write(id, row)
  PROVE  TableGrows
<1> DEFINE p == id.snapshot
           n == id.n
           rows == [calcs[p] EXCEPT ![n] = row]
<1>1. p \in Snapshots /\ calcs[p] \in Seq(Rows) /\ Len(calcs[p]) \in Nat /\ n \in 1..Len(calcs[p])
  BY Lengths DEF IInv, Exists
<1>2. rows \in Seq(Rows) /\ Len(rows) = Len(calcs[p])
      /\ \A m \in 1..Len(rows) : rows[m] = IF m = n THEN row ELSE calcs[p][m]
  BY <1>1
<1>3. calcs' = [calcs EXCEPT ![p] = rows]
  BY DEF Write
<1> HIDE DEF rows
<1>4. calcs' \in [Snapshots -> Seq(Rows)] /\ calcs'[p] = rows
      /\ \A q \in Snapshots \ {p} : calcs'[q] = calcs[q]
  BY <1>1, <1>2, <1>3 DEF IInv, TypeOK
<1>5. \A q \in Snapshots : Len(calcs'[q]) >= Len(calcs[q])
  BY <1>1, <1>2, <1>4, Lengths DEF IInv
<1>6. \A m \in 1..Len(rows) : Complete(rows[m])
  BY <1>1, <1>2 DEF IInv, RowsComplete
<1>7. \A q \in Snapshots : \A m \in 1..Len(calcs'[q]) : Complete(calcs'[q][m])
  BY <1>4, <1>6 DEF IInv, RowsComplete
<1> QED
  BY <1>4, <1>5, <1>7 DEF TableGrows, RowsComplete

LEMMA AppendTable ==
  ASSUME IInv, NEW p \in Snapshots, NEW row \in Rows, Complete(row),
         calcs' = [calcs EXCEPT ![p] = Append(@, row)]
  PROVE  TableGrows /\ Len(calcs'[p]) = Len(calcs[p]) + 1
<1> DEFINE rows == Append(calcs[p], row)
<1>1. calcs[p] \in Seq(Rows) /\ Len(calcs[p]) \in Nat
  BY Lengths DEF IInv
<1>2. rows \in Seq(Rows) /\ Len(rows) = Len(calcs[p]) + 1
      /\ \A m \in 1..Len(rows) : rows[m] = IF m = Len(rows) THEN row ELSE calcs[p][m]
  BY <1>1
<1>3. \A m \in 1..Len(rows) : m # Len(rows) => m \in 1..Len(calcs[p])
  BY <1>1, <1>2
<1>4. calcs' \in [Snapshots -> Seq(Rows)] /\ calcs'[p] = rows
      /\ \A q \in Snapshots \ {p} : calcs'[q] = calcs[q]
  BY <1>2 DEF IInv, TypeOK
<1> HIDE DEF rows
<1>5. \A q \in Snapshots : Len(calcs'[q]) >= Len(calcs[q])
  BY <1>1, <1>2, <1>4, Lengths DEF IInv
<1>6. \A m \in 1..Len(rows) : Complete(rows[m])
  BY <1>2, <1>3 DEF IInv, RowsComplete
<1>7. \A q \in Snapshots : \A m \in 1..Len(calcs'[q]) : Complete(calcs'[q][m])
  BY <1>4, <1>6 DEF IInv, RowsComplete
<1> QED
  BY <1>2, <1>4, <1>5, <1>7 DEF TableGrows, RowsComplete

----------------------------------------------------------------------------
(* Frames                                                                  *)

LEMMA PushQueue ==
  ASSUME IInv, TableGrows, NEW type \in JobTypes, NEW id, Sound([type |-> type, id |-> id], calcs'), Push(type, id)
  PROVE  queue' \in Seq(Jobs) /\ QueueSound'
<1> DEFINE job == [type |-> type, id |-> id]
<1>1. queue \in Seq(Jobs) /\ job \in Jobs /\ queue' = Append(queue, job)
  BY DEF IInv, TypeOK, Push, Sound, Jobs, Ids
<1> HIDE DEF job
<1>2. queue' \in Seq(Jobs)
      /\ \A i \in 1..Len(queue') : queue'[i] = job \/ (i \in 1..Len(queue) /\ queue'[i] = queue[i])
  BY <1>1
<1>3. Sound(job, calcs')
  BY DEF job
<1> QED
  BY <1>2, <1>3, SoundStays DEF IInv, QueueSound

LEMMA StillQueue ==
  ASSUME IInv, TableGrows, UNCHANGED queue
  PROVE  queue' \in Seq(Jobs) /\ QueueSound'
  BY SoundStays DEF IInv, TypeOK, QueueSound

\* A step of the environment or of one handler or worker, seen from the rest.
LEMMA Frame ==
  ASSUME IInv, TableGrows, queue' \in Seq(Jobs), QueueSound',
         handler' \in [Handlers -> HandlerStates],
         \A h \in Handlers : HandlerSound(handler'[h], calcs') \/ handler'[h] = handler[h],
         worker' \in [Workers -> WorkerStates],
         \A w \in Workers : WorkerSound(worker'[w], calcs') \/ worker'[w] = worker[w],
         {states', runs', requests', faults'} \subseteq Nat,
         active' \in Snapshots \cup {NoSnapshot}, entitled' \in BOOLEAN, dropped' \subseteq Ids
  PROVE  IInv'
<1>1. TypeOK'
  BY DEF TypeOK, TableGrows, HandlerStates, WorkerStates
<1>2. \A h \in Handlers : HandlerSound(handler'[h], calcs')
  BY SoundStays DEF IInv
<1>3. \A w \in Workers : WorkerSound(worker'[w], calcs')
  BY SoundStays DEF IInv
<1> QED
  BY <1>1, <1>2, <1>3 DEF IInv, TableGrows

----------------------------------------------------------------------------
(* Steps                                                                   *)

LEMMA Facts ==
  ASSUME IInv
  PROVE  /\ \A p \in Snapshots : calcs[p] \in Seq(Rows) /\ Len(calcs[p]) \in Nat
         /\ {states, runs, requests, faults} \subseteq Nat
         /\ active \in Snapshots \cup {NoSnapshot} /\ entitled \in BOOLEAN
         /\ queue \in Seq(Jobs) /\ dropped \subseteq Ids
         /\ handler \in [Handlers -> HandlerStates] /\ worker \in [Workers -> WorkerStates]
         /\ \A h \in Handlers : HandlerSound(handler[h], calcs)
         /\ \A w \in Workers : WorkerSound(worker[w], calcs)
  BY Lengths DEF IInv, TypeOK, HandlerStates, WorkerStates

LEMMA RowFacts ==
  ASSUME IInv, NEW id, Exists(id, calcs)
  PROVE  id \in Ids => Row(id) \in Rows /\ Complete(Row(id))
  BY Facts DEF Exists, Row, IInv, RowsComplete

LEMMA IdleFacts ==
  /\ IdleHandler \in HandlerStates /\ IdleWorker \in WorkerStates
  /\ \A table : HandlerSound(IdleHandler, table) /\ WorkerSound(IdleWorker, table)
  BY DEF IdleHandler, IdleWorker, HandlerStates, WorkerStates, HandlerSound, WorkerSound, Tiers

\* A step of handler h to state s.
LEMMA HandlerFrame ==
  ASSUME IInv, TableGrows, queue' \in Seq(Jobs), QueueSound', NEW h \in Handlers, NEW s \in HandlerStates,
         HandlerSound(s, calcs'), handler' = [handler EXCEPT ![h] = s], UNCHANGED worker,
         {states', runs', requests', faults'} \subseteq Nat, UNCHANGED <<active, entitled>>, dropped' \subseteq Ids
  PROVE  IInv'
<1>1. handler' \in [Handlers -> HandlerStates]
      /\ \A g \in Handlers : HandlerSound(handler'[g], calcs') \/ handler'[g] = handler[g]
  BY Facts
<1> QED
  BY <1>1, Facts, Frame

\* A step of worker w to state s.
LEMMA WorkerFrame ==
  ASSUME IInv, TableGrows, queue' \in Seq(Jobs), QueueSound', NEW w \in Workers, NEW s \in WorkerStates,
         WorkerSound(s, calcs'), worker' = [worker EXCEPT ![w] = s], UNCHANGED handler,
         {states', runs', requests', faults'} \subseteq Nat,
         active' \in Snapshots \cup {NoSnapshot}, UNCHANGED entitled, dropped' \subseteq Ids
  PROVE  IInv'
<1>1. worker' \in [Workers -> WorkerStates]
      /\ \A v \in Workers : WorkerSound(worker'[v], calcs') \/ worker'[v] = worker[v]
  BY Facts
<1> QED
  BY <1>1, Facts, Frame

LEMMA HandlerInv ==
  ASSUME IInv, NEW h \in Handlers, HandlerStep(h)
  PROVE  IInv'
<1> DEFINE id == handler[h].id
           tier == handler[h].tier
<1>0. handler[h] \in HandlerStates /\ HandlerSound(handler[h], calcs) /\ tier \in Tiers
      /\ id \in Ids \cup {NoId} /\ {states, runs, requests, faults} \subseteq Nat /\ dropped \subseteq Ids
  BY Facts DEF HandlerStates
<1>1. CASE Create(h)
  <2> DEFINE p == id.snapshot
             row == RequestedRow(tier)
             s == [handler[h] EXCEPT !.pc = "push", !.id.n = Len(calcs[p]) + 1]
  <2>1. p \in Snapshots /\ Len(calcs[p]) \in Nat
    BY <1>0, <1>1, Facts DEF Create, HandlerSound
  <2>2. row \in Rows /\ Complete(row)
    BY <1>0 DEF RequestedRow, NewRow, Rows, Complete, Tiers, Statuses
  <2>3. calcs' = [calcs EXCEPT ![p] = Append(@, row)] /\ handler' = [handler EXCEPT ![h] = s]
        /\ UNCHANGED <<states, runs, active, entitled, queue, worker, requests, dropped, faults>>
    BY <1>0, <1>1, Facts DEF Create
  <2>4. TableGrows /\ Len(calcs'[p]) = Len(calcs[p]) + 1
    BY <2>1, <2>2, <2>3, AppendTable
  <2>5. s.pc = "push" /\ s.id.snapshot = p /\ s.id.n = Len(calcs[p]) + 1 /\ s \in HandlerStates
    <3> DEFINE new == [id EXCEPT !.n = Len(calcs[p]) + 1]
    <3>1. id \in Ids
      BY <1>0, <2>1, SnapshotAssumption DEF NoId
    <3>2. new \in Ids /\ new.snapshot = p /\ new.n = Len(calcs[p]) + 1
      BY <2>1, <3>1 DEF Ids
    <3>3. s = [handler[h] EXCEPT !.pc = "push", !.id = new]
      BY <1>0 DEF HandlerStates
    <3> HIDE DEF new, s
    <3> QED
      BY <1>0, <3>2, <3>3 DEF HandlerStates
  <2>6. HandlerSound(s, calcs')
    BY <2>1, <2>4, <2>5 DEF HandlerSound, Exists
  <2>7. queue' \in Seq(Jobs) /\ QueueSound'
    BY <2>3, <2>4, StillQueue
  <2> HIDE DEF s
  <2> QED
    BY <1>0, <2>3, <2>4, <2>5, <2>6, <2>7, HandlerFrame
<1>2. CASE Reset(h)
  <2> DEFINE row == [Row(id) EXCEPT !.status[tier] = "processing",
                                    !.payload[tier] = IF handler[h].wipes THEN 0 ELSE @]
             s == [handler[h] EXCEPT !.pc = "push"]
  <2>1. Exists(id, calcs) /\ id \in Ids
    BY <1>0, <1>2, SnapshotAssumption DEF Reset, HandlerSound, Exists, NoId
  <2>2. Row(id) \in Rows /\ Complete(Row(id))
    BY <2>1, RowFacts
  <2>3. row \in Rows /\ Complete(row)
    BY <1>0, <2>2 DEF Rows, Complete, Tiers, Statuses
  <2>4. Write(id, row) /\ handler' = [handler EXCEPT ![h] = s]
        /\ UNCHANGED <<states, runs, active, entitled, queue, worker, requests, dropped, faults>>
    BY <1>0, <1>2, Facts DEF Reset
  <2>5. TableGrows
    BY <2>1, <2>3, <2>4, WriteTable
  <2>6. s.pc = "push" /\ s.id = id /\ s \in HandlerStates
    BY <1>0 DEF HandlerStates
  <2>7. HandlerSound(s, calcs')
    BY <2>1, <2>5, <2>6, ExistsStays DEF HandlerSound, IInv
  <2>8. queue' \in Seq(Jobs) /\ QueueSound'
    BY <2>4, <2>5, StillQueue
  <2> HIDE DEF s
  <2> QED
    BY <1>0, <2>4, <2>5, <2>6, <2>7, <2>8, HandlerFrame
<1>3. CASE Enqueue(h)
  <2>1. Exists(id, calcs) /\ id \in Ids
    BY <1>0, <1>3, SnapshotAssumption DEF Enqueue, HandlerSound, Exists, NoId
  <2>2. TableGrows
    BY <1>3, StillTable DEF Enqueue, db
  <2>3. Sound([type |-> tier, id |-> id], calcs')
    BY <1>0, <2>1, <2>2, ExistsStays DEF Sound, Jobs, JobTypes, Tiers, IInv
  <2>4. queue' \in Seq(Jobs) /\ QueueSound'
    BY <1>0, <1>3, <2>2, <2>3, PushQueue DEF Enqueue, JobTypes
  <2> QED
    BY <1>0, <1>3, <2>2, <2>4, IdleFacts, HandlerFrame DEF Enqueue, Stay, db
<1> QED
  BY <1>1, <1>2, <1>3 DEF HandlerStep

\* The writes of the workers, on rows that exist.
LEMMA WrittenRows ==
  ASSUME NEW row \in Rows, Complete(row), NEW run \in Nat \ {0}, NEW t \in Tiers
  PROVE  /\ PreviewRow(row, run) \in Rows /\ Complete(PreviewRow(row, run))
         /\ PaidRow(row, run) \in Rows /\ Complete(PaidRow(row, run))
         /\ \A status \in {"processing", "failed"} :
              LET new == [row EXCEPT !.status[t] = status] IN new \in Rows /\ Complete(new)
  BY DEF PreviewRow, PaidRow, Rows, Complete, Tiers, Statuses

LEMMA WorkerInv ==
  ASSUME IInv, NEW w \in Workers, WorkerStep(w)
  PROVE  IInv'
<1> DEFINE job == worker[w].job
           id == job.id
           run == runs + 1
<1>0. worker[w] \in WorkerStates /\ WorkerSound(worker[w], calcs)
      /\ {states, runs, requests, faults} \subseteq Nat /\ dropped \subseteq Ids
      /\ active \in Snapshots \cup {NoSnapshot} /\ run \in Nat \ {0}
  BY Facts
<1>1. worker[w].pc # "idle" => Sound(job, calcs) /\ id \in Ids /\ job \in Jobs
  BY <1>0 DEF WorkerSound, Sound, Jobs
<1>2. (job.type \in Tiers /\ worker[w].pc = "popped") \/ worker[w].pc \in {"committed", "marked"}
      => Exists(id, calcs) /\ Row(id) \in Rows /\ Complete(Row(id))
  BY <1>0, <1>1, RowFacts DEF WorkerSound, Sound
\* A step that writes one row and moves the worker.
<1>3. ASSUME Exists(id, calcs), NEW row \in Rows, Complete(row), Write(id, row),
             NEW s \in WorkerStates, s.pc = "idle" \/ (s.pc = "marked" /\ s.job = job),
             worker[w].pc # "idle",
             worker' = [worker EXCEPT ![w] = s], states' \in Nat, runs' \in Nat,
             UNCHANGED <<active, entitled, queue, handler, requests, dropped, faults>>
      PROVE  IInv'
  <2>1. TableGrows
    BY <1>3, WriteTable
  <2>2. queue' \in Seq(Jobs) /\ QueueSound'
    BY <1>3, <2>1, StillQueue
  <2>3. WorkerSound(s, calcs')
    BY <1>1, <1>3, <2>1, ExistsStays, SoundStays DEF WorkerSound, IInv
  <2> QED
    BY <1>0, <1>3, <2>1, <2>2, <2>3, WorkerFrame
\* A step that pushes a job for a row that exists and ends the worker's own.
<1>4. ASSUME Exists(id, calcs), id \in Ids, NEW type \in Tiers, Push(type, id), Done(w),
             UNCHANGED <<db, active, entitled, handler, requests, dropped, faults>>
      PROVE  IInv'
  <2>1. TableGrows
    BY <1>4, StillTable DEF db
  <2>2. Sound([type |-> type, id |-> id], calcs')
    BY <1>4, <2>1, ExistsStays DEF Sound, Jobs, JobTypes, Tiers, IInv
  <2>3. queue' \in Seq(Jobs) /\ QueueSound'
    BY <1>4, <2>1, <2>2, PushQueue DEF JobTypes
  <2> QED
    BY <1>0, <1>4, <2>1, <2>3, IdleFacts, WorkerFrame DEF Done, db
<1>5. CASE Pop(w)
  <2> DEFINE s == [pc |-> "popped", job |-> Head(queue)]
  <2>1. queue # << >> /\ queue \in Seq(Jobs) /\ worker' = [worker EXCEPT ![w] = s] /\ queue' = Tail(queue)
        /\ UNCHANGED <<calcs, states, runs, active, entitled, handler, requests, dropped, faults>>
    BY <1>5, Facts DEF Pop, db
  <2>2. TableGrows
    BY <2>1, StillTable
  <2>3. Head(queue) \in Jobs /\ Head(queue) = queue[1] /\ 1 \in 1..Len(queue)
        /\ queue' \in Seq(Jobs)
        /\ \A i \in 1..Len(queue') : i + 1 \in 1..Len(queue) /\ queue'[i] = queue[i + 1]
    BY <2>1
  <2>4. QueueSound' /\ Sound(Head(queue), calcs')
    BY <2>2, <2>3, SoundStays DEF IInv, QueueSound
  <2>5. s \in WorkerStates /\ WorkerSound(s, calcs')
    BY <2>3, <2>4 DEF WorkerStates, WorkerSound
  <2> HIDE DEF s
  <2> QED
    BY <1>0, <2>1, <2>2, <2>3, <2>4, <2>5, WorkerFrame
<1>6. CASE Normalize(w)
  <2> DEFINE p == id.snapshot
             row == NewRow("processing", "not_started")
             s == [worker[w] EXCEPT !.pc = "committed"]
  <2>1. worker[w].pc = "popped" /\ job.type = "normalize" /\ p \in Snapshots /\ Len(calcs[p]) \in Nat /\ id.n = 1
    BY <1>1, <1>6, Facts DEF Normalize, At, Ids, Sound
  <2>2. row \in Rows /\ Complete(row)
    BY DEF NewRow, Rows, Complete, Tiers, Statuses
  <2>3. calcs' = [calcs EXCEPT ![p] = Append(@, row)] /\ worker' = [worker EXCEPT ![w] = s] /\ active' = p
        /\ UNCHANGED <<states, runs, entitled, queue, handler, requests, dropped, faults>>
    BY <1>0, <1>6, Facts DEF Normalize
  <2>4. TableGrows /\ Len(calcs'[p]) = Len(calcs[p]) + 1
    BY <2>1, <2>2, <2>3, AppendTable
  <2>5. s \in WorkerStates /\ s.pc = "committed" /\ s.job = job
    BY <1>0 DEF WorkerStates
  <2>6. WorkerSound(s, calcs')
    BY <1>1, <2>1, <2>4, <2>5, SoundStays DEF WorkerSound, Exists, IInv
  <2>7. queue' \in Seq(Jobs) /\ QueueSound'
    BY <2>3, <2>4, StillQueue
  <2> HIDE DEF s
  <2> QED
    BY <1>0, <2>1, <2>3, <2>4, <2>5, <2>6, <2>7, WorkerFrame
<1>7. CASE MarkPaid(w)
  <2> DEFINE s == [worker[w] EXCEPT !.pc = "marked"]
             row == [Row(id) EXCEPT !.status["paid"] = "processing"]
  <2>1. worker[w].pc = "committed" /\ Write(id, row) /\ worker' = [worker EXCEPT ![w] = s]
        /\ UNCHANGED <<states, runs, active, entitled, queue, handler, requests, dropped, faults>>
    BY <1>0, <1>7, Facts DEF MarkPaid
  <2>2. s \in WorkerStates /\ s.pc = "marked" /\ s.job = job
    BY <1>0 DEF WorkerStates
  <2>3. row \in Rows /\ Complete(row)
    BY <1>0, <1>2, <2>1, WrittenRows DEF Tiers
  <2> HIDE DEF s, row
  <2> QED
    BY <1>0, <1>2, <1>3, <2>1, <2>2, <2>3
<1>8. CASE PushPaid(w) \/ PushPreview(w)
  BY <1>1, <1>2, <1>4, <1>8 DEF PushPaid, PushPreview, Tiers
<1>9. CASE FailReport(w)
  <2> DEFINE row == [Row(id) EXCEPT !.status[job.type] = "failed"]
  <2>1. worker[w].pc = "popped" /\ job.type \in Tiers /\ Write(id, row) /\ Done(w)
        /\ UNCHANGED <<states, runs, active, entitled, queue, handler, requests, dropped, faults>>
    BY <1>9 DEF FailReport
  <2>2. row \in Rows /\ Complete(row)
    BY <1>0, <1>2, <2>1, WrittenRows
  <2> HIDE DEF row
  <2> QED
    BY <1>0, <1>2, <1>3, <2>1, <2>2, IdleFacts DEF Done, IdleWorker
<1>10. CASE FinishPreview(w)
  <2>1. worker[w].pc = "popped" /\ job.type \in Tiers /\ Write(id, PreviewRow(Row(id), run)) /\ Done(w) /\ runs' = run
        /\ UNCHANGED <<states, active, entitled, queue, handler, requests, dropped, faults>>
    BY <1>10 DEF FinishPreview, At, Tiers
  <2>2. PreviewRow(Row(id), run) \in Rows /\ Complete(PreviewRow(Row(id), run))
    BY <1>0, <1>2, <2>1, WrittenRows
  <2> QED
    BY <1>0, <1>2, <1>3, <2>1, <2>2, IdleFacts DEF Done, IdleWorker
<1>11. CASE FinishPaid(w)
  <2>1. worker[w].pc = "popped" /\ job.type \in Tiers /\ Write(id, PaidRow(Row(id), run)) /\ Done(w)
        /\ runs' = run /\ states' = run
        /\ UNCHANGED <<active, entitled, queue, handler, requests, dropped, faults>>
    BY <1>11 DEF FinishPaid, At, Tiers
  <2>2. PaidRow(Row(id), run) \in Rows /\ Complete(PaidRow(Row(id), run))
    BY <1>0, <1>2, <2>1, WrittenRows
  <2> QED
    BY <1>0, <1>2, <1>3, <2>1, <2>2, IdleFacts DEF Done, IdleWorker
<1> QED
  BY <1>5, <1>6, <1>7, <1>8, <1>9, <1>10, <1>11 DEF WorkerStep

\* What nobody works on is left as it is.
LEMMA StillInv ==
  ASSUME IInv, TableGrows, queue' \in Seq(Jobs), QueueSound', UNCHANGED <<handler, worker>>,
         {states', runs', requests', faults'} \subseteq Nat,
         active' \in Snapshots \cup {NoSnapshot}, entitled' \in BOOLEAN, dropped' \subseteq Ids
  PROVE  IInv'
<1>1. handler' \in [Handlers -> HandlerStates] /\ worker' \in [Workers -> WorkerStates]
      /\ (\A h \in Handlers : handler'[h] = handler[h]) /\ (\A w \in Workers : worker'[w] = worker[w])
  BY Facts
<1> QED
  BY <1>1, Frame

LEMMA ClientInv ==
  ASSUME IInv, Client
  PROVE  IInv'
<1>0. /\ {states, runs, requests, faults} \subseteq Nat /\ dropped \subseteq Ids /\ requests + 1 \in Nat
      /\ active \in Snapshots \cup {NoSnapshot} /\ entitled \in BOOLEAN
  BY Facts
<1>1. TableGrows
  BY StillTable DEF Client, SubmitScan, Derive, ChangeEntitlement, RequestPaid, RequestActive, Begin, db
<1>2. ASSUME NEW p \in Snapshots, SubmitScan(p) PROVE IInv'
  <2>1. Sound([type |-> "normalize", id |-> [snapshot |-> p, n |-> 1]], calcs')
    BY DEF Sound, Jobs, JobTypes, Tiers, Ids
  <2>2. queue' \in Seq(Jobs) /\ QueueSound'
    BY <1>1, <1>2, <2>1, PushQueue DEF SubmitScan, JobTypes
  <2> QED
    BY <1>0, <1>1, <1>2, <2>2, StillInv DEF SubmitScan, db
<1>3. ASSUME NEW p \in Snapshots, Derive(p) PROVE IInv'
  BY <1>0, <1>1, <1>3, StillQueue, StillInv DEF Derive, db
<1>4. CASE ChangeEntitlement
  BY <1>0, <1>1, <1>4, StillQueue, StillInv DEF ChangeEntitlement, db
<1>5. ASSUME NEW h \in Handlers, NEW p \in Snapshots, NEW n \in 1..Len(calcs[p]),
             RequestPaid(h, [snapshot |-> p, n |-> n])
      PROVE  IInv'
  <2> DEFINE s == [pc |-> "reset", tier |-> "paid", id |-> [snapshot |-> p, n |-> n], wipes |-> FALSE]
  <2>1. Len(calcs[p]) \in Nat
    BY Facts
  <2>2. s \in HandlerStates
    BY <2>1 DEF HandlerStates, Ids, Tiers
  <2>3. HandlerSound(s, calcs')
    BY <1>5 DEF HandlerSound, Exists, RequestPaid, Begin, db
  <2>4. handler' = [handler EXCEPT ![h] = s] /\ requests' = requests + 1
        /\ UNCHANGED <<states, runs, active, entitled, queue, worker, dropped, faults>>
    BY <1>5 DEF RequestPaid, Begin, db
  <2> HIDE DEF s
  <2> QED
    BY <1>0, <1>1, <2>2, <2>3, <2>4, StillQueue, HandlerFrame
<1>6. ASSUME NEW h \in Handlers, NEW tier \in Tiers, RequestActive(h, tier)
      PROVE  IInv'
  <2> DEFINE n == Len(calcs[active])
             id == [snapshot |-> active, n |-> n]
             s == [pc |-> IF n = 0 THEN "create" ELSE "reset", tier |-> tier, id |-> id, wipes |-> TRUE]
  <2>1. active \in Snapshots /\ n \in Nat
    BY <1>0, <1>6, Facts DEF RequestActive
  <2>2. s \in HandlerStates
    BY <2>1 DEF HandlerStates, Ids
  <2>3. HandlerSound(s, calcs')
    BY <1>6, <2>1 DEF HandlerSound, Exists, RequestActive, Begin, db
  <2>4. handler' = [handler EXCEPT ![h] = s] /\ requests' = requests + 1
        /\ UNCHANGED <<states, runs, active, entitled, queue, worker, dropped, faults>>
    BY <1>6 DEF RequestActive, Begin, db
  <2> HIDE DEF s
  <2> QED
    BY <1>0, <1>1, <2>2, <2>3, <2>4, StillQueue, HandlerFrame
<1> QED
  BY <1>2, <1>3, <1>4, <1>5, <1>6 DEF Client

LEMMA FaultsInv ==
  ASSUME IInv, Faults
  PROVE  IInv'
<1>0. {states, runs, requests, faults} \subseteq Nat /\ dropped \subseteq Ids /\ faults + 1 \in Nat
      /\ active \in Snapshots \cup {NoSnapshot} /\ entitled \in BOOLEAN
  BY Facts
<1>1. TableGrows /\ queue' \in Seq(Jobs) /\ QueueSound'
  BY StillTable, StillQueue DEF Faults, GiveUp, JobError, Crash, db
<1>2. \A h \in Handlers : handler[h].pc = "push" => handler[h].id \in Ids
  BY Facts, SnapshotAssumption DEF HandlerSound, HandlerStates, Exists, NoId
<1>3. \A w \in Workers : worker[w].pc # "idle" => worker[w].job.id \in Ids
  BY Facts DEF WorkerSound, Sound, Jobs
<1>4. ASSUME NEW h \in Handlers, GiveUp(h) PROVE IInv'
  BY <1>0, <1>1, <1>2, <1>4, IdleFacts, HandlerFrame DEF GiveUp, Stay, db
<1>5. ASSUME NEW w \in Workers, JobError(w) PROVE IInv'
  BY <1>0, <1>1, <1>3, <1>5, IdleFacts, WorkerFrame DEF JobError, Done, db
<1>6. CASE Crash
  <2>1. /\ handler' = [h \in Handlers |-> IdleHandler] /\ worker' = [w \in Workers |-> IdleWorker]
        /\ faults' = faults + 1 /\ UNCHANGED <<states, runs, active, entitled, requests>>
    BY <1>6 DEF Crash, db
  <2>2. dropped' \subseteq Ids
    BY <1>0, <1>2, <1>3, <1>6 DEF Crash
  <2>3. /\ handler' \in [Handlers -> HandlerStates] /\ worker' \in [Workers -> WorkerStates]
        /\ \A h \in Handlers : HandlerSound(handler'[h], calcs')
        /\ \A w \in Workers : WorkerSound(worker'[w], calcs')
    BY <2>1, IdleFacts
  <2> QED
    BY <1>0, <1>1, <2>1, <2>2, <2>3, Frame
<1> QED
  BY <1>4, <1>5, <1>6 DEF Faults

LEMMA IInvInit == Init => IInv
<1> SUFFICES ASSUME Init PROVE IInv
  OBVIOUS
<1>1. calcs \in [Snapshots -> Seq(Rows)] /\ queue \in Seq(Jobs) /\ Len(queue) = 0
      /\ \A p \in Snapshots : Len(calcs[p]) = 0
  BY DEF Init
<1>2. /\ handler \in [Handlers -> HandlerStates] /\ worker \in [Workers -> WorkerStates]
      /\ \A h \in Handlers : HandlerSound(handler[h], calcs)
      /\ \A w \in Workers : WorkerSound(worker[w], calcs)
  BY IdleFacts DEF Init
<1>3. TypeOK
  BY <1>1, <1>2 DEF Init, TypeOK, HandlerStates, WorkerStates
<1> QED
  BY <1>1, <1>2, <1>3 DEF IInv, QueueSound, RowsComplete

LEMMA IInvStep ==
  ASSUME IInv, [Next]_vars
  PROVE  IInv'
<1>1. CASE UNCHANGED vars
  <2>1. TableGrows /\ queue' \in Seq(Jobs) /\ QueueSound'
    BY <1>1, StillTable, StillQueue DEF vars, db
  <2> QED
    BY <1>1, <2>1, Facts, StillInv DEF vars, db
<1> QED
  BY <1>1, ClientInv, HandlerInv, WorkerInv, FaultsInv DEF Next

LEMMA Invariant == Spec => []IInv
<1>1. Init => IInv
  BY IInvInit
<1>2. IInv /\ [Next]_vars => IInv'
  BY IInvStep
<1> QED
  BY <1>1, <1>2, PTL DEF Spec

(***************************************************************************)
(* Calculations, jobs and everything in progress keep their types, however *)
(* many requests, workers and faults there are.                            *)
(***************************************************************************)
THEOREM TypeCorrect == Spec => []TypeOK
<1>1. IInv => TypeOK
  BY DEF IInv
<1> QED
  BY <1>1, Invariant, PTL

(***************************************************************************)
(* A report a client can see as ready has its payload, and a paid one the  *)
(* plans of the same run, through resets, repeated jobs and crashes.       *)
(***************************************************************************)
THEOREM ReadyReportsAreComplete == Spec => []ReadyIsComplete
<1>1. IInv => ReadyIsComplete
  <2> SUFFICES ASSUME IInv, NEW id \in Existing PROVE Complete(Row(id))
    BY DEF ReadyIsComplete, Complete
  <2>1. id.snapshot \in Snapshots /\ id.n \in 1..MaxRequests + 1 /\ id.n <= Len(calcs[id.snapshot])
    BY DEF Existing, Calculations
  <2>2. Len(calcs[id.snapshot]) \in Nat
    BY <2>1, Facts
  <2>3. id.n \in 1..Len(calcs[id.snapshot])
    BY <2>1, <2>2
  <2> QED
    BY <2>1, <2>3 DEF IInv, RowsComplete, Row
<1> QED
  BY <1>1, Invariant, PTL

----------------------------------------------------------------------------
(* Reports the client waits for                                            *)

\* A job of normalisation makes the first calculation of its snapshot.
Normalizes(job) == job.type = "normalize"
Normalizing(w) == worker[w].pc = "popped" /\ Normalizes(worker[w].job)
Unscanned(p) == p \in Scanned /\ Len(calcs[p]) = 0

FirstOnes ==
    /\ \A i \in 1..Len(queue) : Normalizes(queue[i]) => Unscanned(queue[i].id.snapshot)
    /\ \A w \in Workers : Normalizing(w) => Unscanned(worker[w].job.id.snapshot)
    /\ active \in Scanned => Len(calcs[active]) # 0
    /\ \A h \in Handlers : handler[h].pc = "create" => handler[h].id.snapshot \in Derived

\* Nobody else does.
OnlyOnes ==
    /\ \A i, j \in 1..Len(queue) :
         Normalizes(queue[i]) /\ Normalizes(queue[j]) /\ queue[i].id.snapshot = queue[j].id.snapshot => i = j
    /\ \A i \in 1..Len(queue), w \in Workers :
         Normalizes(queue[i]) /\ Normalizing(w) => queue[i].id.snapshot # worker[w].job.id.snapshot
    /\ \A v, w \in Workers :
         Normalizing(v) /\ Normalizing(w) /\ worker[v].job.id.snapshot = worker[w].job.id.snapshot => v = w

\* The tail of a normalisation.
Tails ==
    \A w \in Workers :
        /\ worker[w].pc \in {"committed", "marked"} => Normalizes(worker[w].job)
        /\ worker[w].pc = "marked" => Row(worker[w].job.id).status["paid"] # "not_started"

\* Who is going to write the next status of a tier: a job, a handler that is
\* about to push it, or a worker, from the moment it has to.
Listed(id, tier) == \E i \in 1..Len(queue) : queue[i] = [type |-> tier, id |-> id]
PushedBy(s, id, tier) == s.pc = "push" /\ s.tier = tier /\ s.id = id
WorkedBy(s, id, tier) ==
    /\ s.pc # "idle" /\ s.job.id = id
    /\ s.job.type = tier \/ s.pc = "marked" \/ (s.pc = "committed" /\ tier = "preview")
Pending(id, tier) ==
    \/ Listed(id, tier)
    \/ \E h \in Handlers : PushedBy(handler[h], id, tier)
    \/ \E w \in Workers : WorkedBy(worker[w], id, tier)

\* A status that was promised is pending.
Promised(id) ==
    id \notin dropped =>
        /\ Row(id).status["paid"] = "processing" => Pending(id, "paid")
        /\ Row(id).status["preview"] = "processing" =>
             Pending(id, "preview") \/ Row(id).status["paid"] # "not_started"
RowsPromised == \A p \in Snapshots : \A n \in 1..Len(calcs[p]) : Promised([snapshot |-> p, n |-> n])

AwaitInv == IInv /\ FirstOnes /\ OnlyOnes /\ Tails /\ RowsPromised

\* The two tables of a step that writes, and of one that adds a row.
LEMMA RowWritten ==
  ASSUME IInv, NEW id \in Ids, Exists(id, calcs), NEW row \in Rows, Write(id, row)
  PROVE  /\ \A p \in Snapshots : Len(calcs'[p]) = Len(calcs[p])
         /\ calcs'[id.snapshot][id.n] = row
         /\ \A p \in Snapshots : \A n \in 1..Len(calcs[p]) :
              [snapshot |-> p, n |-> n] # id => calcs'[p][n] = calcs[p][n]
<1> DEFINE p == id.snapshot
           rows == [calcs[p] EXCEPT ![id.n] = row]
<1>1. p \in Snapshots /\ calcs[p] \in Seq(Rows) /\ Len(calcs[p]) \in Nat /\ id.n \in 1..Len(calcs[p])
  BY Facts DEF Exists
<1>2. Len(rows) = Len(calcs[p]) /\ \A m \in 1..Len(calcs[p]) : rows[m] = IF m = id.n THEN row ELSE calcs[p][m]
  BY <1>1
<1>3. calcs' = [calcs EXCEPT ![p] = rows]
  BY DEF Write
<1> HIDE DEF rows
<1>4. calcs'[p] = rows /\ \A q \in Snapshots : q # p => calcs'[q] = calcs[q]
  BY <1>1, <1>3 DEF IInv, TypeOK
<1>5. \A q \in Snapshots, n \in Nat : [snapshot |-> q, n |-> n] # id => q # p \/ n # id.n
  BY DEF Ids
<1>6. \A q \in Snapshots : Len(calcs[q]) \in Nat
  BY Facts
<1>7. \A q \in Snapshots : \A n \in 1..Len(calcs[q]) : [snapshot |-> q, n |-> n] # id => calcs'[q][n] = calcs[q][n]
  BY <1>2, <1>4, <1>5, <1>6
<1> QED
  BY <1>1, <1>2, <1>4, <1>7

LEMMA RowAdded ==
  ASSUME IInv, NEW q \in Snapshots, NEW row \in Rows, calcs' = [calcs EXCEPT ![q] = Append(@, row)]
  PROVE  /\ Len(calcs'[q]) = Len(calcs[q]) + 1 /\ calcs'[q][Len(calcs[q]) + 1] = row
         /\ \A n \in 1..Len(calcs[q]) : calcs'[q][n] = calcs[q][n]
         /\ \A p \in Snapshots : p # q => calcs'[p] = calcs[p]
<1>1. calcs[q] \in Seq(Rows)
  BY Facts
<1>2. calcs'[q] = Append(calcs[q], row) /\ \A p \in Snapshots : p # q => calcs'[p] = calcs[p]
  BY DEF IInv, TypeOK
<1> QED
  BY <1>1, <1>2

\* Steps that neither push, pop nor run a normalisation.
LEMMA OnesStay ==
  ASSUME IInv, FirstOnes, OnlyOnes,
         \A i \in 1..Len(queue') : Normalizes(queue'[i]) => i \in 1..Len(queue) /\ queue'[i] = queue[i],
         \A w \in Workers : Normalizing(w)' => worker'[w] = worker[w],
         \A p \in Scanned : Len(calcs'[p]) = Len(calcs[p]),
         active' \in Scanned => active' = active,
         \A h \in Handlers : handler'[h].pc = "create" => handler'[h] = handler[h] \/ handler'[h].id.snapshot \in Derived
  PROVE  FirstOnes' /\ OnlyOnes'
<1>1. \A p : Unscanned(p) => Unscanned(p)'
  BY DEF Unscanned
<1>2. \A w \in Workers : Normalizing(w)' => Normalizing(w) /\ worker'[w] = worker[w]
  BY DEF Normalizing
<1>3. FirstOnes'
  BY <1>1, <1>2 DEF FirstOnes
<1>4. OnlyOnes'
  BY <1>2 DEF OnlyOnes
<1> QED
  BY <1>3, <1>4

\* A push adds one job at the end of the list.
LEMMA Pushed ==
  ASSUME IInv, NEW type \in JobTypes, NEW id \in Ids, Push(type, id)
  PROVE  /\ Len(queue') = Len(queue) + 1 /\ queue'[Len(queue) + 1] = [type |-> type, id |-> id]
         /\ \A i \in 1..Len(queue) : i \in 1..Len(queue') /\ queue'[i] = queue[i]
         /\ Len(queue) \in Nat
<1>1. queue \in Seq(Jobs) /\ [type |-> type, id |-> id] \in Jobs
  BY Facts DEF Jobs
<1> QED
  BY <1>1 DEF Push

LEMMA Popped ==
  ASSUME IInv, NEW w \in Workers, Pop(w)
  PROVE  /\ worker[w].pc = "idle" /\ worker' = [worker EXCEPT ![w] = [pc |-> "popped", job |-> queue[1]]]
         /\ worker'[w] = [pc |-> "popped", job |-> queue[1]] /\ \A v \in Workers : v # w => worker'[v] = worker[v]
         /\ Len(queue) \in Nat /\ 1 \in 1..Len(queue) /\ queue[1] \in Jobs
         /\ \A i \in 1..Len(queue') : i + 1 \in 1..Len(queue) /\ i + 1 # 1 /\ queue'[i] = queue[i + 1]
         /\ \A i \in 1..Len(queue) : i = 1 \/ (i - 1 \in 1..Len(queue') /\ queue'[i - 1] = queue[i])
         /\ \A i, j \in 1..Len(queue') : i + 1 = j + 1 => i = j
         /\ UNCHANGED <<calcs, active, handler, dropped>>
<1>1. queue \in Seq(Jobs) /\ queue # << >> /\ queue' = Tail(queue) /\ Head(queue) = queue[1]
  BY Facts DEF Pop
<1>2. /\ Len(queue) \in Nat /\ 1 \in 1..Len(queue) /\ queue[1] \in Jobs
      /\ \A i \in 1..Len(queue') : i + 1 \in 1..Len(queue) /\ i + 1 # 1 /\ queue'[i] = queue[i + 1]
      /\ \A i \in 1..Len(queue) : i = 1 \/ (i - 1 \in 1..Len(queue') /\ queue'[i - 1] = queue[i])
      /\ \A i, j \in 1..Len(queue') : i + 1 = j + 1 => i = j
  BY <1>1
<1>3. worker \in [Workers -> WorkerStates] /\ worker' = [worker EXCEPT ![w] = [pc |-> "popped", job |-> queue[1]]]
      /\ worker[w].pc = "idle" /\ UNCHANGED <<calcs, active, handler, dropped>>
  BY <1>1, Facts DEF Pop, db
<1>4. worker'[w] = [pc |-> "popped", job |-> queue[1]] /\ \A v \in Workers : v # w => worker'[v] = worker[v]
  BY <1>3
<1> QED
  BY <1>2, <1>3, <1>4

LEMMA OnesSubmit ==
  ASSUME IInv, FirstOnes, OnlyOnes, NEW p \in Snapshots, SubmitScan(p)
  PROVE  FirstOnes' /\ OnlyOnes'
<1> DEFINE id == [snapshot |-> p, n |-> 1]
<1>1. /\ p \in Scanned /\ calcs[p] = << >> /\ Push("normalize", id)
      /\ ~\E i \in 1..Len(queue) : queue[i].id.snapshot = p
      /\ ~\E w \in Workers : worker[w].job.id.snapshot = p
      /\ UNCHANGED <<calcs, active, handler, worker>>
  BY DEF SubmitScan, db
<1>2. id \in Ids /\ "normalize" \in JobTypes /\ id.snapshot = p
  BY DEF Ids, JobTypes
<1>3. /\ Len(queue') = Len(queue) + 1 /\ queue'[Len(queue) + 1] = [type |-> "normalize", id |-> id]
      /\ \A i \in 1..Len(queue) : i \in 1..Len(queue') /\ queue'[i] = queue[i]
      /\ Len(queue) \in Nat
  BY <1>1, <1>2, Pushed
<1>4. \A i \in 1..Len(queue') : i \in 1..Len(queue) \/ i = Len(queue) + 1
  BY <1>3
<1>5. Unscanned(p)' /\ \A q : Unscanned(q) => Unscanned(q)'
  BY <1>1 DEF Unscanned
<1>6. /\ queue'[Len(queue) + 1].id.snapshot = p
      /\ \A i \in 1..Len(queue) : queue'[i].id.snapshot # p
  BY <1>1, <1>2, <1>3
<1>7. \A w \in Workers : Normalizing(w)' => Normalizing(w) /\ worker'[w] = worker[w] /\ worker[w].job.id.snapshot # p
  BY <1>1 DEF Normalizing
<1>8. FirstOnes'
  BY <1>1, <1>3, <1>4, <1>5, <1>6, <1>7 DEF FirstOnes
<1>9. OnlyOnes'
  BY <1>3, <1>4, <1>6, <1>7 DEF OnlyOnes
<1> QED
  BY <1>8, <1>9

LEMMA OnesPop ==
  ASSUME IInv, FirstOnes, OnlyOnes, NEW w \in Workers, Pop(w)
  PROVE  FirstOnes' /\ OnlyOnes'
<1> DEFINE first == queue[1]
<1>1. /\ worker'[w] = [pc |-> "popped", job |-> first] /\ \A v \in Workers : v # w => worker'[v] = worker[v]
      /\ 1 \in 1..Len(queue)
      /\ \A i \in 1..Len(queue') : i + 1 \in 1..Len(queue) /\ i + 1 # 1 /\ queue'[i] = queue[i + 1]
      /\ \A i, j \in 1..Len(queue') : i + 1 = j + 1 => i = j
      /\ UNCHANGED <<calcs, active, handler>>
  BY Popped
<1>2. \A p : Unscanned(p) => Unscanned(p)'
  BY <1>1 DEF Unscanned
<1>3. /\ Normalizing(w)' <=> Normalizes(first)
      /\ worker'[w].job = first
      /\ \A v \in Workers : v # w => (Normalizing(v)' <=> Normalizing(v))
  BY <1>1 DEF Normalizing
<1>4. FirstOnes'
  BY <1>1, <1>2, <1>3 DEF FirstOnes
<1>5. ASSUME NEW i \in 1..Len(queue'), NEW j \in 1..Len(queue'),
             Normalizes(queue'[i]), Normalizes(queue'[j]), queue'[i].id.snapshot = queue'[j].id.snapshot
      PROVE  i = j
  <2>1. i + 1 \in 1..Len(queue) /\ j + 1 \in 1..Len(queue) /\ queue'[i] = queue[i + 1] /\ queue'[j] = queue[j + 1]
    BY <1>1
  <2>2. i + 1 = j + 1
    BY <1>5, <2>1 DEF OnlyOnes
  <2> QED
    BY <1>1, <2>2
<1>6. \A i \in 1..Len(queue') : Normalizes(queue'[i]) /\ Normalizes(first) => queue'[i].id.snapshot # first.id.snapshot
  BY <1>1 DEF OnlyOnes
<1>7. \A i \in 1..Len(queue'), v \in Workers : v # w /\ Normalizes(queue'[i]) /\ Normalizing(v) =>
         queue'[i].id.snapshot # worker[v].job.id.snapshot
  BY <1>1 DEF OnlyOnes
<1>8. \A v \in Workers : v # w /\ Normalizing(v) /\ Normalizes(first) => worker[v].job.id.snapshot # first.id.snapshot
  BY <1>1 DEF OnlyOnes
<1>9. OnlyOnes'
  <2>1. \A i \in 1..Len(queue'), v \in Workers :
          Normalizes(queue'[i]) /\ Normalizing(v)' => queue'[i].id.snapshot # worker'[v].job.id.snapshot
    BY <1>1, <1>3, <1>6, <1>7
  <2>2. \A u, v \in Workers :
          Normalizing(u)' /\ Normalizing(v)' /\ worker'[u].job.id.snapshot = worker'[v].job.id.snapshot => u = v
    BY <1>1, <1>3, <1>8 DEF OnlyOnes
  <2> QED
    BY <1>5, <2>1, <2>2 DEF OnlyOnes
<1> QED
  BY <1>4, <1>9

LEMMA OnesNormalize ==
  ASSUME IInv, FirstOnes, OnlyOnes, NEW w \in Workers, Normalize(w)
  PROVE  FirstOnes' /\ OnlyOnes'
<1> DEFINE row == NewRow("processing", "not_started")
<1>0. PICK p : p = worker[w].job.id.snapshot
  OBVIOUS
<1>1. /\ Normalizing(w) /\ calcs' = [calcs EXCEPT ![p] = Append(@, row)] /\ active' = p
      /\ worker' = [worker EXCEPT ![w].pc = "committed"] /\ UNCHANGED <<queue, handler>>
  BY <1>0 DEF Normalize, At, Normalizing, Normalizes
<1>2. p \in Scanned /\ p \in Snapshots /\ Len(calcs[p]) = 0
  BY <1>0, <1>1 DEF FirstOnes, Unscanned, Snapshots
<1>3. row \in Rows
  BY DEF NewRow, Rows, Tiers, Statuses
<1>4. /\ Len(calcs'[p]) = Len(calcs[p]) + 1 /\ \A q \in Snapshots : q # p => calcs'[q] = calcs[q]
  BY <1>1, <1>2, <1>3, RowAdded
<1>5. \A q : Unscanned(q) /\ q # p => Unscanned(q)'
  BY <1>4 DEF Unscanned, Snapshots
<1>6. worker'[w].pc = "committed" /\ \A v \in Workers : v # w => worker'[v] = worker[v]
  BY <1>1, Facts DEF WorkerStates
<1>7. \A v \in Workers : Normalizing(v)' => v # w /\ Normalizing(v) /\ worker'[v] = worker[v]
  BY <1>6 DEF Normalizing
<1>8. \A v \in Workers : Normalizing(v)' => worker[v].job.id.snapshot # p
  BY <1>0, <1>1, <1>7 DEF OnlyOnes
<1>9. \A i \in 1..Len(queue) : Normalizes(queue[i]) => queue[i].id.snapshot # p
  BY <1>0, <1>1 DEF OnlyOnes
<1>10. FirstOnes'
  <2>2. \A v \in Workers : Normalizing(v)' => worker'[v] = worker[v] /\ Unscanned(worker[v].job.id.snapshot)
                                             /\ worker[v].job.id.snapshot # p
    BY <1>7, <1>8 DEF FirstOnes
  <2>3. \A v \in Workers : Normalizing(v)' =>
          worker'[v].job.id.snapshot \in Scanned /\ Len(calcs'[worker'[v].job.id.snapshot]) = 0
    BY <1>5, <2>2 DEF Unscanned
  <2>4. \A i \in 1..Len(queue') : Normalizes(queue'[i]) =>
          queue'[i].id.snapshot \in Scanned /\ Len(calcs'[queue'[i].id.snapshot]) = 0
    BY <1>1, <1>5, <1>9 DEF FirstOnes, Unscanned
  <2>5. Len(calcs'[active']) # 0
    BY <1>1, <1>2, <1>4
  <2> QED
    BY <1>1, <2>3, <2>4, <2>5 DEF FirstOnes, Unscanned
<1>11. OnlyOnes'
  BY <1>1, <1>7 DEF OnlyOnes
<1> QED
  BY <1>10, <1>11

LEMMA OnesHandler ==
  ASSUME IInv, FirstOnes, OnlyOnes, NEW h \in Handlers, HandlerStep(h)
  PROVE  FirstOnes' /\ OnlyOnes'
<1> DEFINE id == handler[h].id
           tier == handler[h].tier
<1>1. handler[h] \in HandlerStates /\ HandlerSound(handler[h], calcs) /\ handler \in [Handlers -> HandlerStates]
      /\ tier \in Tiers
  BY Facts DEF HandlerStates
<1>2. /\ UNCHANGED <<worker, active>> /\ handler'[h].pc \in {"push", "idle"}
      /\ \A g \in Handlers : g # h => handler'[g] = handler[g]
  BY <1>1 DEF HandlerStep, Create, Reset, Enqueue, Stay, HandlerStates, IdleHandler, db
<1>3. CASE Create(h)
  <2> DEFINE row == RequestedRow(tier)
             p == id.snapshot
  <2>1. p \in Derived /\ p \in Snapshots /\ p \notin Scanned /\ UNCHANGED queue
        /\ calcs' = [calcs EXCEPT ![p] = Append(@, row)]
    BY <1>3, SnapshotAssumption DEF Create, FirstOnes, Snapshots
  <2>2. row \in Rows
    BY <1>1 DEF RequestedRow, NewRow, Rows, Tiers, Statuses
  <2>3. \A q \in Scanned : calcs'[q] = calcs[q]
    BY <2>1, <2>2, RowAdded DEF Snapshots
  <2> QED
    BY <1>2, <2>1, <2>3, OnesStay
<1>4. CASE Reset(h)
  <2> DEFINE row == [Row(id) EXCEPT !.status[tier] = "processing",
                                    !.payload[tier] = IF handler[h].wipes THEN 0 ELSE @]
  <2>1. Exists(id, calcs) /\ id \in Ids
    BY <1>1, <1>4, SnapshotAssumption DEF Reset, HandlerSound, HandlerStates, Exists, NoId
  <2>2. Row(id) \in Rows
    BY <2>1, RowFacts
  <2>3. row \in Rows /\ Write(id, row) /\ UNCHANGED queue
    BY <1>1, <1>4, <2>2 DEF Reset, Rows, Tiers, Statuses
  <2>4. \A q \in Scanned : Len(calcs'[q]) = Len(calcs[q])
    BY <2>1, <2>3, RowWritten DEF Snapshots
  <2> QED
    BY <1>2, <2>3, <2>4, OnesStay
<1>5. CASE Enqueue(h)
  <2>1. id \in Ids /\ tier \in JobTypes /\ tier # "normalize" /\ Push(tier, id) /\ UNCHANGED calcs
    BY <1>1, <1>5, SnapshotAssumption DEF Enqueue, HandlerSound, HandlerStates, Exists, NoId, JobTypes, Tiers, db
  <2>2. /\ Len(queue') = Len(queue) + 1 /\ queue'[Len(queue) + 1] = [type |-> tier, id |-> id]
        /\ \A i \in 1..Len(queue) : i \in 1..Len(queue') /\ queue'[i] = queue[i]
        /\ Len(queue) \in Nat
    BY <2>1, Pushed
  <2>3. \A i \in 1..Len(queue') : Normalizes(queue'[i]) => i \in 1..Len(queue) /\ queue'[i] = queue[i]
    BY <2>1, <2>2 DEF Normalizes
  <2> QED
    BY <1>2, <2>1, <2>3, OnesStay
<1> QED
  BY <1>3, <1>4, <1>5 DEF HandlerStep

\* The steps of a worker that write a row: one tier gets its next status.
LEMMA Writes ==
  ASSUME IInv, NEW w \in Workers, MarkPaid(w) \/ FailReport(w) \/ FinishPreview(w) \/ FinishPaid(w)
  PROVE  \E row \in Rows, tier \in Tiers, status \in {"processing", "ready", "failed"} :
           /\ Write(worker[w].job.id, row) /\ row.status = [Row(worker[w].job.id).status EXCEPT ![tier] = status]
           /\ Exists(worker[w].job.id, calcs) /\ worker[w].job.id \in Ids
           /\ status = "processing" => /\ tier = "paid" /\ worker[w].pc = "committed"
                                       /\ worker' = [worker EXCEPT ![w] = [pc |-> "marked", job |-> worker[w].job]]
           /\ status # "processing" => /\ worker[w].pc = "popped" /\ worker[w].job.type = tier
                                       /\ worker' = [worker EXCEPT ![w] = IdleWorker]
           /\ UNCHANGED <<active, queue, handler, dropped>>
<1> DEFINE job == worker[w].job
           id == job.id
           run == runs + 1
           Wanted(row, tier, status) ==
             /\ Write(id, row) /\ row.status = [Row(id).status EXCEPT ![tier] = status]
             /\ Exists(id, calcs) /\ id \in Ids
             /\ status = "processing" => /\ tier = "paid" /\ worker[w].pc = "committed"
                                         /\ worker' = [worker EXCEPT ![w] = [pc |-> "marked", job |-> job]]
             /\ status # "processing" => /\ worker[w].pc = "popped" /\ job.type = tier
                                         /\ worker' = [worker EXCEPT ![w] = IdleWorker]
             /\ UNCHANGED <<active, queue, handler, dropped>>
<1>1. worker[w] \in WorkerStates /\ WorkerSound(worker[w], calcs) /\ worker \in [Workers -> WorkerStates] /\ run \in Nat
  BY Facts
<1>2. (job.type \in Tiers /\ worker[w].pc = "popped") \/ worker[w].pc \in {"committed", "marked"}
      => id \in Ids /\ Exists(id, calcs) /\ Row(id) \in Rows
  BY <1>1, RowFacts DEF WorkerSound, Sound, Jobs
<1>3. CASE MarkPaid(w)
  <2> DEFINE row == [Row(id) EXCEPT !.status["paid"] = "processing"]
  <2>1. row \in Rows /\ row.status = [Row(id).status EXCEPT !["paid"] = "processing"]
    BY <1>2, <1>3 DEF MarkPaid, Rows, Tiers, Statuses
  <2>2. [worker[w] EXCEPT !.pc = "marked"] = [pc |-> "marked", job |-> job]
    BY <1>1 DEF WorkerStates
  <2>3. worker' = [worker EXCEPT ![w] = [worker[w] EXCEPT !.pc = "marked"]]
    BY <1>1, <1>3 DEF MarkPaid
  <2>4. Wanted(row, "paid", "processing")
    BY <1>2, <1>3, <2>1, <2>2, <2>3 DEF MarkPaid
  <2> QED
    BY <2>1, <2>4 DEF Tiers
<1>4. CASE FailReport(w)
  <2> DEFINE row == [Row(id) EXCEPT !.status[job.type] = "failed"]
  <2>1. row \in Rows /\ row.status = [Row(id).status EXCEPT ![job.type] = "failed"] /\ job.type \in Tiers
    BY <1>2, <1>4 DEF FailReport, Rows, Tiers, Statuses
  <2>2. Wanted(row, job.type, "failed")
    BY <1>2, <1>4, <2>1 DEF FailReport, Done
  <2> QED
    BY <2>1, <2>2
<1>5. CASE FinishPreview(w)
  <2> DEFINE row == PreviewRow(Row(id), run)
  <2>1. row \in Rows /\ row.status = [Row(id).status EXCEPT !["preview"] = "ready"]
    BY <1>1, <1>2, <1>5 DEF FinishPreview, At, PreviewRow, Rows, Tiers, Statuses
  <2>2. Wanted(row, "preview", "ready")
    BY <1>2, <1>5, <2>1 DEF FinishPreview, At, Done, Tiers
  <2> QED
    BY <2>1, <2>2 DEF Tiers
<1>6. CASE FinishPaid(w)
  <2> DEFINE row == PaidRow(Row(id), run)
  <2>1. row \in Rows /\ row.status = [Row(id).status EXCEPT !["paid"] = "ready"]
    BY <1>1, <1>2, <1>6 DEF FinishPaid, At, PaidRow, Rows, Tiers, Statuses
  <2>2. Wanted(row, "paid", "ready")
    BY <1>2, <1>6, <2>1 DEF FinishPaid, At, Done, Tiers
  <2> QED
    BY <2>1, <2>2 DEF Tiers
<1> QED
  BY <1>3, <1>4, <1>5, <1>6

\* The steps that hand the tail's job on.
LEMMA Pushes ==
  ASSUME IInv, NEW w \in Workers, PushPaid(w) \/ PushPreview(w)
  PROVE  \E tier \in Tiers :
           /\ Push(tier, worker[w].job.id) /\ worker[w].job.id \in Ids
           /\ worker' = [worker EXCEPT ![w] = IdleWorker]
           /\ worker[w].pc = IF tier = "paid" THEN "marked" ELSE "committed"
           /\ UNCHANGED <<calcs, active, handler, dropped>>
<1>1. worker[w].pc # "idle" => worker[w].job.id \in Ids
  BY Facts DEF WorkerSound, Sound, Jobs
<1>2. CASE PushPaid(w)
  BY <1>1, <1>2 DEF PushPaid, Done, Tiers, db
<1>3. CASE PushPreview(w)
  BY <1>1, <1>3 DEF PushPreview, Done, Tiers, db
<1> QED
  BY <1>2, <1>3

LEMMA OnesWorker ==
  ASSUME IInv, FirstOnes, OnlyOnes, NEW w \in Workers, WorkerStep(w)
  PROVE  FirstOnes' /\ OnlyOnes'
<1>0. worker \in [Workers -> WorkerStates] /\ Snapshots = Scanned \cup Derived
  BY Facts DEF Snapshots
<1>1. CASE MarkPaid(w) \/ FailReport(w) \/ FinishPreview(w) \/ FinishPaid(w)
  <2> DEFINE id == worker[w].job.id
  <2>1. PICK row \in Rows : Write(id, row) /\ Exists(id, calcs) /\ id \in Ids /\ UNCHANGED <<active, queue, handler>>
          /\ (worker' = [worker EXCEPT ![w] = [pc |-> "marked", job |-> worker[w].job]]
                \/ worker' = [worker EXCEPT ![w] = IdleWorker])
    BY <1>1, Writes
  <2>2. \A v \in Workers : Normalizing(v)' => worker'[v] = worker[v]
    BY <1>0, <2>1 DEF Normalizing, IdleWorker
  <2>3. \A p \in Scanned : Len(calcs'[p]) = Len(calcs[p])
    BY <1>0, <2>1, RowWritten
  <2> QED
    BY <2>1, <2>2, <2>3, OnesStay
<1>2. CASE PushPaid(w) \/ PushPreview(w)
  <2> DEFINE id == worker[w].job.id
  <2>1. PICK tier \in Tiers : Push(tier, id) /\ id \in Ids /\ worker' = [worker EXCEPT ![w] = IdleWorker]
                               /\ UNCHANGED <<calcs, active, handler>>
    BY <1>2, Pushes
  <2>2. \A v \in Workers : Normalizing(v)' => worker'[v] = worker[v]
    BY <1>0, <2>1 DEF Normalizing, IdleWorker
  <2>3. tier \in JobTypes /\ tier # "normalize"
    BY DEF JobTypes, Tiers
  <2>4. /\ Len(queue') = Len(queue) + 1 /\ queue'[Len(queue) + 1] = [type |-> tier, id |-> id]
        /\ \A i \in 1..Len(queue) : queue'[i] = queue[i]
        /\ Len(queue) \in Nat
    BY <2>1, <2>3, Pushed
  <2>5. \A i \in 1..Len(queue') : Normalizes(queue'[i]) => i \in 1..Len(queue) /\ queue'[i] = queue[i]
    BY <2>3, <2>4 DEF Normalizes
  <2> QED
    BY <2>1, <2>2, <2>5, OnesStay
<1> QED
  BY <1>1, <1>2, OnesPop, OnesNormalize DEF WorkerStep

LEMMA OnesClient ==
  ASSUME IInv, FirstOnes, OnlyOnes, Client
  PROVE  FirstOnes' /\ OnlyOnes'
<1>0. handler \in [Handlers -> HandlerStates] /\ active \in Snapshots \cup {NoSnapshot}
  BY Facts
<1>1. ASSUME NEW p \in Snapshots, Derive(p) PROVE FirstOnes' /\ OnlyOnes'
  BY <1>1, SnapshotAssumption, OnesStay DEF Derive, db, Normalizes
<1>2. CASE ChangeEntitlement
  BY <1>2, OnesStay DEF ChangeEntitlement, db
<1>3. ASSUME NEW h \in Handlers, UNCHANGED <<db, active, queue, worker>>,
             NEW s, handler' = [handler EXCEPT ![h] = s], s.pc = "create" => s.id.snapshot \in Derived
      PROVE  FirstOnes' /\ OnlyOnes'
  <2>1. \A g \in Handlers : handler'[g].pc = "create" => handler'[g] = handler[g] \/ handler'[g].id.snapshot \in Derived
    BY <1>0, <1>3
  <2> QED
    BY <1>3, <2>1, OnesStay DEF db
<1>4. ASSUME NEW h \in Handlers, NEW p \in Snapshots, NEW n \in 1..Len(calcs[p]),
             RequestPaid(h, [snapshot |-> p, n |-> n])
      PROVE  FirstOnes' /\ OnlyOnes'
  BY <1>3, <1>4 DEF RequestPaid, Begin
<1>5. ASSUME NEW h \in Handlers, NEW tier \in Tiers, RequestActive(h, tier)
      PROVE  FirstOnes' /\ OnlyOnes'
  <2> DEFINE n == Len(calcs[active])
             s == [pc |-> IF n = 0 THEN "create" ELSE "reset", tier |-> tier,
                   id |-> [snapshot |-> active, n |-> n], wipes |-> TRUE]
  <2>1. handler' = [handler EXCEPT ![h] = s] /\ active # NoSnapshot /\ UNCHANGED <<db, active, queue, worker>>
    BY <1>5 DEF RequestActive, Begin
  <2>2. n = 0 => active \in Derived
    BY <1>0, <2>1 DEF FirstOnes, Snapshots
  <2>3. s.pc = "create" => s.id.snapshot \in Derived
    BY <2>2
  <2> HIDE DEF s
  <2> QED
    BY <1>3, <2>1, <2>3
<1> QED
  BY <1>1, <1>2, <1>4, <1>5, OnesSubmit DEF Client

LEMMA OnesFaults ==
  ASSUME IInv, FirstOnes, OnlyOnes, Faults
  PROVE  FirstOnes' /\ OnlyOnes'
<1>1. handler \in [Handlers -> HandlerStates] /\ worker \in [Workers -> WorkerStates]
  BY Facts
<1>2. UNCHANGED <<db, active, queue>>
  BY DEF Faults, GiveUp, JobError, Crash
<1>3. /\ \A v \in Workers : worker'[v] = worker[v] \/ worker'[v] = IdleWorker
      /\ \A h \in Handlers : handler'[h] = handler[h] \/ handler'[h] = IdleHandler
  BY <1>1 DEF Faults, GiveUp, JobError, Crash, Stay, Done
<1>4. /\ \A v \in Workers : Normalizing(v)' => worker'[v] = worker[v]
      /\ \A h \in Handlers : handler'[h].pc = "create" => handler'[h] = handler[h]
  BY <1>3 DEF Normalizing, IdleWorker, IdleHandler
<1> QED
  BY <1>2, <1>4, OnesStay DEF db

\* A promise survives a step that keeps the row's statuses and what is pending.
LEMMA SamePromise ==
  ASSUME NEW id, Promised(id), Row(id)'.status = Row(id).status, id \in dropped => id \in dropped',
         \A tier \in Tiers : id \notin dropped' /\ Pending(id, tier) =>
            Pending(id, tier)' \/ (tier = "preview" /\ Row(id).status["paid"] # "not_started")
  PROVE  Promised(id)'
  BY DEF Promised, Tiers

LEMMA RowByRow ==
  ASSUME IInv, IInv', RowsPromised,
         \A id \in Ids : Exists(id, calcs)' /\ (Exists(id, calcs) => Promised(id)) => Promised(id)'
  PROVE  RowsPromised'
<1>1. \A id \in Ids : Exists(id, calcs) => Promised(id)
  <2> SUFFICES ASSUME NEW id \in Ids, Exists(id, calcs) PROVE Promised(id)
    OBVIOUS
  <2>1. id = [snapshot |-> id.snapshot, n |-> id.n]
    BY DEF Ids
  <2> QED
    BY <2>1 DEF RowsPromised, Exists
<1>2. ASSUME NEW p \in Snapshots, NEW n \in 1..Len(calcs'[p]) PROVE Promised([snapshot |-> p, n |-> n])'
  <2> DEFINE id == [snapshot |-> p, n |-> n]
  <2>1. Len(calcs'[p]) \in Nat
    BY DEF IInv, TypeOK
  <2>2. id \in Ids /\ id.snapshot = p /\ id.n = n
    BY <2>1 DEF Ids
  <2>3. Exists(id, calcs)'
    BY <2>2 DEF Exists
  <2> HIDE DEF id
  <2>4. Promised(id)'
    BY <1>1, <2>2, <2>3
  <2> QED
    BY <2>4 DEF id
<1> QED
  BY <1>2, Zenon DEF RowsPromised

\* A step that changes no row.
LEMMA StillPromised ==
  ASSUME IInv, IInv', Tails, RowsPromised, UNCHANGED calcs, dropped \subseteq dropped',
         \A w \in Workers : worker'[w].pc \in {"committed", "marked"} => worker'[w] = worker[w],
         \A id \in Ids, tier \in Tiers : id \notin dropped' /\ Pending(id, tier) =>
            Pending(id, tier)' \/ (tier = "preview" /\ Row(id).status["paid"] # "not_started")
  PROVE  Tails' /\ RowsPromised'
<1>1. \A id : Row(id)' = Row(id)
  BY DEF Row
<1>2. Tails'
  BY DEF Tails, Row
<1>3. ASSUME NEW id \in Ids, Exists(id, calcs)', Exists(id, calcs) => Promised(id) PROVE Promised(id)'
  <2>1. Exists(id, calcs)
    BY <1>3 DEF Exists
  <2> QED
    BY <1>1, <1>3, <2>1, SamePromise
<1> QED
  BY <1>2, <1>3, RowByRow

\* A step that gives one tier of one row its next status.
LEMMA WrittenPromised ==
  ASSUME IInv, IInv', Tails, RowsPromised, UNCHANGED dropped,
         NEW key \in Ids, Exists(key, calcs), NEW row \in Rows, Write(key, row),
         NEW to \in Tiers, NEW status, status # "not_started",
         row.status = [Row(key).status EXCEPT ![to] = status],
         status = "processing" => Pending(key, to)',
         \A w \in Workers : worker'[w].pc \in {"committed", "marked"} =>
            worker'[w] = worker[w] \/ (worker'[w].job = worker[w].job /\ Normalizes(worker[w].job)
                                       /\ worker[w].job.id = key /\ to = "paid"),
         \A id \in Ids, tier \in Tiers : Pending(id, tier) => Pending(id, tier)' \/ (id = key /\ tier = to)
  PROVE  Tails' /\ RowsPromised'
<1>1. /\ Row(key)' = row /\ Row(key) \in Rows
      /\ \A id \in Ids : Exists(id, calcs)' => Exists(id, calcs)
      /\ \A id \in Ids : Exists(id, calcs) /\ id # key => Row(id)' = Row(id)
  <2>1. /\ \A p \in Snapshots : Len(calcs'[p]) = Len(calcs[p])
        /\ calcs'[key.snapshot][key.n] = row
        /\ \A p \in Snapshots : \A n \in 1..Len(calcs[p]) :
             [snapshot |-> p, n |-> n] # key => calcs'[p][n] = calcs[p][n]
    BY RowWritten
  <2>2. \A id \in Ids : id = [snapshot |-> id.snapshot, n |-> id.n]
    BY DEF Ids
  <2> QED
    BY <2>1, <2>2, RowFacts DEF Exists, Row
<1>2. /\ row.status[to] = status /\ \A tier \in Tiers : tier # to => row.status[tier] = Row(key).status[tier]
  BY <1>1 DEF Rows
<1>3. \A id \in Ids : Exists(id, calcs) /\ Row(id).status["paid"] # "not_started" => Row(id)'.status["paid"] # "not_started"
  <2> SUFFICES ASSUME NEW id \in Ids, Exists(id, calcs), Row(id).status["paid"] # "not_started"
               PROVE  Row(id)'.status["paid"] # "not_started"
    OBVIOUS
  <2>1. CASE id # key
    BY <1>1, <2>1
  <2>2. CASE id = key
    BY <1>1, <1>2, <2>2 DEF Tiers, Row
  <2> QED
    BY <2>1, <2>2
<1>4. Tails'
  <2> SUFFICES ASSUME NEW w \in Workers, worker'[w].pc \in {"committed", "marked"}
               PROVE  /\ Normalizes(worker'[w].job)
                      /\ worker'[w].pc = "marked" =>
                           calcs'[worker'[w].job.id.snapshot][worker'[w].job.id.n].status["paid"] # "not_started"
    BY DEF Tails, Row
  <2>1. CASE worker'[w] = worker[w]
    <3>1. PICK id : id = worker[w].job.id
      OBVIOUS
    <3>2. id \in Ids /\ Exists(id, calcs)
      BY <2>1, <3>1, Facts DEF WorkerSound, Sound, Jobs
    <3>3. worker'[w].pc = "marked" => Row(id)'.status["paid"] # "not_started"
      BY <1>3, <2>1, <3>1, <3>2 DEF Tails
    <3> QED
      BY <2>1, <3>1, <3>3 DEF Tails, Row
  <2>2. CASE worker'[w].job = worker[w].job /\ Normalizes(worker[w].job) /\ worker[w].job.id = key /\ to = "paid"
    BY <1>1, <1>2, <2>2 DEF Row, Normalizes
  <2> QED
    BY <2>1, <2>2
<1>5. ASSUME NEW id \in Ids, Exists(id, calcs)', Exists(id, calcs) => Promised(id) PROVE Promised(id)'
  <2>1. Exists(id, calcs) /\ Promised(id)
    BY <1>1, <1>5
  <2>2. CASE id # key
    BY <1>1, <2>1, <2>2, SamePromise
  <2>3. CASE id = key
    <3>1. \A tier \in Tiers : tier # to /\ Pending(key, tier) => Pending(key, tier)'
      OBVIOUS
    <3> QED
      BY <1>1, <1>2, <2>1, <2>3, <3>1 DEF Promised, Tiers
  <2> QED
    BY <2>2, <2>3
<1> QED
  BY <1>4, <1>5, RowByRow

\* A step that adds a row.
LEMMA AddedPromised ==
  ASSUME IInv, IInv', Tails, RowsPromised, UNCHANGED dropped,
         NEW q \in Snapshots, NEW row \in Rows, calcs' = [calcs EXCEPT ![q] = Append(@, row)],
         NEW key \in Ids, key = [snapshot |-> q, n |-> Len(calcs[q]) + 1], Promised(key)',
         \A w \in Workers : worker'[w].pc \in {"committed", "marked"} =>
            worker'[w] = worker[w] \/ (worker'[w].pc = "committed" /\ Normalizes(worker'[w].job)),
         \A id \in Ids, tier \in Tiers : Pending(id, tier) => Pending(id, tier)'
  PROVE  Tails' /\ RowsPromised'
<1>1. \A id \in Ids : Exists(id, calcs) => Row(id)' = Row(id)
  BY RowAdded DEF Exists, Row
<1>2. \A id \in Ids : Exists(id, calcs)' /\ id # key => Exists(id, calcs)
  <2> SUFFICES ASSUME NEW id \in Ids, Exists(id, calcs)', id # key PROVE Exists(id, calcs)
    OBVIOUS
  <2>1. id.snapshot \in Snapshots /\ id.n \in 1..Len(calcs'[id.snapshot]) /\ id = [snapshot |-> id.snapshot, n |-> id.n]
    BY DEF Exists, Ids
  <2>2. id.snapshot = q => id.n # Len(calcs[q]) + 1
    BY <2>1
  <2> QED
    BY <2>1, <2>2, RowAdded, Facts DEF Exists
<1>3. Tails'
  <2> SUFFICES ASSUME NEW w \in Workers, worker'[w].pc \in {"committed", "marked"}
               PROVE  /\ Normalizes(worker'[w].job)
                      /\ worker'[w].pc = "marked" =>
                           calcs'[worker'[w].job.id.snapshot][worker'[w].job.id.n].status["paid"] # "not_started"
    BY DEF Tails, Row
  <2>1. CASE worker'[w] = worker[w]
    <3>1. PICK id : id = worker[w].job.id
      OBVIOUS
    <3>2. id \in Ids /\ Exists(id, calcs)
      BY <2>1, <3>1, Facts DEF WorkerSound, Sound, Jobs
    <3>3. worker'[w].pc = "marked" => Row(id)'.status["paid"] # "not_started"
      BY <1>1, <2>1, <3>1, <3>2 DEF Tails
    <3> QED
      BY <2>1, <3>1, <3>3 DEF Tails, Row
  <2> QED
    BY <2>1
<1>4. ASSUME NEW id \in Ids, Exists(id, calcs)', Exists(id, calcs) => Promised(id) PROVE Promised(id)'
  <2>1. CASE id # key
    BY <1>1, <1>2, <1>4, <2>1, SamePromise
  <2> QED
    BY <2>1
<1> QED
  BY <1>3, <1>4, RowByRow

\* What is pending stays so while the list grows and nobody at work drops it.
LEMMA PendingKept ==
  ASSUME NEW id, NEW tier, Pending(id, tier),
         \A i \in 1..Len(queue) : i \in 1..Len(queue') /\ queue'[i] = queue[i],
         \A h \in Handlers : PushedBy(handler[h], id, tier) => PushedBy(handler'[h], id, tier) \/ Listed(id, tier)',
         \A w \in Workers : WorkedBy(worker[w], id, tier) => WorkedBy(worker'[w], id, tier) \/ Listed(id, tier)'
  PROVE  Pending(id, tier)'
<1>1. CASE Listed(id, tier)
  BY <1>1 DEF Listed, Pending
<1>2. CASE \E h \in Handlers : PushedBy(handler[h], id, tier)
  BY <1>2 DEF Pending
<1>3. CASE \E w \in Workers : WorkedBy(worker[w], id, tier)
  BY <1>3 DEF Pending
<1> QED
  BY <1>1, <1>2, <1>3 DEF Pending

LEMMA AwaitHandler ==
  ASSUME IInv, IInv', FirstOnes, Tails, RowsPromised, NEW h \in Handlers, HandlerStep(h)
  PROVE  Tails' /\ RowsPromised'
<1>1. PICK key, tier : key = handler[h].id /\ tier = handler[h].tier
  OBVIOUS
<1>2. handler[h] \in HandlerStates /\ HandlerSound(handler[h], calcs) /\ handler \in [Handlers -> HandlerStates]
      /\ tier \in Tiers
  BY <1>1, Facts DEF HandlerStates
<1>3. UNCHANGED <<worker, dropped>> /\ \A g \in Handlers : g # h => handler'[g] = handler[g]
  BY <1>2 DEF HandlerStep, Create, Reset, Enqueue, Stay, db
<1>4. CASE Create(h)
  <2>1. PICK q : q = key.snapshot
    OBVIOUS
  <2>2. PICK n : n = Len(calcs[q]) + 1
    OBVIOUS
  <2>3. PICK new : new = [snapshot |-> q, n |-> n]
    OBVIOUS
  <2> DEFINE row == RequestedRow(tier)
  <2>4. q \in Snapshots /\ Len(calcs[q]) \in Nat /\ UNCHANGED queue /\ calcs' = [calcs EXCEPT ![q] = Append(@, row)]
        /\ handler[h].pc = "create" /\ key \in Ids
    BY <1>1, <1>2, <1>4, <2>1, Facts, SnapshotAssumption DEF Create, HandlerSound, HandlerStates, NoId
  <2>5. row \in Rows /\ row.status["paid"] = (IF tier = "paid" THEN "processing" ELSE "not_started")
                     /\ row.status["preview"] = (IF tier = "preview" THEN "processing" ELSE "not_started")
    BY <1>2 DEF RequestedRow, NewRow, Rows, Tiers, Statuses
  <2>6. new \in Ids /\ new.snapshot = q /\ new.n = n /\ n \in Nat
    BY <2>2, <2>3, <2>4 DEF Ids
  <2>7. handler'[h].pc = "push" /\ handler'[h].tier = tier /\ handler'[h].id = new
    <3>1. handler'[h] = [handler[h] EXCEPT !.pc = "push", !.id.n = n]
      BY <1>1, <1>2, <1>4, <2>1, <2>2 DEF Create
    <3>2. [key EXCEPT !.n = n] = new
      BY <2>1, <2>3, <2>4, <2>6 DEF Ids
    <3>3. handler'[h] = [handler[h] EXCEPT !.pc = "push", !.id = new]
      BY <1>1, <3>1, <3>2
    <3> QED
      BY <1>1, <1>2, <3>3 DEF HandlerStates
  <2>8. Row(new)' = row
    <3> HIDE DEF row
    <3>1. row \in Rows /\ q \in Snapshots /\ calcs' = [calcs EXCEPT ![q] = Append(@, row)]
      BY <2>4, <2>5
    <3>2. calcs'[q][Len(calcs[q]) + 1] = row
      BY <3>1, RowAdded
    <3> QED
      BY <2>2, <2>6, <3>2 DEF Row
  <2>9. Pending(new, tier)'
    BY <2>7 DEF Pending, PushedBy
  <2>10. Promised(new)'
    BY <1>2, <2>5, <2>8, <2>9 DEF Promised, Tiers
  <2>11. \A id \in Ids, t \in Tiers : Pending(id, t) => Pending(id, t)'
    <3> SUFFICES ASSUME NEW id \in Ids, NEW t \in Tiers, Pending(id, t) PROVE Pending(id, t)'
      OBVIOUS
    <3>1. \A g \in Handlers : PushedBy(handler[g], id, t) => PushedBy(handler'[g], id, t)
      BY <1>3, <2>4 DEF PushedBy
    <3> QED
      BY <1>3, <2>4, <3>1, PendingKept
  <2> HIDE DEF row
  <2> QED
    BY <1>3, <2>2, <2>3, <2>4, <2>5, <2>6, <2>10, <2>11, AddedPromised
<1>5. CASE Reset(h)
  <2>1. PICK row : row = [Row(key) EXCEPT !.status[tier] = "processing",
                                          !.payload[tier] = IF handler[h].wipes THEN 0 ELSE @]
    OBVIOUS
  <2>2. Exists(key, calcs) /\ key \in Ids
    BY <1>1, <1>2, <1>5, SnapshotAssumption DEF Reset, HandlerSound, HandlerStates, Exists, NoId
  <2>3. Row(key) \in Rows
    BY <2>2, RowFacts
  <2>4. row \in Rows /\ row.status = [Row(key).status EXCEPT ![tier] = "processing"]
    BY <1>2, <2>1, <2>3 DEF Rows, Tiers, Statuses
  <2>5. Write(key, row) /\ UNCHANGED queue /\ handler[h].pc = "reset"
        /\ handler'[h].pc = "push" /\ handler'[h].tier = tier /\ handler'[h].id = key
    BY <1>1, <1>2, <1>5, <2>1 DEF Reset, HandlerStates
  <2>6. Pending(key, tier)'
    BY <2>5 DEF Pending, PushedBy
  <2>7. \A id \in Ids, t \in Tiers : Pending(id, t) => Pending(id, t)'
    <3> SUFFICES ASSUME NEW id \in Ids, NEW t \in Tiers, Pending(id, t) PROVE Pending(id, t)'
      OBVIOUS
    <3>1. \A g \in Handlers : PushedBy(handler[g], id, t) => PushedBy(handler'[g], id, t)
      BY <1>3, <2>5 DEF PushedBy
    <3> QED
      BY <1>3, <2>5, <3>1, PendingKept
  <2>8. UNCHANGED dropped /\ \A w \in Workers : worker'[w] = worker[w]
    BY <1>3
  <2>9. "processing" # "not_started"
    OBVIOUS
  <2> QED
    BY <1>2, <2>2, <2>4, <2>5, <2>6, <2>7, <2>8, <2>9, WrittenPromised
<1>6. CASE Enqueue(h)
  <2>1. key \in Ids /\ tier \in JobTypes /\ Push(tier, key) /\ UNCHANGED calcs
    BY <1>1, <1>2, <1>6, SnapshotAssumption DEF Enqueue, HandlerSound, HandlerStates, Exists, NoId, JobTypes, db
  <2>2. /\ Len(queue') = Len(queue) + 1 /\ queue'[Len(queue) + 1] = [type |-> tier, id |-> key]
        /\ \A i \in 1..Len(queue) : i \in 1..Len(queue') /\ queue'[i] = queue[i]
        /\ Len(queue) \in Nat
    BY <2>1, Pushed
  <2>3. Listed(key, tier)'
    BY <2>2 DEF Listed
  <2>4. \A id \in Ids, t \in Tiers : Pending(id, t) => Pending(id, t)'
    <3> SUFFICES ASSUME NEW id \in Ids, NEW t \in Tiers, Pending(id, t) PROVE Pending(id, t)'
      OBVIOUS
    <3>1. \A g \in Handlers : PushedBy(handler[g], id, t) => PushedBy(handler'[g], id, t) \/ Listed(id, t)'
      <4> SUFFICES ASSUME NEW g \in Handlers, PushedBy(handler[g], id, t)
                   PROVE  PushedBy(handler'[g], id, t) \/ Listed(id, t)'
        OBVIOUS
      <4>1. CASE g = h
        BY <1>1, <2>2, <4>1 DEF PushedBy, Listed
      <4>2. CASE g # h
        BY <1>3, <4>2
      <4> QED
        BY <4>1, <4>2
    <3> QED
      BY <1>3, <2>2, <3>1, PendingKept
  <2> QED
    BY <1>3, <2>1, <2>4, StillPromised
<1> QED
  BY <1>4, <1>5, <1>6 DEF HandlerStep

LEMMA AwaitClient ==
  ASSUME IInv, IInv', Tails, RowsPromised, Client
  PROVE  Tails' /\ RowsPromised'
<1>1. handler \in [Handlers -> HandlerStates]
  BY Facts
<1>2. UNCHANGED <<calcs, worker, dropped>> /\ \A h \in Handlers : handler'[h] = handler[h] \/ handler[h].pc = "idle"
  BY <1>1 DEF Client, SubmitScan, Derive, ChangeEntitlement, RequestPaid, RequestActive, Begin, db
<1>3. \A i \in 1..Len(queue) : i \in 1..Len(queue') /\ queue'[i] = queue[i]
  <2>1. ASSUME NEW p \in Snapshots, SubmitScan(p)
        PROVE  \A i \in 1..Len(queue) : i \in 1..Len(queue') /\ queue'[i] = queue[i]
    <3>1. [snapshot |-> p, n |-> 1] \in Ids /\ "normalize" \in JobTypes
      BY DEF Ids, JobTypes
    <3> QED
      BY <2>1, <3>1, Pushed DEF SubmitScan
  <2>2. (\E p \in Snapshots : SubmitScan(p)) \/ UNCHANGED queue
    BY DEF Client, Derive, ChangeEntitlement, RequestPaid, RequestActive, Begin
  <2> QED
    BY <2>1, <2>2
<1>4. ASSUME NEW id \in Ids, NEW tier \in Tiers, Pending(id, tier) PROVE Pending(id, tier)'
  <2>1. \A h \in Handlers : PushedBy(handler[h], id, tier) => PushedBy(handler'[h], id, tier)
    BY <1>2 DEF PushedBy
  <2> QED
    BY <1>2, <1>3, <1>4, <2>1, PendingKept
<1> QED
  BY <1>2, <1>4, StillPromised

LEMMA AwaitFaults ==
  ASSUME IInv, IInv', Tails, RowsPromised, Faults
  PROVE  Tails' /\ RowsPromised'
<1>1. handler \in [Handlers -> HandlerStates] /\ worker \in [Workers -> WorkerStates]
  BY Facts
<1>2. UNCHANGED <<calcs, queue>> /\ dropped \subseteq dropped'
  BY DEF Faults, GiveUp, JobError, Crash, db
<1>3. /\ \A w \in Workers : worker'[w] = worker[w]
                            \/ (worker'[w] = IdleWorker /\ (worker[w].pc # "idle" => worker[w].job.id \in dropped'))
      /\ \A h \in Handlers : handler'[h] = handler[h]
                            \/ (handler[h].pc = "push" => handler[h].id \in dropped')
  <2>1. ASSUME NEW g \in Handlers, GiveUp(g)
        PROVE  UNCHANGED worker
               /\ \A h \in Handlers : handler'[h] = handler[h] \/ (handler[h].pc = "push" => handler[h].id \in dropped')
    BY <1>1, <2>1 DEF GiveUp, Stay
  <2>2. ASSUME NEW v \in Workers, JobError(v)
        PROVE  UNCHANGED handler /\ \A w \in Workers : worker'[w] = worker[w]
                 \/ (worker'[w] = IdleWorker /\ worker[w].job.id \in dropped')
    BY <1>1, <2>2 DEF JobError, Done
  <2>3. CASE Crash
    BY <2>3 DEF Crash
  <2> QED
    BY <2>1, <2>2, <2>3 DEF Faults
<1>4. \A w \in Workers : worker'[w].pc \in {"committed", "marked"} => worker'[w] = worker[w]
  BY <1>3 DEF IdleWorker
<1>5. ASSUME NEW id \in Ids, NEW tier \in Tiers, id \notin dropped', Pending(id, tier) PROVE Pending(id, tier)'
  <2>1. \A h \in Handlers : PushedBy(handler[h], id, tier) => PushedBy(handler'[h], id, tier)
    BY <1>3, <1>5 DEF PushedBy
  <2>2. \A w \in Workers : WorkedBy(worker[w], id, tier) => WorkedBy(worker'[w], id, tier)
    BY <1>3, <1>5 DEF WorkedBy
  <2> QED
    BY <1>2, <1>5, <2>1, <2>2, PendingKept
<1> QED
  BY <1>2, <1>4, <1>5, StillPromised

LEMMA AwaitPop ==
  ASSUME IInv, IInv', Tails, RowsPromised, NEW w \in Workers, Pop(w)
  PROVE  Tails' /\ RowsPromised'
<1>1. /\ worker[w].pc = "idle" /\ worker'[w] = [pc |-> "popped", job |-> queue[1]]
      /\ \A v \in Workers : v # w => worker'[v] = worker[v]
      /\ \A i \in 1..Len(queue) : i = 1 \/ (i - 1 \in 1..Len(queue') /\ queue'[i - 1] = queue[i])
      /\ UNCHANGED <<calcs, handler, dropped>>
  BY Popped
<1>2. \A v \in Workers : worker'[v].pc \in {"committed", "marked"} => worker'[v] = worker[v]
  BY <1>1
<1>3. ASSUME NEW id \in Ids, NEW tier \in Tiers, Pending(id, tier) PROVE Pending(id, tier)'
  <2>1. CASE Listed(id, tier)
    <3>1. PICK i \in 1..Len(queue) : queue[i] = [type |-> tier, id |-> id]
      BY <2>1 DEF Listed
    <3>2. CASE i = 1
      <4>1. WorkedBy(worker'[w], id, tier)
        BY <1>1, <3>1, <3>2 DEF WorkedBy
      <4> QED
        BY <4>1 DEF Pending
    <3>3. CASE i - 1 \in 1..Len(queue') /\ queue'[i - 1] = queue[i]
      BY <3>1, <3>3 DEF Pending, Listed
    <3> QED
      BY <1>1, <3>2, <3>3
  <2>2. CASE \E h \in Handlers : PushedBy(handler[h], id, tier)
    BY <1>1, <2>2 DEF Pending
  <2>3. CASE \E v \in Workers : WorkedBy(worker[v], id, tier)
    <3>1. PICK v \in Workers : WorkedBy(worker[v], id, tier)
      BY <2>3
    <3>2. v # w
      BY <1>1, <3>1 DEF WorkedBy
    <3> QED
      BY <1>1, <3>1, <3>2 DEF Pending
  <2> QED
    BY <1>3, <2>1, <2>2, <2>3 DEF Pending
<1> QED
  BY <1>1, <1>2, <1>3, StillPromised

LEMMA AwaitNormalize ==
  ASSUME IInv, IInv', FirstOnes, Tails, RowsPromised, NEW w \in Workers, Normalize(w)
  PROVE  Tails' /\ RowsPromised'
<1>1. PICK key : key = worker[w].job.id
  OBVIOUS
<1>2. PICK q : q = key.snapshot
  OBVIOUS
<1>3. PICK row : row = NewRow("processing", "not_started")
  OBVIOUS
<1>4. row \in Rows /\ row.status["paid"] = "not_started"
  BY <1>3 DEF NewRow, Rows, Tiers, Statuses
<1>5. /\ Normalizing(w) /\ calcs' = [calcs EXCEPT ![q] = Append(@, row)]
      /\ worker' = [worker EXCEPT ![w].pc = "committed"] /\ UNCHANGED <<queue, handler, dropped>>
  BY <1>1, <1>2, <1>3 DEF Normalize, At, Normalizing, Normalizes
<1>6. worker \in [Workers -> WorkerStates] /\ WorkerSound(worker[w], calcs)
  BY Facts
<1>7. key \in Ids /\ key.n = 1
  BY <1>1, <1>5, <1>6 DEF Normalizing, Normalizes, WorkerSound, Sound, Jobs
<1>8. q \in Snapshots /\ Len(calcs[q]) = 0 /\ key = [snapshot |-> q, n |-> 1]
  BY <1>1, <1>2, <1>5, <1>7 DEF FirstOnes, Unscanned, Snapshots, Ids
<1>9. /\ worker'[w].pc = "committed" /\ worker'[w].job = worker[w].job
      /\ \A v \in Workers : v # w => worker'[v] = worker[v]
  BY <1>5, <1>6 DEF WorkerStates
<1>10. WorkedBy(worker'[w], key, "preview")
  BY <1>1, <1>9 DEF WorkedBy
<1>11. Pending(key, "preview")'
  BY <1>10 DEF Pending
<1>12. Row(key)' = row
  <2>1. calcs'[q][Len(calcs[q]) + 1] = row
    BY <1>4, <1>5, <1>8, RowAdded
  <2> QED
    BY <1>2, <1>7, <1>8, <2>1 DEF Row
<1>13. Promised(key)'
  BY <1>4, <1>11, <1>12 DEF Promised
<1>14. ASSUME NEW id \in Ids, NEW tier \in Tiers, Pending(id, tier) PROVE Pending(id, tier)'
  <2>1. \A v \in Workers : WorkedBy(worker[v], id, tier) => WorkedBy(worker'[v], id, tier)
    BY <1>5, <1>9 DEF WorkedBy, Normalizing, Normalizes, Tiers
  <2> QED
    BY <1>5, <1>14, <2>1, PendingKept
<1>15. \A v \in Workers : worker'[v].pc \in {"committed", "marked"} =>
         worker'[v] = worker[v] \/ (worker'[v].pc = "committed" /\ Normalizes(worker'[v].job))
  BY <1>5, <1>9 DEF Normalizing
<1>16. key = [snapshot |-> q, n |-> Len(calcs[q]) + 1]
  BY <1>8
<1> QED
  BY <1>4, <1>5, <1>7, <1>8, <1>13, <1>14, <1>15, <1>16, AddedPromised

LEMMA AwaitWrites ==
  ASSUME IInv, IInv', Tails, RowsPromised,
         NEW w \in Workers, MarkPaid(w) \/ FailReport(w) \/ FinishPreview(w) \/ FinishPaid(w)
  PROVE  Tails' /\ RowsPromised'
<1>0. PICK key : key = worker[w].job.id
  OBVIOUS
<1>1. PICK row \in Rows, to \in Tiers, status \in {"processing", "ready", "failed"} :
           /\ Write(worker[w].job.id, row) /\ row.status = [Row(worker[w].job.id).status EXCEPT ![to] = status]
           /\ Exists(worker[w].job.id, calcs) /\ worker[w].job.id \in Ids
           /\ status = "processing" => /\ to = "paid" /\ worker[w].pc = "committed"
                                       /\ worker' = [worker EXCEPT ![w] = [pc |-> "marked", job |-> worker[w].job]]
           /\ status # "processing" => /\ worker[w].pc = "popped" /\ worker[w].job.type = to
                                       /\ worker' = [worker EXCEPT ![w] = IdleWorker]
           /\ UNCHANGED <<active, queue, handler, dropped>>
  BY Writes, Zenon
<1>2. /\ Write(key, row) /\ row.status = [Row(key).status EXCEPT ![to] = status]
      /\ Exists(key, calcs) /\ key \in Ids
      /\ status = "processing" => /\ to = "paid" /\ worker[w].pc = "committed"
                                  /\ worker' = [worker EXCEPT ![w] = [pc |-> "marked", job |-> worker[w].job]]
      /\ status # "processing" => /\ worker[w].pc = "popped" /\ worker[w].job.type = to
                                  /\ worker' = [worker EXCEPT ![w] = IdleWorker]
      /\ UNCHANGED <<queue, handler, dropped>>
  BY <1>0, <1>1, Zenon DEF Write, Row, Exists
<1>3. worker \in [Workers -> WorkerStates] /\ status # "not_started"
  BY Facts
<1>4. \A v \in Workers : v # w => worker'[v] = worker[v]
  BY <1>2, <1>3
<1>5. /\ status = "processing" => worker'[w] = [pc |-> "marked", job |-> worker[w].job]
      /\ status # "processing" => worker'[w] = IdleWorker
  BY <1>2, <1>3
<1>6. status = "processing" => Pending(key, to)'
  BY <1>0, <1>5 DEF Pending, WorkedBy
<1>7. \A v \in Workers : worker'[v].pc \in {"committed", "marked"} =>
         worker'[v] = worker[v] \/ (worker'[v].job = worker[v].job /\ Normalizes(worker[v].job)
                                    /\ worker[v].job.id = key /\ to = "paid")
  <2> SUFFICES ASSUME NEW v \in Workers, worker'[v].pc \in {"committed", "marked"}, worker'[v] # worker[v]
               PROVE  worker'[v].job = worker[v].job /\ Normalizes(worker[v].job)
                      /\ worker[v].job.id = key /\ to = "paid"
    OBVIOUS
  <2>1. v = w
    BY <1>4
  <2>2. status = "processing"
    BY <1>5, <2>1 DEF IdleWorker
  <2>3. worker'[w].job = worker[w].job /\ to = "paid" /\ worker[w].pc = "committed"
    BY <1>2, <1>5, <2>2
  <2> QED
    BY <1>0, <2>1, <2>3 DEF Tails
<1>8. ASSUME NEW id \in Ids, NEW tier \in Tiers, Pending(id, tier) PROVE Pending(id, tier)' \/ (id = key /\ tier = to)
  <2> SUFFICES ASSUME ~(id = key /\ tier = to) PROVE Pending(id, tier)'
    OBVIOUS
  <2>1. ASSUME NEW v \in Workers, WorkedBy(worker[v], id, tier) PROVE WorkedBy(worker'[v], id, tier)
    <3>1. CASE v # w
      BY <1>4, <2>1, <3>1
    <3>2. CASE v = w /\ status = "processing"
      BY <1>5, <2>1, <3>2 DEF WorkedBy
    <3>3. CASE v = w /\ status # "processing"
      BY <1>0, <1>2, <2>1, <3>3 DEF WorkedBy
    <3> QED
      BY <3>1, <3>2, <3>3
  <2> QED
    BY <1>2, <1>8, <2>1, PendingKept
<1> QED
  BY <1>2, <1>3, <1>6, <1>7, <1>8, WrittenPromised

LEMMA AwaitPushes ==
  ASSUME IInv, IInv', Tails, RowsPromised, NEW w \in Workers, PushPaid(w) \/ PushPreview(w)
  PROVE  Tails' /\ RowsPromised'
<1>1. PICK key : key = worker[w].job.id
  OBVIOUS
<1>2. PICK to \in Tiers :
           /\ Push(to, key) /\ key \in Ids /\ worker' = [worker EXCEPT ![w] = IdleWorker]
           /\ worker[w].pc = IF to = "paid" THEN "marked" ELSE "committed"
           /\ UNCHANGED <<calcs, handler, dropped>>
  BY <1>1, Pushes
<1>3. worker'[w] = IdleWorker /\ \A v \in Workers : v # w => worker'[v] = worker[v]
  BY <1>2, Facts
<1>4. to \in JobTypes
  BY DEF JobTypes
<1>5. /\ Len(queue') = Len(queue) + 1 /\ queue'[Len(queue) + 1] = [type |-> to, id |-> key]
      /\ \A i \in 1..Len(queue) : i \in 1..Len(queue') /\ queue'[i] = queue[i]
      /\ Len(queue) \in Nat
  BY <1>2, <1>4, Pushed
<1>6. Listed(key, to)'
  BY <1>5 DEF Listed
<1>7. ASSUME NEW id \in Ids, NEW tier \in Tiers, Pending(id, tier)
      PROVE  Pending(id, tier)' \/ (tier = "preview" /\ Row(id).status["paid"] # "not_started")
  <2>1. CASE id = key /\ tier = to
    BY <1>6, <2>1 DEF Pending
  <2>2. CASE WorkedBy(worker[w], id, tier) /\ tier # to
    <3>1. id = key /\ Normalizes(worker[w].job)
      BY <1>1, <1>2, <2>2 DEF WorkedBy, Tails
    <3>2. to = "paid" /\ tier = "preview"
      BY <1>2, <2>2, <3>1 DEF WorkedBy, Normalizes, Tiers
    <3> QED
      BY <1>1, <1>2, <3>1, <3>2 DEF Tails
  <2>3. CASE ~WorkedBy(worker[w], id, tier)
    <3>1. \A v \in Workers : WorkedBy(worker[v], id, tier) => WorkedBy(worker'[v], id, tier)
      BY <1>3, <2>3
    <3> QED
      BY <1>2, <1>5, <1>7, <3>1, PendingKept
  <2>4. WorkedBy(worker[w], id, tier) => id = key
    BY <1>1 DEF WorkedBy
  <2> QED
    BY <2>1, <2>2, <2>3, <2>4
<1>8. \A v \in Workers : worker'[v].pc \in {"committed", "marked"} => worker'[v] = worker[v]
  BY <1>3 DEF IdleWorker
<1> QED
  BY <1>2, <1>7, <1>8, StillPromised

LEMMA AwaitStep ==
  ASSUME AwaitInv, [Next]_vars
  PROVE  AwaitInv'
<1>1. IInv /\ FirstOnes /\ OnlyOnes /\ Tails /\ RowsPromised /\ IInv'
  BY IInvStep DEF AwaitInv
<1>2. CASE Client
  BY <1>1, <1>2, OnesClient, AwaitClient DEF AwaitInv
<1>3. ASSUME NEW h \in Handlers, HandlerStep(h) PROVE AwaitInv'
  BY <1>1, <1>3, OnesHandler, AwaitHandler DEF AwaitInv
<1>4. ASSUME NEW w \in Workers, WorkerStep(w) PROVE AwaitInv'
  <2>1. Tails' /\ RowsPromised'
    BY <1>1, <1>4, AwaitPop, AwaitNormalize, AwaitWrites, AwaitPushes DEF WorkerStep
  <2> QED
    BY <1>1, <1>4, <2>1, OnesWorker DEF AwaitInv
<1>5. CASE Faults
  BY <1>1, <1>5, OnesFaults, AwaitFaults DEF AwaitInv
<1>6. CASE UNCHANGED vars
  <2>1. FirstOnes' /\ OnlyOnes'
    BY <1>1, <1>6, OnesStay DEF vars, db
  <2>2. \A id \in Ids, tier \in Tiers : Pending(id, tier) => Pending(id, tier)'
    BY <1>6, PendingKept DEF vars
  <2>3. Tails' /\ RowsPromised'
    BY <1>1, <1>6, <2>2, StillPromised DEF vars, db
  <2> QED
    BY <1>1, <2>1, <2>3 DEF AwaitInv
<1> QED
  BY <1>2, <1>3, <1>4, <1>5, <1>6 DEF Next

LEMMA AwaitInvInit == Init => AwaitInv
<1> SUFFICES ASSUME Init PROVE AwaitInv
  OBVIOUS
<1>1. /\ Len(queue) = 0 /\ active = NoSnapshot /\ \A p \in Snapshots : Len(calcs[p]) = 0
      /\ \A h \in Handlers : handler[h] = IdleHandler
      /\ \A w \in Workers : worker[w] = IdleWorker
  BY DEF Init
<1>2. FirstOnes
  BY <1>1, SnapshotAssumption DEF FirstOnes, Normalizing, IdleHandler, IdleWorker, Snapshots
<1>3. OnlyOnes
  BY <1>1 DEF OnlyOnes, Normalizing, IdleWorker
<1>4. Tails
  BY <1>1 DEF Tails, IdleWorker
<1>5. RowsPromised
  BY <1>1 DEF RowsPromised
<1> QED
  BY <1>2, <1>3, <1>4, <1>5, IInvInit DEF AwaitInv

(***************************************************************************)
(* A report shown as processing has a job on the list, a handler about to  *)
(* push one or a worker at it, whoever else asks for it meanwhile and      *)
(* whatever fails, as long as no job of it was lost; a preview may end     *)
(* unwritten only if the paid tier was asked for.                          *)
(***************************************************************************)
THEOREM ReportsAreAwaited == Spec => []ProcessingIsAwaited
<1>1. AwaitInv => ProcessingIsAwaited
  <2> SUFFICES ASSUME AwaitInv, NEW id \in Existing, id \notin dropped
               PROVE  /\ Row(id).status["paid"] = "processing" => Awaited(id, "paid")
                      /\ Row(id).status["preview"] = "processing" =>
                           Awaited(id, "preview") \/ Row(id).status["paid"] # "not_started"
    BY DEF ProcessingIsAwaited
  <2>1. id.snapshot \in Snapshots /\ id.n \in 1..MaxRequests + 1 /\ id.n <= Len(calcs[id.snapshot])
        /\ id = [snapshot |-> id.snapshot, n |-> id.n]
    BY DEF Existing, Calculations
  <2>2. Len(calcs[id.snapshot]) \in Nat
    BY <2>1, Facts DEF AwaitInv
  <2>3. id.n \in 1..Len(calcs[id.snapshot])
    BY <2>1, <2>2
  <2>4. Promised(id)
    BY <2>1, <2>3 DEF AwaitInv, RowsPromised
  <2>5. ASSUME NEW tier \in Tiers, Pending(id, tier) PROVE Awaited(id, tier)
    <3>1. \A w \in Workers : WorkedBy(worker[w], id, tier) => worker[w].job.type \in {tier, "normalize"}
      BY DEF WorkedBy, AwaitInv, Tails, Normalizes
    <3> QED
      BY <2>5, <3>1 DEF Pending, Listed, PushedBy, WorkedBy, Awaited
  <2> QED
    BY <2>4, <2>5 DEF Promised, Tiers
<1>2. Init => AwaitInv
  BY AwaitInvInit
<1>3. AwaitInv /\ [Next]_vars => AwaitInv'
  BY AwaitStep
<1> QED
  BY <1>1, <1>2, <1>3, PTL DEF Spec
=============================================================================
