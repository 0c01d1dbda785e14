----------------------------- MODULE UploadGate -----------------------------
(***************************************************************************)
(* What a POST /v1/upload-batches goes through before a batch exists: the  *)
(* rate limit and the idempotency record of middleware.go, kept in Redis   *)
(* (redis.go), and the daily quota of quota.go, kept in quota_usage, until *)
(* handleUploadBatchCreate commits the batch (handlers_uploads.go).        *)
(*                                                                         *)
(* One user in one time zone. Each Redis command and each SQL statement is *)
(* a step: what a request has read can be stale when it writes. The clock  *)
(* counts the hours of the quota window; the minute of the rate limit is   *)
(* shorter than an hour and may end at any time.                           *)
(***************************************************************************)
EXTENDS Naturals, Sequences, FiniteSets, FiniteSetsExt

CONSTANTS
    Requests,            \* POST requests, each sent once
    Keys,                \* Idempotency-Key headers
    NoKey,               \* a request without that header
    Holdings, Slips,     \* request bodies, by the purpose they ask for
    Midnights,           \* hours at which a day of the user begins
    WindowHours,         \* length of a quota window, 24 in the code
    RecordHours,         \* life of an idempotency record, 24 in the code
    holdingsDailyLimit,
    WriteLimit,          \* requests per minute let through
    QuotaIds,            \* ids of quota_usage rows
    LastHour, MaxFaults  \* bounds on the clock and on cancelled requests

Payloads == Holdings \cup Slips
Hours == 0..LastHour

ASSUME DaysAssumption ==
    /\ Midnights \subseteq Nat /\ 0 \in Midnights
    /\ WindowHours \in Nat \ {0} /\ holdingsDailyLimit \in Nat \ {0}
    /\ NoKey \notin Keys /\ WriteLimit \in Nat \ {0} /\ QuotaIds \subseteq Nat \ {0}
    /\ {RecordHours, LastHour, MaxFaults} \subseteq Nat

VARIABLES
    now,       \* the clock
    rate,      \* the Redis key rate:write:{user}: its count, 0 when absent, and has it a TTL
    record,    \* idempotency records
    usage,     \* quota_usage rows
    batches,   \* UploadBatch rows made under a key, in the order they were committed
    request,   \* where each request is and what it has read
    faults,
    raced,     \* did a quota check read what another was about to change?
    contested, \* keys two requests used at once, or whose record was not written
    through    \* holdings let through, per day

vars == <<now, rate, record, usage, batches, request, faults, raced, contested, through>>

NoRecord == [batch |-> 0, payload |-> {}, at |-> 0]
NoUsage == [start |-> 0, count |-> 0]
Idle == [pc |-> "new", key |-> NoKey, payload |-> {}, row |-> 0, seen |-> 0, day |-> 0, batch |-> 0]
PCs == {"new", "expire", "lookup", "check", "count", "open", "create", "record", "done"}

TypeOK ==
    /\ now \in Hours
    /\ rate \in [count : Nat, ttl : BOOLEAN]
    /\ record \in [Keys -> [batch : 1..Len(batches), payload : Payloads, at : Hours] \cup {NoRecord}]
    /\ usage \in [QuotaIds -> [start : Midnights, count : 1..holdingsDailyLimit] \cup {NoUsage}]
    /\ batches \in Seq([key : Keys, payload : Payloads, at : Hours])
    /\ request \in [Requests -> [pc : PCs, key : Keys \cup {NoKey},
                                 payload : Payloads \cup {{}}, row : QuotaIds \cup {0},
                                 seen : 0..holdingsDailyLimit, day : Midnights, batch : 0..Len(batches)]]
    /\ faults \in 0..MaxFaults
    /\ raced \in BOOLEAN
    /\ contested \subseteq Keys
    /\ through \in [Midnights -> Nat]

Init ==
    /\ now = 0
    /\ rate = [count |-> 0, ttl |-> FALSE]
    /\ record = [k \in Keys |-> NoRecord]
    /\ usage = [i \in QuotaIds |-> NoUsage]
    /\ batches = << >>
    /\ request = [r \in Requests |-> Idle]
    /\ faults = 0
    /\ raced = FALSE
    /\ contested = {}
    /\ through = [m \in Midnights |-> 0]

At(r, pc) == request[r].pc = pc
Goto(r, pc) == request' = [request EXCEPT ![r].pc = pc]

\* The first step of a request past the rate limit, and of the handler.
Entry(key, payload) ==
    IF key # NoKey THEN "lookup" ELSE IF payload \in Holdings THEN "check" ELSE "create"

\* A request that made no batch, and is answered with none, is forgotten.
Finish(r) == request' = [request EXCEPT ![r] = [Idle EXCEPT !.pc = "done"]]
InProgress == {r \in Requests : request[r].pc \notin {"new", "done"}}

DayOf(hour) == Max({m \in Midnights : m <= hour})

----------------------------------------------------------------------------
(* Time                                                                    *)

\* Redis removes the idempotency records whose TTL ends.
Tick ==
    /\ now < LastHour
    /\ now' = now + 1
    /\ record' = [k \in Keys |-> IF record[k].at + RecordHours <= now + 1 THEN NoRecord ELSE record[k]]
    /\ UNCHANGED <<rate, usage, batches, request, faults, raced, contested, through>>

\* The minute ends, if EXPIRE was ever sent.
ExpireRate ==
    /\ rate.ttl
    /\ rate' = [count |-> 0, ttl |-> FALSE]
    /\ UNCHANGED <<now, record, usage, batches, request, faults, raced, contested, through>>

----------------------------------------------------------------------------
(* withRateLimit                                                           *)

\* Mutated form: INCR never answers 0.
FirstNever(count) == count = 0

\* The request that creates the counter gives it its TTL.
First(count) == count = 1

\* INCR
Send(r, key, payload) ==
    /\ At(r, "new")
    /\ LET count == rate.count + 1
       IN  /\ rate' = [rate EXCEPT !.count = count]
           /\ IF count > WriteLimit
              THEN Finish(r)
              ELSE request' = [request EXCEPT ![r].pc = IF First(count) THEN "expire" ELSE Entry(key, payload),
                                              ![r].key = key, ![r].payload = payload]
    /\ contested' = contested \cup {k \in {key} \ {NoKey} : \E q \in InProgress : request[q].key = k}
    /\ UNCHANGED <<now, record, usage, batches, faults, raced, through>>

\* EXPIRE
SetTTL(r) ==
    /\ At(r, "expire")
    /\ rate' = [rate EXCEPT !.ttl = TRUE]
    /\ Goto(r, Entry(request[r].key, request[r].payload))
    /\ UNCHANGED <<now, record, usage, batches, faults, raced, contested, through>>

----------------------------------------------------------------------------
(* withIdempotency, before the handler                                     *)

\* Mutated form: the body is not compared.
MatchesAny(stored, payload) == TRUE

\* The stored hash is the one of the body.
Matches(stored, payload) == stored.payload = payload

\* Without a record the handler runs; with one the stored response is sent
\* again, or 409 when the body differs.
Lookup(r) ==
    /\ At(r, "lookup")
    /\ LET stored == record[request[r].key]
           payload == request[r].payload
       IN  \/ /\ stored = NoRecord
              /\ Goto(r, Entry(NoKey, payload))
           \/ /\ stored # NoRecord /\ Matches(stored, payload)
              /\ request' = [request EXCEPT ![r].pc = "done", ![r].batch = stored.batch]
           \/ /\ stored # NoRecord /\ ~Matches(stored, payload)
              /\ Finish(r)
    /\ UNCHANGED <<now, rate, record, usage, batches, faults, raced, contested, through>>

----------------------------------------------------------------------------
(* checkHoldingsQuota                                                      *)

\* The row with the latest window; ids decide between equal ones.
Rows == {i \in QuotaIds : usage[i] # NoUsage}
Latest == {i \in Rows : \A j \in Rows :
              usage[j].start < usage[i].start \/ (usage[j].start = usage[i].start /\ i <= j)}

\* Mutated form: the window ends an hour early.
OpenShort(row) == now < row.start + WindowHours - 1

\* The window the row counts has not ended.
Open(row) == now < row.start + WindowHours

\* Mutated form: one upload too many.
ExhaustedLate(row) == row.count > holdingsDailyLimit

Exhausted(row) == row.count >= holdingsDailyLimit

\* An entitled user is not counted.
CheckEntitled(r) ==
    /\ At(r, "check")
    /\ Goto(r, "create")
    /\ UNCHANGED <<now, rate, record, usage, batches, faults, raced, contested, through>>

\* The request with what the quota check tells it.
Told(q, pc, day, row, seen) ==
    [pc |-> pc, key |-> q.key, payload |-> q.payload, row |-> row, seen |-> seen, day |-> day, batch |-> 0]

\* SELECT: the day and the count the write will be based on.
ReadQuota(r) ==
    /\ At(r, "check")
    /\ \/ /\ \A i \in Latest : ~Open(usage[i])
          /\ request' = [request EXCEPT ![r] = Told(@, "open", DayOf(now), 0, 0)]
       \/ \E i \in Latest :
            /\ Open(usage[i])
            /\ IF Exhausted(usage[i])
               THEN Finish(r)
               ELSE request' = [request EXCEPT ![r] = Told(@, "count", DayOf(now), i, usage[i].count)]
    /\ raced' = (raced \/ \E q \in Requests : request[q].pc \in {"count", "open"})
    /\ UNCHANGED <<now, rate, record, usage, batches, faults, contested, through>>

LetThrough(r) ==
    /\ through' = [through EXCEPT ![request[r].day] = @ + 1]
    /\ request' = [request EXCEPT ![r] = Told(@, "create", 0, 0, 0)]
    /\ UNCHANGED <<now, rate, record, batches, faults, raced, contested>>

\* UPDATE quota_usage SET holdings_batches_count
CountUpload(r) ==
    /\ At(r, "count")
    /\ usage' = [usage EXCEPT ![request[r].row].count = request[r].seen + 1]
    /\ LetThrough(r)

\* INSERT INTO quota_usage: the window begins with the user's day. Ids are random.
OpenWindow(r) ==
    /\ At(r, "open")
    /\ \E i \in QuotaIds \ Rows : usage' = [usage EXCEPT ![i] = [start |-> request[r].day, count |-> 1]]
    /\ LetThrough(r)

----------------------------------------------------------------------------
(* handleUploadBatchCreate and withIdempotency, after the handler          *)

\* The transaction; its answer reaches the client before it is recorded.
Create(r) ==
    /\ At(r, "create")
    /\ IF request[r].key = NoKey
       THEN Finish(r) /\ UNCHANGED batches
       ELSE /\ request' = [request EXCEPT ![r].pc = "record", ![r].batch = Len(batches) + 1]
            /\ batches' = Append(batches, [key |-> request[r].key, payload |-> request[r].payload, at |-> now])
    /\ UNCHANGED <<now, rate, record, usage, faults, raced, contested, through>>

Record(r) ==
    /\ At(r, "record")
    /\ record' = [record EXCEPT ![request[r].key] =
                    [batch |-> request[r].batch, payload |-> request[r].payload, at |-> now]]
    /\ Goto(r, "done")
    /\ UNCHANGED <<now, rate, usage, batches, faults, raced, contested, through>>

\* The client disconnects, which cancels the statements to come, or a
\* statement fails and the answer is an error, which is not recorded.
Cancel(r) ==
    /\ r \in InProgress
    /\ faults < MaxFaults
    /\ faults' = faults + 1
    /\ contested' = contested \cup {k \in {request[r].key} : At(r, "record")}
    /\ IF At(r, "record") THEN Goto(r, "done") ELSE Finish(r)
    /\ UNCHANGED <<now, rate, record, usage, batches, raced, through>>

Next ==
    \/ Tick \/ ExpireRate
    \/ \E r \in Requests :
         \/ \E key \in Keys \cup {NoKey}, payload \in Payloads : Send(r, key, payload)
         \/ SetTTL(r) \/ Lookup(r)
         \/ CheckEntitled(r) \/ ReadQuota(r) \/ CountUpload(r) \/ OpenWindow(r)
         \/ Create(r) \/ Record(r) \/ Cancel(r)

Spec == Init /\ [][Next]_vars

----------------------------------------------------------------------------
(* Properties                                                              *)

\* Batches created for one key within the life of a record.
Doubles(k) ==
    {p \in (1..Len(batches)) \X (1..Len(batches)) :
        /\ p[1] < p[2] /\ batches[p[1]].key = k /\ batches[p[2]].key = k
        /\ batches[p[2]].at < batches[p[1]].at + RecordHours}

(***************************************************************************)
(* "Same key + same payload returns the original response; same key +      *)
(* different payload returns 409": nobody is answered with a batch made    *)
(* for another body, and one key makes one batch - as long as no two       *)
(* requests used it at once and the record could be written.               *)
(***************************************************************************)
AnswersAgree ==
    /\ \A r \in Requests : request[r].batch # 0 =>
         /\ batches[request[r].batch].key = request[r].key
         /\ batches[request[r].batch].payload = request[r].payload
    /\ \A k \in Keys \ contested : Doubles(k) = {}

(***************************************************************************)
(* The same without the exception, as the backend specification has it:    *)
(* the record is looked up before the handler runs and written after it,   *)
(* so a retry that overtakes its original creates a second batch.          *)
(***************************************************************************)
OneBatchPerKey == \A k \in Keys : Doubles(k) = {}

\* A day as long as a window, after one that was no shorter.
NextMidnight(m) == Min({n \in Midnights : n > m})
RegularDays ==
    {m \in Midnights :
        /\ \E n \in Midnights : n > m
        /\ NextMidnight(m) = m + WindowHours
        /\ \A p \in Midnights : p < m => p + WindowHours <= m}

(***************************************************************************)
(* Of an ordinary day's requests at most holdingsDailyLimit are let        *)
(* through, if no two were checked at the same time. On the day summer     *)
(* time ends the window is over an hour before midnight, and nothing is    *)
(* counted in that hour: such days are excepted.                           *)
(***************************************************************************)
QuotaHolds == ~raced => \A m \in RegularDays : through[m] <= holdingsDailyLimit

(***************************************************************************)
(* A user who was refused is not refused for ever: the counter will expire *)
(* or a request is about to see to it. Only a request that is cut off      *)
(* between INCR and EXPIRE leaves a counter that never ends.               *)
(***************************************************************************)
RefusalsEnd ==
    rate.count > 0 => rate.ttl \/ faults > 0 \/ \E r \in Requests : At(r, "expire")

(***************************************************************************)
(* The gate lets nobody through too often and refuses nobody for ever.     *)
(***************************************************************************)
GateHolds == TypeOK /\ QuotaHolds /\ RefusalsEnd
=============================================================================
