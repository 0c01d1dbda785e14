------------------------- MODULE UploadGate_proofs --------------------------
(***************************************************************************)
(* Proofs about UploadGate, for any requests, keys and bodies, any         *)
(* calendar of midnights, and windows and records of any length.           *)
(***************************************************************************)
EXTENDS UploadGate, WellFoundedInduction, TLAPS

----------------------------------------------------------------------------
(* The invariant                                                           *)

\* A request that was not sent has nothing; one under way has what its step needs.
StepFits(q, rows) ==
    /\ q.pc = "new" => q = Idle
    /\ q.pc = "lookup" => q.key \in Keys
    /\ q.pc \in {"expire", "lookup", "check", "count", "open", "create", "record"} => q.payload \in Payloads
    /\ q.pc = "record" => q.key \in Keys /\ q.batch # 0
    /\ q.pc \in {"expire", "lookup", "check", "count", "open", "create"} => q.batch = 0
    /\ q.pc = "count" => q.row \in rows /\ q.seen < holdingsDailyLimit
RequestSteps == \A r \in Requests : StepFits(request[r], Rows)

\* Nobody is answered with a batch of another key or body, nor is a record of one.
AnswerFits(q) ==
    q.batch # 0 => batches[q.batch].key = q.key /\ batches[q.batch].payload = q.payload
BatchesFit ==
    /\ \A r \in Requests : AnswerFits(request[r])
    /\ \A k \in Keys : record[k] # NoRecord =>
         /\ batches[record[k].batch].key = k
         /\ batches[record[k].batch].payload = record[k].payload

\* The past.
Dated ==
    /\ \A i \in 1..Len(batches) : batches[i].at <= now
    /\ \A k \in Keys : record[k].at <= now

UsesKey(r, k) == r \in InProgress /\ request[r].key = k

\* An uncontested key is used by one request at a time.
OneUser == \A k \in Keys \ contested : \A r, q \in Requests : UsesKey(r, k) /\ UsesKey(q, k) => r = q

Handling == {"check", "count", "open", "create"}

\* Whoever passed the lookup with such a key still finds no record of it.
Unrecorded ==
    \A r \in Requests : request[r].pc \in Handling /\ request[r].key \in Keys \ contested =>
        record[request[r].key] = NoRecord

\* A batch of such a key is old, about to be recorded, or recorded.
Remembered(i) ==
    \/ batches[i].at + RecordHours <= now
    \/ \E r \in Requests : At(r, "record") /\ request[r].batch = i
    \/ record[batches[i].key] # NoRecord /\ batches[i].at <= record[batches[i].key].at
AllRemembered == \A i \in 1..Len(batches) : batches[i].key \notin contested => Remembered(i)

KeyInv ==
    /\ BatchesFit /\ Dated /\ OneUser /\ Unrecorded /\ AllRemembered
    /\ \A k \in Keys \ contested : Doubles(k) = {}

Counting(r) == request[r].pc \in {"count", "open"}

\* One check at a time, on a day that has begun, after every window there is.
OneCheck ==
    /\ \A r, q \in Requests : Counting(r) /\ Counting(q) => r = q
    /\ \A i \in Rows : usage[i].start <= now
    /\ \A r \in Requests : Counting(r) =>
         request[r].day <= now /\ \A i \in Rows : usage[i].start <= request[r].day

\* Of an ordinary day one window is opened, and it counts the day's requests.
OneWindow ==
    /\ \A m \in RegularDays : \A i, j \in Rows : usage[i].start = m /\ usage[j].start = m => i = j
    /\ \A m \in RegularDays : \A i \in Rows : usage[i].start = m => through[m] = usage[i].count
    /\ \A m \in RegularDays : (\A i \in Rows : usage[i].start # m) => through[m] = 0
    /\ \A r \in Requests : request[r].pc = "open" /\ request[r].day \in RegularDays =>
         \A i \in Rows : usage[i].start # request[r].day
    /\ \A r \in Requests : request[r].pc = "count" =>
         /\ request[r].seen = usage[request[r].row].count
         /\ request[r].day \in RegularDays \/ usage[request[r].row].start \in RegularDays =>
              usage[request[r].row].start = request[r].day

QuotaInv == ~raced => OneCheck /\ OneWindow

GateInv == TypeOK /\ RequestSteps /\ KeyInv /\ QuotaInv /\ RefusalsEnd

----------------------------------------------------------------------------
(* The calendar                                                            *)

NatLess == {ss \in Nat \X Nat : ss[1] < ss[2]}

LEMMA LeastExists ==
  ASSUME NEW S, S \subseteq Nat, S # {}
  PROVE  \E x \in S : \A y \in S : x <= y
<1>1. IsWellFoundedOn(NatLess, Nat)
  BY NatLessThanWellFounded DEF OpToRel, NatLess
<1>2. \E x \in S : \A y \in S : <<y, x>> \notin NatLess
  BY <1>1, WFMin
<1>3. PICK x \in S : \A y \in S : <<y, x>> \notin NatLess
  BY <1>2
<1>4. \A y \in S : <<y, x>> \in Nat \X Nat
  BY <1>3
<1>5. \A y \in S : ~(y < x)
  BY <1>3, <1>4 DEF NatLess
<1> QED
  BY <1>3, <1>5

LEMMA MinIsLeast ==
  ASSUME NEW S, S \subseteq Nat, S # {}
  PROVE  Min(S) \in S /\ \A y \in S : Min(S) <= y
  BY LeastExists DEF Min

LEMMA MaxIsGreatest ==
  ASSUME NEW S, S \subseteq Nat, S # {}, NEW h \in Nat, \A x \in S : x <= h
  PROVE  Max(S) \in S /\ \A y \in S : y <= Max(S)
<1> DEFINE T == {d \in Nat : \E x \in S : d = h - x}
<1>1. T \subseteq Nat /\ T # {}
  <2> PICK x \in S : TRUE
    OBVIOUS
  <2>1. h - x \in T
    OBVIOUS
  <2> QED
    BY <2>1
<1>2. PICK d \in T : \A e \in T : d <= e
  BY <1>1, LeastExists
<1>3. PICK x \in S : d = h - x
  BY <1>2
<1>4. \A y \in S : y <= x
  <2> SUFFICES ASSUME NEW y \in S PROVE y <= x
    OBVIOUS
  <2>1. h - y \in T
    OBVIOUS
  <2>2. d <= h - y
    BY <1>2, <2>1
  <2> QED
    BY <1>3, <2>2
<1>5. \E z \in S : \A y \in S : z >= y
  BY <1>4
<1> QED
  BY <1>5 DEF Max

\* DayOf is the day an hour belongs to.
LEMMA DayFacts ==
  ASSUME NEW h \in Hours
  PROVE  /\ DayOf(h) \in Midnights /\ DayOf(h) <= h
         /\ \A m \in Midnights : m <= h => m <= DayOf(h)
<1> DEFINE S == {m \in Midnights : m <= h}
<1>1. h \in Nat /\ Midnights \subseteq Nat /\ 0 \in Midnights
  BY DaysAssumption DEF Hours
<1>a. S \subseteq Nat /\ S # {}
  <2>1. 0 <= h
    BY <1>1
  <2>2. 0 \in S
    BY <1>1, <2>1
  <2> QED
    BY <1>1, <2>2
<1>b. \A m \in S : m <= h
  OBVIOUS
<1>2. Max(S) \in S /\ \A y \in S : y <= Max(S)
  <2> HIDE DEF S
  <2> QED
    BY <1>1, <1>a, <1>b, MaxIsGreatest
<1> QED
  BY <1>2 DEF DayOf

\* The window of a regular day ends when the next one begins.
LEMMA RegularFacts ==
  ASSUME NEW m \in RegularDays
  PROVE  /\ m \in Midnights /\ m \in Nat /\ m + WindowHours \in Midnights
         /\ \A n \in Midnights : n > m => m + WindowHours <= n
         /\ \A p \in Midnights : p < m => p + WindowHours <= m
<1> DEFINE S == {n \in Midnights : n > m}
<1>1. m \in Midnights /\ S # {} /\ NextMidnight(m) = m + WindowHours /\ \A p \in Midnights : p < m => p + WindowHours <= m
  BY DEF RegularDays
<1>2. S \subseteq Nat /\ m \in Nat
  BY <1>1, DaysAssumption
<1>3. Min(S) \in S /\ \A y \in S : Min(S) <= y
  BY <1>1, <1>2, MinIsLeast
<1>4. Min(S) = m + WindowHours
  BY <1>1 DEF NextMidnight
<1> QED
  BY <1>1, <1>2, <1>3, <1>4

----------------------------------------------------------------------------
(* Types and what each request holds                                       *)

RequestRecords(n) ==
    [pc : PCs, key : Keys \cup {NoKey}, payload : Payloads \cup {{}}, row : QuotaIds \cup {0},
     seen : 0..holdingsDailyLimit, day : Midnights, batch : 0..n]

Stored(n) == [batch : 1..n, payload : Payloads, at : Hours]

\* The state but for the requests.
RestTyped ==
    /\ now \in Hours
    /\ rate \in [count : Nat, ttl : BOOLEAN]
    /\ record \in [Keys -> Stored(Len(batches)) \cup {NoRecord}]
    /\ usage \in [QuotaIds -> [start : Midnights, count : 1..holdingsDailyLimit] \cup {NoUsage}]
    /\ batches \in Seq([key : Keys, payload : Payloads, at : Hours])
    /\ faults \in 0..MaxFaults
    /\ raced \in BOOLEAN
    /\ contested \subseteq Keys
    /\ through \in [Midnights -> Nat]

LEMMA TypeParts ==
  /\ TypeOK <=> RestTyped /\ request \in [Requests -> RequestRecords(Len(batches))]
  /\ TypeOK' <=> RestTyped' /\ request' \in [Requests -> RequestRecords(Len(batches'))]
  BY DEF TypeOK, RestTyped, RequestRecords, Stored

\* Batches and quota rows are never deleted.
Grows == Len(batches) <= Len(batches') /\ Len(batches) \in Nat /\ Len(batches') \in Nat /\ Rows \subseteq Rows'

\* A step of one request keeps what the others hold.
LEMMA OneRequest ==
  ASSUME TypeOK, RequestSteps, NEW r \in Requests, NEW q,
         request' = [request EXCEPT ![r] = q],
         q \in RequestRecords(Len(batches')), StepFits(q, Rows'), Grows, RestTyped'
  PROVE  TypeOK' /\ RequestSteps'
<1>1. request \in [Requests -> RequestRecords(Len(batches))]
  BY TypeParts
<1>2. RequestRecords(Len(batches)) \subseteq RequestRecords(Len(batches'))
  BY <1>1 DEF RequestRecords, Grows
<1>3. \A p \in Requests : p # r => request'[p] = request[p]
  BY <1>1
<1>4. request'[r] = q
  BY <1>1
<1>5. \A p \in Requests : StepFits(request'[p], Rows')
  <2> SUFFICES ASSUME NEW p \in Requests PROVE StepFits(request'[p], Rows')
    OBVIOUS
  <2>1. CASE p = r
    BY <2>1, <1>4 DEF StepFits
  <2>2. CASE p # r
    <3>1. StepFits(request[p], Rows) /\ request'[p] = request[p]
      BY <2>2, <1>3 DEF RequestSteps
    <3> QED
      BY <3>1 DEF StepFits, Grows
  <2> QED
    BY <2>1, <2>2
<1>6. request' \in [Requests -> RequestRecords(Len(batches'))]
  BY <1>1, <1>2
<1> QED
  BY <1>5, <1>6, TypeParts DEF RequestSteps

LEMMA EntryFits ==
  ASSUME NEW key \in Keys \cup {NoKey}, NEW payload
  PROVE  /\ Entry(key, payload) \in {"lookup", "check", "create"}
         /\ Entry(key, payload) = "lookup" => key \in Keys
         /\ Entry(NoKey, payload) # "lookup"
  BY DEF Entry

LEMMA IdleFits ==
  ASSUME NEW n \in Nat
  PROVE  [Idle EXCEPT !.pc = "done"] \in RequestRecords(n) /\ \A rows : StepFits([Idle EXCEPT !.pc = "done"], rows)
  BY DaysAssumption DEF Idle, RequestRecords, StepFits, PCs

LEMMA SendTypes ==
  ASSUME TypeOK, RequestSteps, NEW r \in Requests, NEW key \in Keys \cup {NoKey}, NEW payload \in Payloads,
         Send(r, key, payload)
  PROVE  TypeOK' /\ RequestSteps'
<1>1. RestTyped /\ request[r] = Idle
  BY TypeParts DEF Send, At, RequestSteps, StepFits
<1>2. RestTyped'
  BY <1>1 DEF RestTyped, Send, Stored
<1> DEFINE q == IF rate.count + 1 > WriteLimit THEN [Idle EXCEPT !.pc = "done"]
                ELSE [Idle EXCEPT !.pc = IF First(rate.count + 1) THEN "expire" ELSE Entry(key, payload),
                                  !.key = key, !.payload = payload]
<1>3. request' = [request EXCEPT ![r] = q]
  BY <1>1, TypeParts DEF Send, Finish
<1>4. Len(batches) \in Nat /\ batches' = batches /\ Rows' = Rows /\ Grows
  BY <1>1 DEF RestTyped, Send, Rows, Grows
<1>5. q \in RequestRecords(Len(batches')) /\ StepFits(q, Rows')
  <2>1. CASE rate.count + 1 > WriteLimit
    BY <2>1, <1>4, IdleFits DEF StepFits
  <2>2. CASE ~(rate.count + 1 > WriteLimit)
    <3> DEFINE pc == IF First(rate.count + 1) THEN "expire" ELSE Entry(key, payload)
    <3>1. pc \in {"expire", "lookup", "check", "create"} /\ (pc = "lookup" => key \in Keys)
      BY EntryFits
    <3> HIDE DEF pc
    <3>2. q = [pc |-> pc, key |-> key, payload |-> payload, row |-> 0, seen |-> 0, day |-> 0, batch |-> 0]
      BY <2>2 DEF Idle, pc
    <3> HIDE DEF q
    <3> QED
      BY <3>1, <3>2, <1>4, DaysAssumption DEF RequestRecords, StepFits, PCs
  <2> QED
    BY <2>1, <2>2
<1> HIDE DEF q
<1> QED
  BY <1>2, <1>3, <1>4, <1>5, OneRequest

\* The steps of a request that write nothing else it depends on.
LEMMA PassTypes ==
  ASSUME TypeOK, RequestSteps, NEW r \in Requests,
         SetTTL(r) \/ Lookup(r) \/ CheckEntitled(r) \/ ReadQuota(r) \/ Cancel(r)
  PROVE  TypeOK' /\ RequestSteps'
<1>1. RestTyped /\ request[r] \in RequestRecords(Len(batches)) /\ StepFits(request[r], Rows)
  BY TypeParts DEF RequestSteps
<1>2. RestTyped' /\ Grows /\ Len(batches) \in Nat /\ batches' = batches /\ Rows' = Rows
  <2>1. /\ UNCHANGED <<now, record, usage, batches, through>> /\ rate' \in {rate, [rate EXCEPT !.ttl = TRUE]}
    BY DEF SetTTL, Lookup, CheckEntitled, ReadQuota, Cancel
  <2>2. faults' \in 0..MaxFaults
    BY <1>1, DaysAssumption DEF RestTyped, SetTTL, Lookup, CheckEntitled, ReadQuota, Cancel
  <2>3. raced' \in BOOLEAN
    BY <1>1 DEF RestTyped, SetTTL, Lookup, CheckEntitled, ReadQuota, Cancel
  <2>4. contested' \subseteq Keys
    BY <1>1 DEF RestTyped, SetTTL, Lookup, CheckEntitled, ReadQuota, Cancel, At, StepFits
  <2>5. rate' \in [count : Nat, ttl : BOOLEAN]
    BY <1>1, <2>1 DEF RestTyped
  <2> QED
    BY <1>1, <2>1, <2>2, <2>3, <2>4, <2>5 DEF RestTyped, Rows, Grows
<1>3. ASSUME NEW pc, request' = [request EXCEPT ![r].pc = pc], pc \in PCs, StepFits([request[r] EXCEPT !.pc = pc], Rows)
      PROVE  TypeOK' /\ RequestSteps'
  <2> DEFINE q == [request[r] EXCEPT !.pc = pc]
  <2>1. request' = [request EXCEPT ![r] = q] /\ q \in RequestRecords(Len(batches')) /\ StepFits(q, Rows')
    BY <1>1, <1>2, <1>3, TypeParts DEF RequestRecords, StepFits
  <2> HIDE DEF q
  <2> QED
    BY <1>2, <2>1, OneRequest
<1>4. CASE Finish(r)
  <2> DEFINE q == [Idle EXCEPT !.pc = "done"]
  <2>1. q \in RequestRecords(Len(batches')) /\ StepFits(q, Rows')
    BY <1>2, IdleFits DEF StepFits
  <2>2. request' = [request EXCEPT ![r] = q]
    BY <1>4 DEF Finish
  <2> HIDE DEF q
  <2> QED
    BY <1>2, <2>1, <2>2, OneRequest
<1>5. CASE SetTTL(r)
  <2>1. Entry(request[r].key, request[r].payload) \in {"lookup", "check", "create"}
        /\ (Entry(request[r].key, request[r].payload) = "lookup" => request[r].key \in Keys)
    BY <1>1, EntryFits DEF RequestRecords
  <2>2. StepFits([request[r] EXCEPT !.pc = Entry(request[r].key, request[r].payload)], Rows)
    BY <1>1, <1>5, <2>1 DEF SetTTL, At, StepFits, RequestRecords
  <2> QED
    BY <1>3, <1>5, <2>1, <2>2 DEF SetTTL, Goto, PCs
<1>6. CASE Lookup(r)
  <2>1. Entry(NoKey, request[r].payload) \in {"check", "create"}
    BY EntryFits
  <2>2. StepFits([request[r] EXCEPT !.pc = Entry(NoKey, request[r].payload)], Rows)
    BY <1>1, <1>6, <2>1 DEF Lookup, At, StepFits, RequestRecords
  <2>3. CASE Goto(r, Entry(NoKey, request[r].payload))
    BY <1>3, <2>1, <2>2, <2>3 DEF Goto, PCs
  <2>4. ASSUME record[request[r].key] # NoRecord,
               request' = [request EXCEPT ![r].pc = "done", ![r].batch = record[request[r].key].batch]
        PROVE  TypeOK' /\ RequestSteps'
    <3> DEFINE q == [request[r] EXCEPT !.pc = "done", !.batch = record[request[r].key].batch]
    <3>1. request[r].key \in Keys
      BY <1>1, <1>6 DEF Lookup, At, StepFits
    <3>2. record[request[r].key].batch \in 0..Len(batches)
      BY <1>1, <2>4, <3>1 DEF RestTyped, Stored
    <3>3. request' = [request EXCEPT ![r] = q] /\ q \in RequestRecords(Len(batches')) /\ StepFits(q, Rows')
      BY <1>1, <1>2, <2>4, <3>2, TypeParts DEF RequestRecords, StepFits, PCs
    <3> HIDE DEF q
    <3> QED
      BY <1>2, <3>3, OneRequest
  <2> QED
    BY <1>4, <1>6, <2>3, <2>4 DEF Lookup
<1>7. CASE CheckEntitled(r)
  <2>1. StepFits([request[r] EXCEPT !.pc = "create"], Rows)
    BY <1>1, <1>7 DEF CheckEntitled, At, StepFits, RequestRecords
  <2> QED
    BY <1>3, <1>7, <2>1 DEF CheckEntitled, Goto, PCs
<1>8. CASE ReadQuota(r)
  <2> DEFINE TellsOf(pc, row, seen) ==
        request' = [request EXCEPT ![r] = Told(request[r], pc, DayOf(now), row, seen)]
  <2>1. request[r].pc = "check" /\ DayOf(now) \in Midnights
    BY <1>1, <1>8, DayFacts DEF RestTyped, ReadQuota, At
  <2>2. ASSUME NEW pc \in {"open", "count"}, NEW row \in QuotaIds \cup {0}, NEW seen \in 0..holdingsDailyLimit,
               TellsOf(pc, row, seen), pc = "count" => row \in Rows /\ seen < holdingsDailyLimit
        PROVE  TypeOK' /\ RequestSteps'
    <3> DEFINE q == Told(request[r], pc, DayOf(now), row, seen)
    <3>1. q \in RequestRecords(Len(batches'))
      BY <1>1, <1>2, <2>1 DEF RequestRecords, PCs, Told
    <3>2. StepFits(q, Rows')
      BY <1>1, <1>2, <2>1, <2>2 DEF StepFits, RequestRecords, Told
    <3>3. request' = [request EXCEPT ![r] = q]
      BY <2>2
    <3> HIDE DEF q
    <3> QED
      BY <1>2, <3>1, <3>2, <3>3, OneRequest
  <2>3. ASSUME NEW i \in Latest, ~Exhausted(usage[i])
        PROVE  i \in Rows /\ i \in QuotaIds /\ usage[i].count \in 0..holdingsDailyLimit /\ usage[i].count < holdingsDailyLimit
    BY <1>1, <2>3, DaysAssumption DEF Latest, Rows, RestTyped, Exhausted
  <2>4. \/ Finish(r)
        \/ TellsOf("open", 0, 0)
        \/ \E i \in Latest : ~Exhausted(usage[i]) /\ TellsOf("count", i, usage[i].count)
    BY <1>8 DEF ReadQuota
  <2>5. 0 \in 0..holdingsDailyLimit
    BY DaysAssumption
  <2> HIDE DEF TellsOf
  <2>6. CASE TellsOf("open", 0, 0)
    BY <2>2, <2>5, <2>6
  <2>7. CASE \E i \in Latest : ~Exhausted(usage[i]) /\ TellsOf("count", i, usage[i].count)
    BY <2>2, <2>3, <2>7
  <2> QED
    BY <1>4, <2>4, <2>6, <2>7
<1>9. CASE Cancel(r)
  <2>1. StepFits([request[r] EXCEPT !.pc = "done"], Rows)
    BY <1>1 DEF StepFits, RequestRecords
  <2> QED
    BY <1>3, <1>4, <1>9, <2>1 DEF Cancel, Goto, PCs
<1> QED
  BY <1>5, <1>6, <1>7, <1>8, <1>9

LEMMA ClockTypes ==
  ASSUME TypeOK, RequestSteps, Tick \/ ExpireRate
  PROVE  TypeOK' /\ RequestSteps'
<1>1. RestTyped /\ request' = request /\ batches' = batches /\ usage' = usage
  BY TypeParts DEF Tick, ExpireRate
<1>2. RestTyped'
  <2>1. CASE Tick
    <3>1. now' \in Hours
      BY <1>1, <2>1, DaysAssumption DEF Tick, RestTyped, Hours
    <3>2. record' \in [Keys -> Stored(Len(batches)) \cup {NoRecord}]
      BY <1>1, <2>1 DEF Tick, RestTyped
    <3> QED
      BY <1>1, <2>1, <3>1, <3>2 DEF Tick, RestTyped
  <2>2. CASE ExpireRate
    BY <1>1, <2>2 DEF ExpireRate, RestTyped
  <2> QED
    BY <2>1, <2>2
<1>3. \A r \in Requests : StepFits(request[r], Rows) /\ Rows' = Rows
  BY <1>1 DEF RequestSteps, Rows
<1> QED
  BY <1>1, <1>2, <1>3, TypeParts DEF RequestSteps

\* The steps that write what the quota or a batch is.
LEMMA WriteTypes ==
  ASSUME TypeOK, RequestSteps, NEW r \in Requests, CountUpload(r) \/ OpenWindow(r) \/ Create(r) \/ Record(r)
  PROVE  TypeOK' /\ RequestSteps'
<1>1. RestTyped /\ request[r] \in RequestRecords(Len(batches)) /\ StepFits(request[r], Rows)
  BY TypeParts DEF RequestSteps
<1>2. Len(batches) \in Nat
  BY <1>1 DEF RestTyped
<1>3. ASSUME CountUpload(r) \/ OpenWindow(r),
             usage' \in [QuotaIds -> [start : Midnights, count : 1..holdingsDailyLimit] \cup {NoUsage}],
             Rows \subseteq Rows'
      PROVE  TypeOK' /\ RequestSteps'
  <2> DEFINE q == Told(request[r], "create", 0, 0, 0)
  <2>1. LetThrough(r) /\ request[r].pc \in {"count", "open"}
    BY <1>3 DEF CountUpload, OpenWindow, At
  <2>2. UNCHANGED <<now, rate, record, batches, faults, raced, contested>> /\ request' = [request EXCEPT ![r] = q]
    BY <2>1 DEF LetThrough
  <2>3. through' \in [Midnights -> Nat]
    <3>1. request[r].day \in Midnights
      BY <1>1 DEF RequestRecords
    <3> QED
      BY <1>1, <2>1, <3>1 DEF LetThrough, RestTyped
  <2>4. RestTyped' /\ Grows
    BY <1>1, <1>2, <1>3, <2>2, <2>3 DEF RestTyped, Grows
  <2>5. q \in RequestRecords(Len(batches'))
    BY <1>1, <1>2, <2>2, DaysAssumption DEF RequestRecords, PCs, Told
  <2>6. StepFits(q, Rows')
    BY <1>1, <2>1 DEF StepFits, RequestRecords, Told
  <2> HIDE DEF q
  <2> QED
    BY <2>2, <2>4, <2>5, <2>6, OneRequest
<1>4. CASE CountUpload(r)
  <2> DEFINE i == request[r].row
             row == [usage[i] EXCEPT !.count = request[r].seen + 1]
  <2>1. request[r].pc = "count" /\ usage' = [usage EXCEPT ![i] = row]
    BY <1>1, <1>4 DEF CountUpload, At
  <2>2. i \in Rows /\ i \in QuotaIds /\ request[r].seen + 1 \in 1..holdingsDailyLimit
    BY <1>1, <2>1, DaysAssumption DEF StepFits, RequestRecords, Rows
  <2>3. usage[i] \in [start : Midnights, count : 1..holdingsDailyLimit]
    BY <1>1, <2>2 DEF RestTyped, Rows
  <2>4. row \in [start : Midnights, count : 1..holdingsDailyLimit] /\ row # NoUsage
    BY <2>2, <2>3 DEF NoUsage
  <2> HIDE DEF row, i
  <2>5. usage' \in [QuotaIds -> [start : Midnights, count : 1..holdingsDailyLimit] \cup {NoUsage}]
    BY <1>1, <2>1, <2>4 DEF RestTyped
  <2>6. Rows \subseteq Rows'
    BY <1>1, <2>1, <2>4 DEF RestTyped, Rows
  <2> QED
    BY <1>3, <1>4, <2>5, <2>6
<1>5. CASE OpenWindow(r)
  <2> DEFINE row == [start |-> request[r].day, count |-> 1]
  <2>1. PICK i \in QuotaIds \ Rows : usage' = [usage EXCEPT ![i] = row]
    BY <1>5 DEF OpenWindow
  <2>2. row \in [start : Midnights, count : 1..holdingsDailyLimit] /\ row # NoUsage
    BY <1>1, DaysAssumption DEF RequestRecords, NoUsage
  <2> HIDE DEF row
  <2>3. usage' \in [QuotaIds -> [start : Midnights, count : 1..holdingsDailyLimit] \cup {NoUsage}]
    BY <1>1, <2>1, <2>2 DEF RestTyped
  <2>4. Rows \subseteq Rows'
    BY <1>1, <2>1, <2>2 DEF RestTyped, Rows
  <2> QED
    BY <1>3, <1>5, <2>3, <2>4
<1>6. CASE Create(r)
  <2>1. CASE request[r].key = NoKey
    <3> DEFINE q == [Idle EXCEPT !.pc = "done"]
    <3>1. UNCHANGED <<now, rate, record, usage, batches, faults, raced, contested, through>>
      BY <1>6, <2>1 DEF Create
    <3>2. request' = [request EXCEPT ![r] = q]
      BY <1>6, <2>1 DEF Create, Finish
    <3>3. RestTyped' /\ Grows
      BY <1>1, <1>2, <3>1 DEF RestTyped, Grows, Rows
    <3>4. q \in RequestRecords(Len(batches')) /\ StepFits(q, Rows')
      BY <1>2, <3>1, IdleFits
    <3> HIDE DEF q
    <3> QED
      BY <3>2, <3>3, <3>4, OneRequest
  <2>2. CASE request[r].key # NoKey
    <3> DEFINE q == [request[r] EXCEPT !.pc = "record", !.batch = Len(batches) + 1]
               b == [key |-> request[r].key, payload |-> request[r].payload, at |-> now]
    <3>1. UNCHANGED <<now, rate, record, usage, faults, raced, contested, through>>
          /\ batches' = Append(batches, b) /\ request[r].pc = "create"
      BY <1>6, <2>2 DEF Create, At
    <3>2. request' = [request EXCEPT ![r] = q]
      BY <1>6, <2>2, TypeParts DEF Create
    <3>3. b \in [key : Keys, payload : Payloads, at : Hours]
      BY <1>1, <2>2, <3>1 DEF RequestRecords, StepFits, RestTyped
    <3> HIDE DEF b
    <3>4. batches' \in Seq([key : Keys, payload : Payloads, at : Hours]) /\ Len(batches') = Len(batches) + 1
      BY <1>1, <3>1, <3>3 DEF RestTyped
    <3>5. Stored(Len(batches)) \subseteq Stored(Len(batches'))
      BY <1>2, <3>4 DEF Stored
    <3>6. RestTyped' /\ Grows
      BY <1>1, <1>2, <3>1, <3>4, <3>5 DEF RestTyped, Grows, Rows
    <3>7. q \in RequestRecords(Len(batches'))
      <4>1. /\ Len(batches) + 1 \in 0..Len(batches')
            /\ "record" \in PCs
            /\ request[r] \in RequestRecords(Len(batches'))
        BY <1>1, <1>2, <3>4 DEF RequestRecords, PCs
      <4> QED
        BY <4>1 DEF RequestRecords
    <3>8. StepFits(q, Rows')
      BY <1>1, <1>2, <2>2, <3>1 DEF RequestRecords, StepFits
    <3> HIDE DEF q
    <3> QED
      BY <3>2, <3>6, <3>7, <3>8, OneRequest
  <2> QED
    BY <2>1, <2>2
<1>7. CASE Record(r)
  <2> DEFINE q == [request[r] EXCEPT !.pc = "done"]
             s == [batch |-> request[r].batch, payload |-> request[r].payload, at |-> now]
  <2>1. UNCHANGED <<now, rate, usage, batches, faults, raced, contested, through>>
        /\ record' = [record EXCEPT ![request[r].key] = s] /\ request[r].pc = "record"
        /\ request' = [request EXCEPT ![r] = q]
    BY <1>7 DEF Record, At, Goto
  <2>2. s \in Stored(Len(batches))
    BY <1>1, <1>2, <2>1 DEF Stored, StepFits, RequestRecords, RestTyped
  <2> HIDE DEF s
  <2>3. record' \in [Keys -> Stored(Len(batches)) \cup {NoRecord}]
    BY <1>1, <2>1, <2>2 DEF RestTyped
  <2>4. RestTyped' /\ Grows
    BY <1>1, <1>2, <2>1, <2>3 DEF RestTyped, Grows, Rows
  <2>5. q \in RequestRecords(Len(batches')) /\ StepFits(q, Rows')
    BY <1>1, <2>1 DEF RequestRecords, StepFits, PCs, Rows
  <2> HIDE DEF q
  <2> QED
    BY <2>1, <2>4, <2>5, OneRequest
<1> QED
  BY <1>4, <1>5, <1>6, <1>7

LEMMA InitTypes == Init => TypeOK /\ RequestSteps
<1> SUFFICES ASSUME Init PROVE TypeOK /\ RequestSteps
  OBVIOUS
<1>1. batches = << >> /\ Len(batches) = 0
  BY DEF Init
<1>2. now \in Hours /\ 0 \in 0..MaxFaults
  BY DaysAssumption DEF Init, Hours
<1>3. Idle \in RequestRecords(0) /\ StepFits(Idle, Rows)
  BY DaysAssumption DEF Idle, RequestRecords, PCs, StepFits
<1>4. rate \in [count : Nat, ttl : BOOLEAN] /\ batches \in Seq([key : Keys, payload : Payloads, at : Hours])
  BY <1>1 DEF Init
<1>5. /\ record \in [Keys -> Stored(Len(batches)) \cup {NoRecord}]
      /\ usage \in [QuotaIds -> [start : Midnights, count : 1..holdingsDailyLimit] \cup {NoUsage}]
      /\ through \in [Midnights -> Nat]
  BY DEF Init
<1>6. faults \in 0..MaxFaults /\ raced \in BOOLEAN /\ contested \subseteq Keys
  BY <1>2 DEF Init
<1>7. RestTyped
  BY <1>2, <1>4, <1>5, <1>6 DEF RestTyped
<1> QED
  BY <1>1, <1>3, <1>7, TypeParts DEF Init, RequestSteps

LEMMA NextTypes ==
  ASSUME TypeOK, RequestSteps, [Next]_vars
  PROVE  TypeOK' /\ RequestSteps'
<1>1. CASE Tick \/ ExpireRate
  BY <1>1, ClockTypes
<1>2. CASE UNCHANGED vars
  BY <1>2 DEF vars, TypeOK, RequestSteps, Rows
<1>3. ASSUME NEW r \in Requests, NEW key \in Keys \cup {NoKey}, NEW payload \in Payloads, Send(r, key, payload)
      PROVE  TypeOK' /\ RequestSteps'
  BY <1>3, SendTypes
<1>4. ASSUME NEW r \in Requests,
             SetTTL(r) \/ Lookup(r) \/ CheckEntitled(r) \/ ReadQuota(r) \/ Cancel(r)
      PROVE  TypeOK' /\ RequestSteps'
  BY <1>4, PassTypes
<1>5. ASSUME NEW r \in Requests, CountUpload(r) \/ OpenWindow(r) \/ Create(r) \/ Record(r)
      PROVE  TypeOK' /\ RequestSteps'
  BY <1>5, WriteTypes
<1> QED
  BY <1>1, <1>2, <1>3, <1>4, <1>5 DEF Next

----------------------------------------------------------------------------
(* One batch per key                                                       *)

\* A step of a request that neither commits a batch under a key nor records one.
Passes(r) ==
    /\ UNCHANGED <<now, record, batches>> /\ contested \subseteq contested'
    /\ r \in InProgress /\ request'[r].pc \notin {"new", "record"}
    /\ \A p \in Requests : p # r => request'[p] = request[p]
    /\ request[r].pc = "record" => request[r].key \in contested'
    /\ request'[r].pc # "done" => request'[r].key = request[r].key
    /\ request'[r].pc \in Handling =>
         request[r].pc \in Handling \/ request[r].key = NoKey \/ record[request[r].key] = NoRecord
    /\ AnswerFits(request'[r])

LEMMA FinishPasses ==
  ASSUME TypeOK, NEW r \in InProgress, Finish(r), UNCHANGED <<now, record, batches>>, contested \subseteq contested',
         request[r].pc = "record" => request[r].key \in contested'
  PROVE  Passes(r)
<1>1. request \in [Requests -> RequestRecords(Len(batches))] /\ r \in Requests
  BY TypeParts DEF InProgress
<1>2. request'[r].pc = "done" /\ request'[r].batch = 0 /\ \A p \in Requests : p # r => request'[p] = request[p]
  BY <1>1 DEF Finish, Idle
<1> QED
  BY <1>2 DEF Passes, AnswerFits, Handling

LEMMA StepPasses ==
  ASSUME TypeOK, RequestSteps, BatchesFit, NEW r \in Requests,
         \/ SetTTL(r) \/ Lookup(r) \/ CheckEntitled(r) \/ ReadQuota(r) \/ CountUpload(r) \/ OpenWindow(r) \/ Cancel(r)
         \/ Create(r) /\ request[r].key = NoKey
  PROVE  Passes(r)
<1>1. /\ RestTyped /\ request[r] \in RequestRecords(Len(batches)) /\ StepFits(request[r], Rows)
      /\ AnswerFits(request[r]) /\ request \in [Requests -> RequestRecords(Len(batches))]
  BY TypeParts DEF RequestSteps, BatchesFit
<1>2. UNCHANGED <<now, record, batches>> /\ contested \subseteq contested' /\ r \in InProgress
  BY DEF SetTTL, Lookup, CheckEntitled, ReadQuota, CountUpload, OpenWindow, LetThrough, Cancel, Create, At, InProgress
<1>3. ASSUME NEW pc \in {"check", "count", "open", "create", "lookup"}, NEW q, request' = [request EXCEPT ![r] = q],
             q.pc = pc, q.key = request[r].key, q.batch = 0, request[r].pc # "record",
             pc \in Handling => request[r].pc \in Handling \/ request[r].key = NoKey \/ record[request[r].key] = NoRecord
      PROVE  Passes(r)
  <2>1. request'[r] = q /\ \A p \in Requests : p # r => request'[p] = request[p]
    BY <1>1, <1>3
  <2> QED
    BY <1>2, <1>3, <2>1 DEF Passes, AnswerFits
<1>4. ASSUME Finish(r), request[r].pc # "record" \/ request[r].key \in contested' PROVE Passes(r)
  BY <1>2, <1>4, FinishPasses
<1>5. CASE SetTTL(r)
  <2> DEFINE pc == Entry(request[r].key, request[r].payload)
             q == [request[r] EXCEPT !.pc = pc]
  <2>1. pc \in {"lookup", "check", "create"} /\ (pc # "lookup" => request[r].key = NoKey)
    BY DEF Entry
  <2>2. request' = [request EXCEPT ![r] = q] /\ request[r].pc = "expire"
    BY <1>5 DEF SetTTL, Goto, At
  <2>3. q.pc = pc /\ q.key = request[r].key /\ q.batch = 0
    BY <1>1, <2>2 DEF StepFits, RequestRecords
  <2> HIDE DEF pc, q
  <2> QED
    BY <1>3, <2>1, <2>2, <2>3 DEF Handling
<1>6. CASE Lookup(r)
  <2>1. request[r].pc = "lookup" /\ request[r].key \in Keys
    BY <1>1, <1>6 DEF Lookup, At, StepFits
  <2>2. CASE record[request[r].key] = NoRecord /\ Goto(r, Entry(NoKey, request[r].payload))
    <3> DEFINE pc == Entry(NoKey, request[r].payload)
               q == [request[r] EXCEPT !.pc = pc]
    <3>1. pc \in {"check", "create"}
      BY DEF Entry
    <3>2. request' = [request EXCEPT ![r] = q]
      BY <2>2 DEF Goto
    <3>3. q.pc = pc /\ q.key = request[r].key /\ q.batch = 0
      BY <1>1, <2>1 DEF StepFits, RequestRecords
    <3> HIDE DEF pc, q
    <3> QED
      BY <1>3, <2>1, <2>2, <3>1, <3>2, <3>3
  <2>3. ASSUME record[request[r].key] # NoRecord, Matches(record[request[r].key], request[r].payload),
               request' = [request EXCEPT ![r].pc = "done", ![r].batch = record[request[r].key].batch]
        PROVE  Passes(r)
    <3>1. /\ batches[record[request[r].key].batch].key = request[r].key
          /\ batches[record[request[r].key].batch].payload = request[r].payload
      BY <2>1, <2>3 DEF BatchesFit, Matches
    <3>2. /\ request'[r].pc = "done" /\ request'[r].batch = record[request[r].key].batch
          /\ request'[r].key = request[r].key /\ request'[r].payload = request[r].payload
          /\ \A p \in Requests : p # r => request'[p] = request[p]
      BY <1>1, <2>3 DEF RequestRecords
    <3> QED
      BY <1>2, <2>1, <3>1, <3>2 DEF Passes, AnswerFits, Handling
  <2> QED
    BY <1>4, <1>6, <2>1, <2>2, <2>3 DEF Lookup
<1>7. CASE CheckEntitled(r)
  <2> DEFINE q == [request[r] EXCEPT !.pc = "create"]
  <2>1. request' = [request EXCEPT ![r] = q] /\ request[r].pc = "check"
    BY <1>7 DEF CheckEntitled, Goto, At
  <2>2. q.pc = "create" /\ q.key = request[r].key /\ q.batch = 0
    BY <1>1, <2>1 DEF StepFits, RequestRecords
  <2> HIDE DEF q
  <2> QED
    BY <1>3, <2>1, <2>2 DEF Handling
<1>8. ASSUME NEW pc \in {"count", "open", "create"}, NEW day, NEW row, NEW seen,
             request[r].pc \in {"check", "count", "open"},
             request' = [request EXCEPT ![r] = Told(request[r], pc, day, row, seen)]
      PROVE  Passes(r)
  <2> DEFINE q == Told(request[r], pc, day, row, seen)
  <2>1. q.pc = pc /\ q.key = request[r].key /\ q.batch = 0
    BY DEF Told
  <2>2. request' = [request EXCEPT ![r] = q]
    BY <1>8
  <2> HIDE DEF q
  <2> QED
    BY <1>3, <1>8, <2>1, <2>2 DEF Handling
<1>9. CASE ReadQuota(r)
  <2>1. request[r].pc = "check"
    BY <1>9 DEF ReadQuota, At
  <2>2. \/ Finish(r)
        \/ request' = [request EXCEPT ![r] = Told(request[r], "open", DayOf(now), 0, 0)]
        \/ \E i \in Latest : request' = [request EXCEPT ![r] = Told(request[r], "count", DayOf(now), i, usage[i].count)]
    BY <1>9 DEF ReadQuota
  <2> QED
    BY <1>4, <1>8, <2>1, <2>2
<1>10. CASE CountUpload(r) \/ OpenWindow(r)
  <2>1. request[r].pc \in {"check", "count", "open"} /\ "create" \in {"count", "open", "create"}
    BY <1>10 DEF CountUpload, OpenWindow, At
  <2>2. request' = [request EXCEPT ![r] = Told(request[r], "create", 0, 0, 0)]
    BY <1>10 DEF CountUpload, OpenWindow, LetThrough
  <2> DEFINE q == Told(request[r], "create", 0, 0, 0)
  <2>3. q.pc = "create" /\ q.key = request[r].key /\ q.batch = 0
    BY DEF Told
  <2> HIDE DEF q
  <2> QED
    BY <1>3, <2>1, <2>2, <2>3 DEF Handling, q
<1>11. CASE Cancel(r)
  <2>1. CASE request[r].pc = "record"
    <3>1. request[r].key \in contested' /\ Goto(r, "done")
      BY <1>11, <2>1 DEF Cancel, At
    <3>2. /\ request'[r].pc = "done" /\ request'[r].batch = request[r].batch
          /\ request'[r].key = request[r].key /\ request'[r].payload = request[r].payload
          /\ \A p \in Requests : p # r => request'[p] = request[p]
      BY <1>1, <3>1 DEF RequestRecords, Goto
    <3> QED
      BY <1>1, <1>2, <3>1, <3>2 DEF Passes, AnswerFits, Handling
  <2>2. CASE request[r].pc # "record"
    BY <1>4, <1>11, <2>2 DEF Cancel, At
  <2> QED
    BY <2>1, <2>2
<1>12. CASE Create(r) /\ request[r].key = NoKey
  BY <1>4, <1>12 DEF Create, At
<1> QED
  BY <1>5, <1>6, <1>7, <1>9, <1>10, <1>11, <1>12

\* The invariant speaks of the keys through these parts alone.
NoDoubles == \A k \in Keys \ contested : Doubles(k) = {}

LEMMA NoDoublesMeans ==
  /\ NoDoubles <=> \A i, j \in 1..Len(batches) :
       /\ i < j /\ batches[i].key = batches[j].key /\ batches[i].key \in Keys \ contested
       => ~(batches[j].at < batches[i].at + RecordHours)
  /\ NoDoubles' <=> \A i, j \in 1..Len(batches') :
       /\ i < j /\ batches'[i].key = batches'[j].key /\ batches'[i].key \in Keys \ contested'
       => ~(batches'[j].at < batches'[i].at + RecordHours)
<1>1. ASSUME NEW k, NEW bs
      PROVE  {p \in (1..Len(bs)) \X (1..Len(bs)) :
                p[1] < p[2] /\ bs[p[1]].key = k /\ bs[p[2]].key = k /\ bs[p[2]].at < bs[p[1]].at + RecordHours} = {}
             <=> \A i, j \in 1..Len(bs) :
                   ~(i < j /\ bs[i].key = k /\ bs[j].key = k /\ bs[j].at < bs[i].at + RecordHours)
  <2> DEFINE I == 1..Len(bs)
             P(i, j) == i < j /\ bs[i].key = k /\ bs[j].key = k /\ bs[j].at < bs[i].at + RecordHours
  <2>1. ASSUME NEW p \in I \X I, P(p[1], p[2]) PROVE \E i, j \in I : P(i, j)
    <3>1. p[1] \in I /\ p[2] \in I
      OBVIOUS
    <3> HIDE DEF I, P
    <3> QED
      BY <2>1, <3>1
  <2>2. ASSUME NEW i \in I, NEW j \in I, P(i, j) PROVE \E p \in I \X I : P(p[1], p[2])
    <3>1. <<i, j>> \in I \X I /\ <<i, j>>[1] = i /\ <<i, j>>[2] = j
      OBVIOUS
    <3> HIDE DEF I, P
    <3> QED
      BY <2>2, <3>1
  <2> QED
    BY <2>1, <2>2
<1>2. \A k : Doubles(k) = {} <=> \A i, j \in 1..Len(batches) :
        ~(i < j /\ batches[i].key = k /\ batches[j].key = k /\ batches[j].at < batches[i].at + RecordHours)
  BY <1>1 DEF Doubles
<1>3. \A k : Doubles(k)' = {} <=> \A i, j \in 1..Len(batches') :
        ~(i < j /\ batches'[i].key = k /\ batches'[j].key = k /\ batches'[j].at < batches'[i].at + RecordHours)
  BY <1>1 DEF Doubles
<1> QED
  BY <1>2, <1>3 DEF NoDoubles

\* A request holds a batch that exists; a record too.
LEMMA BatchesExist ==
  ASSUME TypeOK
  PROVE  /\ Len(batches) \in Nat
         /\ \A r \in Requests : request[r].batch # 0 => request[r].batch \in 1..Len(batches)
         /\ \A k \in Keys : record[k] # NoRecord => record[k].batch \in 1..Len(batches)
         /\ \A i \in 1..Len(batches) : batches[i] \in [key : Keys, payload : Payloads, at : Hours]
         /\ now \in Nat /\ RecordHours \in Nat /\ Hours \subseteq Nat
         /\ \A k \in Keys : record[k].at \in Nat
<1>1. RestTyped /\ request \in [Requests -> RequestRecords(Len(batches))]
  BY TypeParts
<1>2. Len(batches) \in Nat /\ \A i \in 1..Len(batches) : batches[i] \in [key : Keys, payload : Payloads, at : Hours]
  <2> DEFINE S == [key : Keys, payload : Payloads, at : Hours]
  <2>1. batches \in Seq(S)
    BY <1>1 DEF RestTyped
  <2> HIDE DEF S
  <2>2. Len(batches) \in Nat /\ \A i \in 1..Len(batches) : batches[i] \in S
    BY <2>1
  <2> QED
    BY <2>2 DEF S
<1>3. now \in Nat /\ RecordHours \in Nat /\ Hours \subseteq Nat
  BY <1>1, DaysAssumption DEF RestTyped, Hours
<1>4. \A k \in Keys : record[k] = NoRecord \/ record[k] \in Stored(Len(batches))
  BY <1>1 DEF RestTyped
<1>5. \A k \in Keys : record[k].at \in Nat
  <2> SUFFICES ASSUME NEW k \in Keys PROVE record[k].at \in Nat
    OBVIOUS
  <2>1. CASE record[k] = NoRecord
    BY <2>1 DEF NoRecord
  <2>2. CASE record[k] \in Stored(Len(batches))
    BY <1>3, <2>2 DEF Stored
  <2> QED
    BY <1>4, <2>1, <2>2
<1>6. \A r \in Requests : request[r].batch \in 0..Len(batches)
  BY <1>1 DEF RequestRecords
<1> QED
  BY <1>2, <1>3, <1>4, <1>5, <1>6 DEF Stored

LEMMA PassKeys ==
  ASSUME TypeOK, RequestSteps, KeyInv, NEW r \in Requests, Passes(r)
  PROVE  KeyInv'
<1>1. BatchesFit /\ Dated /\ OneUser /\ Unrecorded /\ AllRemembered /\ NoDoubles
  BY DEF KeyInv, NoDoubles
<1>2. UNCHANGED <<now, record, batches>> /\ contested \subseteq contested'
  BY DEF Passes
<1>3. BatchesFit'
  BY <1>1, <1>2 DEF BatchesFit, AnswerFits, Passes
<1>4. Dated'
  BY <1>1, <1>2 DEF Dated
<1>5. \A p \in Requests, k \in Keys : UsesKey(p, k)' => UsesKey(p, k)
  BY DEF UsesKey, InProgress, Passes
<1>6. OneUser'
  BY <1>1, <1>2, <1>5 DEF OneUser
<1>7. Unrecorded'
  <2> SUFFICES ASSUME NEW p \in Requests, request'[p].pc \in Handling, request'[p].key \in Keys \ contested'
               PROVE  record[request'[p].key] = NoRecord
    BY <1>2 DEF Unrecorded
  <2>1. CASE p # r
    BY <1>1, <1>2, <2>1 DEF Passes, Unrecorded
  <2>2. CASE p = r
    BY <1>1, <1>2, <2>2, DaysAssumption DEF Passes, Unrecorded, Handling
  <2> QED
    BY <2>1, <2>2
<1>8. AllRemembered'
  <2> SUFFICES ASSUME NEW i \in 1..Len(batches), batches[i].key \notin contested' PROVE Remembered(i)'
    BY <1>2 DEF AllRemembered
  <2>1. Remembered(i)
    BY <1>1, <1>2 DEF AllRemembered
  <2>2. ASSUME NEW p \in Requests, At(p, "record"), request[p].batch = i PROVE Remembered(i)'
    <3>1. batches[i].key = request[p].key
      BY <1>1, <2>2, BatchesExist DEF BatchesFit, AnswerFits
    <3>2. p # r
      BY <2>2, <3>1 DEF Passes, At
    <3> QED
      BY <2>2, <3>2 DEF Remembered, At, Passes
  <2> QED
    BY <1>2, <2>1, <2>2 DEF Remembered
<1>9. NoDoubles'
  BY <1>1, <1>2, NoDoublesMeans
<1> QED
  BY <1>3, <1>4, <1>6, <1>7, <1>8, <1>9 DEF KeyInv, NoDoubles

LEMMA SendKeys ==
  ASSUME TypeOK, RequestSteps, KeyInv, NEW r \in Requests, NEW key \in Keys \cup {NoKey}, NEW payload \in Payloads,
         Send(r, key, payload)
  PROVE  KeyInv'
<1>1. BatchesFit /\ Dated /\ OneUser /\ Unrecorded /\ AllRemembered /\ NoDoubles
  BY DEF KeyInv, NoDoubles
<1>2. UNCHANGED <<now, record, batches>> /\ request[r] = Idle
      /\ request \in [Requests -> RequestRecords(Len(batches))]
  BY TypeParts DEF Send, At, RequestSteps, StepFits
<1>3. contested' = contested \cup {k \in {key} \ {NoKey} : \E q \in InProgress : request[q].key = k}
  BY DEF Send
<1>4. /\ \A p \in Requests : p # r => request'[p] = request[p]
      /\ request'[r].batch = 0 /\ request'[r].pc # "record"
      /\ request'[r].pc \in Handling => request'[r].key = NoKey
      /\ request'[r].pc # "done" => request'[r].key = key
  <2>1. CASE Finish(r)
    BY <1>2, <2>1 DEF Finish, Idle, Handling
  <2> DEFINE pc == IF First(rate.count + 1) THEN "expire" ELSE Entry(key, payload)
  <2>2. CASE request' = [request EXCEPT ![r].pc = pc, ![r].key = key, ![r].payload = payload]
    <3>1. pc \in {"expire", "lookup", "check", "create"} /\ (pc \in Handling => key = NoKey)
      BY DEF Entry, Handling
    <3> HIDE DEF pc
    <3> QED
      BY <1>2, <2>2, <3>1 DEF Idle, RequestRecords
  <2> QED
    BY <2>1, <2>2 DEF Send
<1>5. BatchesFit'
  BY <1>1, <1>2, <1>4 DEF BatchesFit, AnswerFits
<1>6. Dated'
  BY <1>1, <1>2 DEF Dated
<1>7. OneUser'
  <2> SUFFICES ASSUME NEW k \in Keys \ contested', NEW p \in Requests, NEW q \in Requests,
                      UsesKey(p, k)', UsesKey(q, k)'
               PROVE  p = q
    BY DEF OneUser
  <2>1. k \in Keys \ contested
    BY <1>3
  <2>2. \A s \in Requests : s # r /\ UsesKey(s, k)' => UsesKey(s, k)
    BY <1>4 DEF UsesKey, InProgress
  <2>3. UsesKey(r, k)' => k = key
    BY <1>4 DEF UsesKey, InProgress
  <2>4. \A s \in Requests : UsesKey(s, k) => k # key
    BY <1>3, DaysAssumption DEF UsesKey
  <2> QED
    BY <1>1, <2>1, <2>2, <2>3, <2>4 DEF OneUser
<1>8. Unrecorded'
  <2>1. contested \subseteq contested'
    BY <1>3
  <2> QED
    BY <1>1, <1>2, <1>4, <2>1, DaysAssumption DEF Unrecorded
<1>9. AllRemembered'
  <2> SUFFICES ASSUME NEW i \in 1..Len(batches), batches[i].key \notin contested' PROVE Remembered(i)'
    BY <1>2 DEF AllRemembered
  <2>1. Remembered(i)
    BY <1>1, <1>3 DEF AllRemembered
  <2>2. \A p \in Requests : At(p, "record") => p # r
    BY <1>2 DEF At, Idle
  <2> QED
    BY <1>2, <1>4, <2>1, <2>2 DEF Remembered, At
<1>10. NoDoubles'
  BY <1>1, <1>2, <1>3, NoDoublesMeans
<1> QED
  BY <1>5, <1>6, <1>7, <1>8, <1>9, <1>10 DEF KeyInv, NoDoubles

\* The batch committed is the first of its key that a retry could be answered with.
LEMMA CreateKeys ==
  ASSUME TypeOK, RequestSteps, KeyInv, NEW r \in Requests, Create(r), request[r].key # NoKey
  PROVE  KeyInv'
<1>1. BatchesFit /\ Dated /\ OneUser /\ Unrecorded /\ AllRemembered /\ NoDoubles
  BY DEF KeyInv, NoDoubles
<1> DEFINE n == Len(batches) + 1
           k == request[r].key
           b == [key |-> k, payload |-> request[r].payload, at |-> now]
<1>2. /\ UNCHANGED <<now, record, contested>> /\ batches' = Append(batches, b)
      /\ request[r].pc = "create" /\ request' = [request EXCEPT ![r].pc = "record", ![r].batch = n]
  BY DEF Create, At
<1>3. /\ request \in [Requests -> RequestRecords(Len(batches))] /\ k \in Keys /\ Len(batches) \in Nat
      /\ \A i \in 1..Len(batches) : batches[i] \in [key : Keys, payload : Payloads, at : Hours]
      /\ \A p \in Requests : request[p].batch # 0 => request[p].batch \in 1..Len(batches)
      /\ \A c \in Keys : record[c] # NoRecord => record[c].batch \in 1..Len(batches)
  BY TypeParts, BatchesExist DEF RequestRecords
<1>4. Len(batches') = n /\ batches'[n] = b /\ \A i \in 1..Len(batches) : batches'[i] = batches[i]
  <2>1. batches \in Seq([key : Keys, payload : Payloads, at : Hours])
    BY DEF TypeOK
  <2> HIDE DEF b
  <2> QED
    BY <1>2, <2>1
<1>5. \A i \in 1..n : i = n \/ i \in 1..Len(batches)
  BY <1>3
<1>6. /\ \A p \in Requests : p # r => request'[p] = request[p]
      /\ request'[r].pc = "record" /\ request'[r].batch = n
      /\ request'[r].key = k /\ request'[r].payload = request[r].payload
  BY <1>2, <1>3 DEF RequestRecords
<1>7. b.key = k /\ b.payload = request[r].payload /\ b.at = now
  OBVIOUS
<1> HIDE DEF n, k, b
<1>8. BatchesFit'
  <2>1. \A p \in Requests : AnswerFits(request[p])'
    <3> SUFFICES ASSUME NEW p \in Requests, request'[p].batch # 0
                 PROVE  /\ batches'[request'[p].batch].key = request'[p].key
                        /\ batches'[request'[p].batch].payload = request'[p].payload
      BY DEF AnswerFits
    <3>1. CASE p = r
      BY <1>4, <1>6, <1>7, <3>1
    <3>2. CASE p # r
      BY <1>1, <1>3, <1>4, <1>6, <3>2 DEF BatchesFit, AnswerFits
    <3> QED
      BY <3>1, <3>2
  <2>2. \A c \in Keys : record'[c] # NoRecord =>
          batches'[record'[c].batch].key = c /\ batches'[record'[c].batch].payload = record'[c].payload
    BY <1>1, <1>2, <1>3, <1>4 DEF BatchesFit
  <2> QED
    BY <2>1, <2>2 DEF BatchesFit
<1>9. Dated'
  <2>1. \A i \in 1..n : batches'[i].at <= now
    BY <1>1, <1>4, <1>5, <1>7, BatchesExist DEF Dated
  <2> QED
    BY <1>1, <1>2, <1>4, <2>1 DEF Dated
<1>10. OneUser'
  <2>1. \A p \in Requests, c \in Keys : UsesKey(p, c)' => UsesKey(p, c)
    BY <1>2, <1>6 DEF UsesKey, InProgress, k
  <2> QED
    BY <1>1, <1>2, <2>1 DEF OneUser
<1>11. Unrecorded'
  BY <1>1, <1>2, <1>6 DEF Unrecorded, Handling
<1>12. AllRemembered'
  <2> SUFFICES ASSUME NEW i \in 1..n, batches'[i].key \notin contested PROVE Remembered(i)'
    BY <1>2, <1>4 DEF AllRemembered
  <2>1. CASE i = n
    BY <1>6, <2>1 DEF Remembered, At
  <2>2. CASE i \in 1..Len(batches)
    <3>1. Remembered(i)
      BY <1>1, <1>4, <2>2 DEF AllRemembered
    <3>2. \A p \in Requests : At(p, "record") => request'[p] = request[p]
      BY <1>2, <1>6 DEF At
    <3> QED
      BY <1>2, <1>4, <2>2, <3>1, <3>2 DEF Remembered, At
  <2> QED
    BY <1>5, <2>1, <2>2
<1>13. ASSUME NEW i \in 1..Len(batches), batches[i].key = k, k \notin contested
       PROVE  batches[i].at + RecordHours <= now
  <2>1. Remembered(i) /\ record[k] = NoRecord
    BY <1>1, <1>2, <1>3, <1>13 DEF AllRemembered, Unrecorded, Handling, k
  <2>2. ASSUME NEW p \in Requests, At(p, "record"), request[p].batch = i PROVE FALSE
    <3>1. request[p].key = k
      BY <1>1, <1>13, <2>2, BatchesExist DEF BatchesFit, AnswerFits
    <3>2. UsesKey(p, k) /\ UsesKey(r, k) /\ p # r
      BY <1>2, <2>2, <3>1 DEF UsesKey, InProgress, At, k
    <3> QED
      BY <1>1, <1>3, <1>13, <3>2 DEF OneUser
  <2> QED
    BY <1>13, <2>1, <2>2 DEF Remembered
<1>14. NoDoubles'
  <2> SUFFICES ASSUME NEW i \in 1..n, NEW j \in 1..n, i < j, batches'[i].key = batches'[j].key,
                      batches'[i].key \in Keys \ contested
               PROVE  ~(batches'[j].at < batches'[i].at + RecordHours)
    BY <1>2, <1>4, NoDoublesMeans
  <2>1. i \in 1..Len(batches)
    BY <1>3, <1>5 DEF n
  <2>2. CASE j = n
    <3>1. batches[i].key = k /\ batches'[j].at = now /\ batches'[i] = batches[i]
      BY <1>4, <1>7, <2>1, <2>2
    <3>2. batches[i].at + RecordHours <= now
      BY <1>13, <2>1, <3>1
    <3> QED
      BY <2>1, <3>1, <3>2, BatchesExist
  <2>3. CASE j \in 1..Len(batches)
    BY <1>1, <1>4, <2>1, <2>3, NoDoublesMeans
  <2> QED
    BY <1>5, <2>2, <2>3
<1> QED
  BY <1>8, <1>9, <1>10, <1>11, <1>12, <1>14 DEF KeyInv, NoDoubles

LEMMA RecordKeys ==
  ASSUME TypeOK, RequestSteps, KeyInv, NEW r \in Requests, Record(r)
  PROVE  KeyInv'
<1>1. BatchesFit /\ Dated /\ OneUser /\ Unrecorded /\ AllRemembered /\ NoDoubles
  BY DEF KeyInv, NoDoubles
<1> DEFINE k == request[r].key
           s == [batch |-> request[r].batch, payload |-> request[r].payload, at |-> now]
<1>2. /\ UNCHANGED <<now, batches, contested>> /\ record' = [record EXCEPT ![k] = s]
      /\ request[r].pc = "record" /\ request' = [request EXCEPT ![r].pc = "done"]
  BY DEF Record, At, Goto
<1>3. /\ request \in [Requests -> RequestRecords(Len(batches))] /\ k \in Keys /\ s.batch # 0
      /\ record \in [Keys -> Stored(Len(batches)) \cup {NoRecord}]
  BY <1>2, TypeParts DEF RequestSteps, StepFits, RestTyped
<1>4. /\ \A p \in Requests : p # r => request'[p] = request[p]
      /\ request'[r].pc = "done" /\ request'[r].batch = s.batch
      /\ request'[r].key = k /\ request'[r].payload = s.payload
  BY <1>2, <1>3 DEF RequestRecords
<1>5. s # NoRecord /\ s.batch = request[r].batch /\ s.payload = request[r].payload /\ s.at = now
  BY <1>3 DEF NoRecord
<1> HIDE DEF s
<1>6. record'[k] = s /\ \A c \in Keys : c # k => record'[c] = record[c]
  BY <1>2, <1>3
<1>7. batches[s.batch].key = k /\ batches[s.batch].payload = s.payload
  BY <1>1, <1>3, <1>5 DEF BatchesFit, AnswerFits
<1> HIDE DEF k
<1>8. BatchesFit'
  <2>1. \A p \in Requests : AnswerFits(request[p])'
    BY <1>1, <1>2, <1>4, <1>7 DEF BatchesFit, AnswerFits
  <2>2. \A c \in Keys : record'[c] # NoRecord =>
          batches'[record'[c].batch].key = c /\ batches'[record'[c].batch].payload = record'[c].payload
    BY <1>1, <1>2, <1>6, <1>7 DEF BatchesFit
  <2> QED
    BY <2>1, <2>2 DEF BatchesFit
<1>9. Dated'
  BY <1>1, <1>2, <1>5, <1>6, BatchesExist DEF Dated
<1>10. \A p \in Requests, c \in Keys : UsesKey(p, c)' => UsesKey(p, c) /\ p # r
  BY <1>4 DEF UsesKey, InProgress
<1>11. OneUser'
  BY <1>1, <1>2, <1>10 DEF OneUser
<1>12. Unrecorded'
  <2> SUFFICES ASSUME NEW p \in Requests, request'[p].pc \in Handling, request'[p].key \in Keys \ contested
               PROVE  record'[request'[p].key] = NoRecord
    BY <1>2 DEF Unrecorded
  <2>1. p # r /\ request'[p] = request[p] /\ UsesKey(p, request[p].key) /\ UsesKey(r, k)
    BY <1>2, <1>4 DEF Handling, UsesKey, InProgress, k
  <2>2. request[p].key # k
    BY <1>1, <1>3, <2>1 DEF OneUser
  <2> QED
    BY <1>1, <1>6, <2>1, <2>2 DEF Unrecorded
<1>13. AllRemembered'
  <2> SUFFICES ASSUME NEW i \in 1..Len(batches), batches[i].key \notin contested PROVE Remembered(i)'
    BY <1>2 DEF AllRemembered
  <2>1. Remembered(i) /\ batches[i].at <= now /\ batches[i].key \in Keys
    BY <1>1, BatchesExist DEF AllRemembered, Dated
  <2>2. CASE batches[i].key = k
    BY <1>2, <1>5, <1>6, <2>1, <2>2 DEF Remembered
  <2>3. CASE batches[i].key # k
    <3>1. ASSUME NEW p \in Requests, At(p, "record"), request[p].batch = i PROVE p # r
      BY <1>5, <1>7, <2>3, <3>1
    <3> QED
      BY <1>2, <1>4, <1>6, <2>1, <2>3, <3>1 DEF Remembered, At
  <2> QED
    BY <2>2, <2>3
<1>14. NoDoubles'
  BY <1>1, <1>2, NoDoublesMeans
<1> QED
  BY <1>8, <1>9, <1>11, <1>12, <1>13, <1>14 DEF KeyInv, NoDoubles

LEMMA ClockKeys ==
  ASSUME TypeOK, KeyInv, Tick \/ ExpireRate \/ UNCHANGED vars
  PROVE  KeyInv'
<1>1. BatchesFit /\ Dated /\ OneUser /\ Unrecorded /\ AllRemembered /\ NoDoubles
  BY DEF KeyInv, NoDoubles
<1>2. UNCHANGED <<request, batches, contested>>
  BY DEF Tick, ExpireRate, vars
<1>3. /\ now' \in Nat /\ now <= now'
      /\ \A k \in Keys : \/ record'[k] = record[k]
                         \/ record'[k] = NoRecord /\ record[k].at + RecordHours <= now'
  <2>1. record = [k \in Keys |-> record[k]]
    BY TypeParts DEF RestTyped
  <2>2. CASE Tick
    BY <2>2, BatchesExist DEF Tick
  <2>3. CASE UNCHANGED <<now, record>>
    BY <2>3, BatchesExist
  <2> QED
    BY <2>2, <2>3 DEF Tick, ExpireRate, vars
<1>4. BatchesFit'
  BY <1>1, <1>2, <1>3 DEF BatchesFit, AnswerFits
<1>5. Dated'
  <2>1. \A k \in Keys : record'[k].at <= now'
    BY <1>1, <1>3, BatchesExist DEF Dated, NoRecord
  <2> QED
    BY <1>1, <1>2, <1>3, <2>1, BatchesExist DEF Dated
<1>6. OneUser'
  BY <1>1, <1>2 DEF OneUser, UsesKey, InProgress
<1>7. Unrecorded'
  BY <1>1, <1>2, <1>3 DEF Unrecorded
<1>8. AllRemembered'
  <2> SUFFICES ASSUME NEW i \in 1..Len(batches), batches[i].key \notin contested PROVE Remembered(i)'
    BY <1>2 DEF AllRemembered
  <2>1. Remembered(i) /\ batches[i].key \in Keys /\ batches[i].at \in Nat
    BY <1>1, BatchesExist DEF AllRemembered
  <2>2. CASE batches[i].at + RecordHours <= now
    BY <1>2, <1>3, <2>1, <2>2, BatchesExist DEF Remembered
  <2>3. CASE \E r \in Requests : At(r, "record") /\ request[r].batch = i
    BY <1>2, <2>3 DEF Remembered, At
  <2>4. CASE record[batches[i].key] # NoRecord /\ batches[i].at <= record[batches[i].key].at
    BY <1>2, <1>3, <2>1, <2>4, BatchesExist DEF Remembered
  <2> QED
    BY <2>1, <2>2, <2>3, <2>4 DEF Remembered
<1>9. NoDoubles'
  BY <1>1, <1>2, NoDoublesMeans
<1> QED
  BY <1>4, <1>5, <1>6, <1>7, <1>8, <1>9 DEF KeyInv, NoDoubles

LEMMA NextKeys ==
  ASSUME TypeOK, RequestSteps, KeyInv, [Next]_vars
  PROVE  KeyInv'
<1>1. CASE Tick \/ ExpireRate \/ UNCHANGED vars
  BY <1>1, ClockKeys
<1>2. ASSUME NEW r \in Requests, NEW key \in Keys \cup {NoKey}, NEW payload \in Payloads, Send(r, key, payload)
      PROVE  KeyInv'
  BY <1>2, SendKeys
<1>3. ASSUME NEW r \in Requests,
             \/ SetTTL(r) \/ Lookup(r) \/ CheckEntitled(r) \/ ReadQuota(r)
             \/ CountUpload(r) \/ OpenWindow(r) \/ Cancel(r)
      PROVE  KeyInv'
  BY <1>3, StepPasses, PassKeys DEF KeyInv
<1>4. ASSUME NEW r \in Requests, Create(r) PROVE KeyInv'
  BY <1>4, StepPasses, PassKeys, CreateKeys DEF KeyInv
<1>5. ASSUME NEW r \in Requests, Record(r) PROVE KeyInv'
  BY <1>5, RecordKeys
<1> QED
  BY <1>1, <1>2, <1>3, <1>4, <1>5 DEF Next

----------------------------------------------------------------------------
(* The daily quota                                                         *)

\* Quota rows, and where a request that waits to write one stands.
LEMMA QuotaTypes ==
  ASSUME TypeOK, RequestSteps
  PROVE  /\ \A i \in Rows : i \in QuotaIds /\ i \in Nat /\ usage[i].start \in Midnights /\ usage[i].count \in 1..holdingsDailyLimit
         /\ \A r \in Requests : request[r].day \in Midnights
         /\ \A r \in Requests : request[r].pc = "count" => request[r].row \in Rows /\ request[r].seen \in Nat
         /\ Midnights \subseteq Nat /\ now \in Hours /\ now \in Nat /\ WindowHours \in Nat /\ WindowHours > 0
         /\ through \in [Midnights -> Nat]
         /\ usage \in [QuotaIds -> [start : Midnights, count : 1..holdingsDailyLimit] \cup {NoUsage}]
<1>1. RestTyped /\ request \in [Requests -> RequestRecords(Len(batches))]
  BY TypeParts
<1>2. \A i \in Rows : i \in QuotaIds /\ usage[i] \in [start : Midnights, count : 1..holdingsDailyLimit]
  BY <1>1 DEF RestTyped, Rows
<1>3. QuotaIds \subseteq Nat /\ Midnights \subseteq Nat /\ WindowHours \in Nat /\ WindowHours > 0 /\ holdingsDailyLimit \in Nat
  BY DaysAssumption
<1>4. \A r \in Requests : request[r].day \in Midnights /\ request[r].seen \in Nat
  BY <1>1, <1>3 DEF RequestRecords
<1>5. \A r \in Requests : request[r].pc = "count" => request[r].row \in Rows
  BY DEF RequestSteps, StepFits
<1>6. now \in Hours /\ now \in Nat
  BY <1>1, BatchesExist DEF RestTyped
<1> QED
  BY <1>1, <1>2, <1>3, <1>4, <1>5, <1>6 DEF RestTyped

\* Where there are rows, one of them is the latest.
LEMMA LatestExists ==
  ASSUME TypeOK, RequestSteps, \A i \in Rows : usage[i].start <= now, NEW j \in Rows
  PROVE  \E i \in Latest : usage[j].start <= usage[i].start
<1> DEFINE Starts == {usage[i].start : i \in Rows}
           s == Max(Starts)
           Ids == {i \in Rows : usage[i].start = s}
<1>1. Starts \subseteq Nat /\ Starts # {} /\ \A x \in Starts : x <= now
  BY QuotaTypes
<1>2. s \in Starts /\ \A x \in Starts : x <= s
  <2> HIDE DEF Starts
  <2> QED
    BY <1>1, MaxIsGreatest, QuotaTypes
<1> HIDE DEF s
<1>3. Ids \subseteq Nat /\ Ids # {}
  BY <1>2, QuotaTypes
<1>4. PICK i \in Ids : \A x \in Ids : i <= x
  <2> HIDE DEF Ids
  <2> QED
    BY <1>3, LeastExists
<1>5. \A x \in Rows : usage[x].start <= usage[i].start /\ (usage[x].start = usage[i].start => i <= x)
  BY <1>2, <1>4
<1>6. i \in Latest
  BY <1>4, <1>5, QuotaTypes DEF Latest
<1> QED
  BY <1>5, <1>6

LEMMA ReadWindow ==
  ASSUME TypeOK, RequestSteps, QuotaInv, NEW r \in Requests, ReadQuota(r)
  PROVE  QuotaInv'
<1> SUFFICES ASSUME ~raced' PROVE OneCheck' /\ OneWindow'
  BY DEF QuotaInv
<1>1. /\ ~raced /\ \A q \in Requests : ~Counting(q)
      /\ OneCheck /\ OneWindow
  BY DEF ReadQuota, QuotaInv, Counting
<1>2. UNCHANGED <<now, usage, through>> /\ Rows' = Rows
  BY DEF ReadQuota, Rows
<1> DEFINE d == DayOf(now)
<1>3. d \in Midnights /\ d \in Nat /\ d <= now /\ \A m \in Midnights : m <= now => m <= d
  BY QuotaTypes, DayFacts
<1> HIDE DEF d
<1>4. request \in [Requests -> RequestRecords(Len(batches))]
  BY TypeParts
<1>5. \A i \in Rows : usage[i].start <= d
  BY <1>1, <1>3, QuotaTypes DEF OneCheck
<1>6. /\ \A p \in Requests : p # r => request'[p] = request[p]
      /\ \/ request'[r].pc = "done"
         \/ request'[r].pc = "open" /\ request'[r].day = d /\ \A i \in Latest : ~Open(usage[i])
         \/ \E i \in Latest : /\ Open(usage[i]) /\ request'[r].pc = "count" /\ request'[r].day = d
                              /\ request'[r].row = i /\ request'[r].seen = usage[i].count
  <2>1. \/ Finish(r)
        \/ request' = [request EXCEPT ![r] = Told(@, "open", d, 0, 0)] /\ \A i \in Latest : ~Open(usage[i])
        \/ \E i \in Latest : Open(usage[i]) /\ request' = [request EXCEPT ![r] = Told(@, "count", d, i, usage[i].count)]
    BY DEF ReadQuota, d
  <2>2. CASE Finish(r)
    BY <1>4, <2>2 DEF Finish, Idle
  <2>3. CASE request' = [request EXCEPT ![r] = Told(@, "open", d, 0, 0)] /\ \A i \in Latest : ~Open(usage[i])
    BY <1>4, <2>3 DEF Told
  <2>4. CASE \E i \in Latest : Open(usage[i]) /\ request' = [request EXCEPT ![r] = Told(@, "count", d, i, usage[i].count)]
    BY <1>4, <2>4 DEF Told
  <2> QED
    BY <2>1, <2>2, <2>3, <2>4
<1>7. \A p \in Requests : Counting(p)' => p = r /\ request'[r].day = d
  BY <1>1, <1>6 DEF Counting
<1>8. OneCheck'
  BY <1>1, <1>2, <1>3, <1>5, <1>7 DEF OneCheck
<1>9. ASSUME d \in RegularDays, \A i \in Latest : ~Open(usage[i]), NEW j \in Rows, usage[j].start = d
      PROVE  FALSE
  <2>1. PICK i \in Latest : d <= usage[i].start
    BY <1>1, <1>9, LatestExists DEF OneCheck
  <2>2. i \in Rows /\ usage[i].start = d
    <3>1. i \in Rows
      BY DEF Latest
    <3>2. usage[i].start <= d /\ usage[i].start \in Nat
      BY <1>5, <3>1, QuotaTypes
    <3> QED
      BY <1>3, <2>1, <3>1, <3>2
  <2>3. d + WindowHours <= now
    BY <1>3, <1>9, <2>1, <2>2, QuotaTypes DEF Open
  <2>4. d + WindowHours \in Midnights
    BY <1>9, RegularFacts
  <2> QED
    BY <1>3, <2>3, <2>4, QuotaTypes
<1>10. ASSUME NEW i \in Latest, Open(usage[i]), d \in RegularDays \/ usage[i].start \in RegularDays
       PROVE  usage[i].start = d
  <2> DEFINE s == usage[i].start
  <2>1. s \in Midnights /\ s \in Nat /\ s <= d /\ now < s + WindowHours
    BY <1>5, <1>10, QuotaTypes DEF Latest, Open
  <2> HIDE DEF s
  <2>2. CASE d \in RegularDays
    BY <1>3, <2>1, <2>2, RegularFacts, QuotaTypes DEF s
  <2>3. CASE s \in RegularDays
    <3>1. d > s => s + WindowHours <= d
      BY <1>3, <2>3, RegularFacts
    <3>2. s = d
      BY <1>3, <2>1, <3>1, QuotaTypes
    <3> QED
      BY <3>2 DEF s
  <2> QED
    BY <1>10, <2>2, <2>3 DEF s
<1>11. \A p \in Requests : request'[p].pc = "open" /\ request'[p].day \in RegularDays =>
         \A i \in Rows : usage[i].start # request'[p].day
  BY <1>6, <1>7, <1>9 DEF Counting
<1>12. \A p \in Requests : request'[p].pc = "count" =>
         /\ request'[p].seen = usage[request'[p].row].count
         /\ request'[p].day \in RegularDays \/ usage[request'[p].row].start \in RegularDays =>
              usage[request'[p].row].start = request'[p].day
  <2> SUFFICES ASSUME NEW p \in Requests, request'[p].pc = "count"
               PROVE  /\ request'[p].seen = usage[request'[p].row].count
                      /\ request'[p].day \in RegularDays \/ usage[request'[p].row].start \in RegularDays =>
                           usage[request'[p].row].start = request'[p].day
    OBVIOUS
  <2>1. p = r
    BY <1>7 DEF Counting
  <2>2. PICK i \in Latest : /\ Open(usage[i]) /\ request'[r].day = d
                            /\ request'[r].row = i /\ request'[r].seen = usage[i].count
    BY <1>6, <2>1
  <2> QED
    BY <1>10, <2>1, <2>2
<1>13. OneWindow'
  BY <1>1, <1>2, <1>11, <1>12 DEF OneWindow
<1> QED
  BY <1>8, <1>13

LEMMA CountWindow ==
  ASSUME TypeOK, RequestSteps, QuotaInv, NEW r \in Requests, CountUpload(r)
  PROVE  QuotaInv'
<1> SUFFICES ASSUME ~raced' PROVE OneCheck' /\ OneWindow'
  BY DEF QuotaInv
<1> DEFINE i == request[r].row
           d == request[r].day
           n == request[r].seen + 1
<1>1. /\ OneCheck /\ OneWindow /\ request[r].pc = "count" /\ now' = now
      /\ usage' = [usage EXCEPT ![i].count = n] /\ through' = [through EXCEPT ![d] = @ + 1]
      /\ request' = [request EXCEPT ![r] = Told(@, "create", 0, 0, 0)]
  BY DEF CountUpload, LetThrough, QuotaInv, At
<1>2. /\ i \in Rows /\ i \in QuotaIds /\ d \in Midnights /\ n \in Nat /\ n > 0
      /\ request \in [Requests -> RequestRecords(Len(batches))]
  BY <1>1, QuotaTypes, TypeParts
<1>3. /\ n = usage[i].count + 1
      /\ d \in RegularDays \/ usage[i].start \in RegularDays => usage[i].start = d
  BY <1>1 DEF OneWindow
<1> HIDE DEF i, d, n
<1>4. /\ usage'[i].start = usage[i].start /\ usage'[i].count = n
      /\ \A j \in QuotaIds : j # i => usage'[j] = usage[j]
  <2>1. usage[i] \in [start : Midnights, count : 1..holdingsDailyLimit]
    BY <1>2, QuotaTypes DEF Rows
  <2> QED
    BY <1>1, <1>2, <2>1, QuotaTypes
<1>5. Rows' = Rows
  <2>1. usage'[i] # NoUsage
    BY <1>2, <1>4 DEF NoUsage
  <2> QED
    BY <1>2, <1>4, <2>1 DEF Rows
<1>6. \A j \in Rows : usage'[j].start = usage[j].start /\ (j # i => usage'[j].count = usage[j].count)
  BY <1>4, QuotaTypes
<1>7. \A p \in Requests : ~Counting(p)'
  <2>1. \A p \in Requests : p # r => request'[p] = request[p] /\ ~Counting(p)
    BY <1>1, <1>2 DEF OneCheck, Counting
  <2>2. request'[r].pc = "create"
    BY <1>1, <1>2 DEF Told
  <2> QED
    BY <2>1, <2>2 DEF Counting
<1>8. OneCheck'
  BY <1>1, <1>5, <1>6, <1>7 DEF OneCheck
<1>9. /\ \A m \in Midnights : m # d => through'[m] = through[m]
      /\ through'[d] = through[d] + 1
  BY <1>1, <1>2, QuotaTypes
<1>10. \A m \in RegularDays : m \in Midnights
  BY RegularFacts
<1>11. \A m \in RegularDays : \A j, k \in Rows : usage'[j].start = m /\ usage'[k].start = m => j = k
  BY <1>1, <1>6 DEF OneWindow
<1>12. \A m \in RegularDays : \A j \in Rows : usage'[j].start = m => through'[m] = usage'[j].count
  <2> SUFFICES ASSUME NEW m \in RegularDays, NEW j \in Rows, usage[j].start = m
               PROVE  through'[m] = usage'[j].count
    BY <1>6
  <2>1. through[m] = usage[j].count
    BY <1>1 DEF OneWindow
  <2>2. CASE j = i
    BY <1>3, <1>4, <1>9, <2>1, <2>2
  <2>3. CASE j # i
    <3>1. m # d
      BY <1>1, <1>2, <1>3, <2>3 DEF OneWindow
    <3> QED
      BY <1>6, <1>9, <1>10, <2>1, <2>3, <3>1
  <2> QED
    BY <2>2, <2>3
<1>13. \A m \in RegularDays : (\A j \in Rows : usage'[j].start # m) => through'[m] = 0
  <2> SUFFICES ASSUME NEW m \in RegularDays, \A j \in Rows : usage[j].start # m PROVE through'[m] = 0
    BY <1>6
  <2>1. through[m] = 0 /\ m # d
    BY <1>1, <1>2, <1>3 DEF OneWindow
  <2> QED
    BY <1>9, <1>10, <2>1
<1>14. OneWindow'
  BY <1>5, <1>7, <1>11, <1>12, <1>13 DEF OneWindow, Counting
<1> QED
  BY <1>8, <1>14

LEMMA OpenedWindow ==
  ASSUME TypeOK, RequestSteps, QuotaInv, NEW r \in Requests, OpenWindow(r)
  PROVE  QuotaInv'
<1> SUFFICES ASSUME ~raced' PROVE OneCheck' /\ OneWindow'
  BY DEF QuotaInv
<1> DEFINE d == request[r].day
<1>1. PICK i \in QuotaIds \ Rows : usage' = [usage EXCEPT ![i] = [start |-> d, count |-> 1]]
  BY DEF OpenWindow
<1>2. /\ OneCheck /\ OneWindow /\ request[r].pc = "open" /\ now' = now
      /\ through' = [through EXCEPT ![d] = @ + 1]
      /\ request' = [request EXCEPT ![r] = Told(@, "create", 0, 0, 0)]
  BY DEF OpenWindow, LetThrough, QuotaInv, At
<1>3. /\ d \in Midnights /\ d <= now /\ (d \in RegularDays => \A j \in Rows : usage[j].start # d)
      /\ request \in [Requests -> RequestRecords(Len(batches))]
  BY <1>2, QuotaTypes, TypeParts DEF OneCheck, OneWindow, Counting
<1> HIDE DEF d
<1>4. /\ usage'[i].start = d /\ usage'[i].count = 1
      /\ \A j \in QuotaIds : j # i => usage'[j] = usage[j]
  BY <1>1, QuotaTypes
<1>5. Rows' = Rows \cup {i} /\ i \notin Rows
  <2>1. usage'[i] # NoUsage
    BY <1>4 DEF NoUsage
  <2> QED
    BY <1>1, <1>4, <2>1 DEF Rows
<1>6. \A j \in Rows : usage'[j] = usage[j] /\ j # i
  BY <1>4, <1>5, QuotaTypes
<1>7. \A p \in Requests : ~Counting(p)'
  <2>1. \A p \in Requests : p # r => request'[p] = request[p] /\ ~Counting(p)
    BY <1>2, <1>3 DEF OneCheck, Counting
  <2>2. request'[r].pc = "create"
    BY <1>2, <1>3 DEF Told
  <2> QED
    BY <2>1, <2>2 DEF Counting
<1>8. OneCheck'
  BY <1>2, <1>3, <1>4, <1>5, <1>6, <1>7 DEF OneCheck
<1>9. /\ \A m \in Midnights : m # d => through'[m] = through[m]
      /\ through'[d] = through[d] + 1
  BY <1>2, <1>3, QuotaTypes
<1>10. \A m \in RegularDays : m \in Midnights
  BY RegularFacts
<1>11. \A m \in RegularDays : \A j, k \in Rows' : usage'[j].start = m /\ usage'[k].start = m => j = k
  BY <1>2, <1>3, <1>4, <1>5, <1>6 DEF OneWindow
<1>12. \A m \in RegularDays : \A j \in Rows' : usage'[j].start = m => through'[m] = usage'[j].count
  <2> SUFFICES ASSUME NEW m \in RegularDays, NEW j \in Rows', usage'[j].start = m
               PROVE  through'[m] = usage'[j].count
    OBVIOUS
  <2>1. CASE j = i
    <3>1. m = d /\ through[d] = 0
      BY <1>2, <1>3, <1>4, <2>1 DEF OneWindow
    <3> QED
      BY <1>4, <1>9, <2>1, <3>1
  <2>2. CASE j # i
    <3>1. j \in Rows /\ usage[j].start = m /\ m # d /\ usage'[j].count = usage[j].count
      BY <1>3, <1>5, <1>6, <2>2
    <3> QED
      BY <1>2, <1>9, <1>10, <3>1 DEF OneWindow
  <2> QED
    BY <2>1, <2>2
<1>13. \A m \in RegularDays : (\A j \in Rows' : usage'[j].start # m) => through'[m] = 0
  BY <1>2, <1>4, <1>5, <1>6, <1>9, <1>10 DEF OneWindow
<1>14. OneWindow'
  BY <1>7, <1>11, <1>12, <1>13 DEF OneWindow, Counting
<1> QED
  BY <1>8, <1>14

\* The other steps neither begin a check nor write the quota.
LEMMA QuotaFrame ==
  ASSUME TypeOK, RequestSteps, QuotaInv, UNCHANGED <<usage, through, raced>>, now <= now', now' \in Nat,
         \A p \in Requests : Counting(p)' => request'[p] = request[p]
  PROVE  QuotaInv'
<1> SUFFICES ASSUME ~raced' PROVE OneCheck' /\ OneWindow'
  BY DEF QuotaInv
<1>1. OneCheck /\ OneWindow /\ Rows' = Rows
  BY DEF QuotaInv, Rows
<1>2. \A p \in Requests : Counting(p)' => Counting(p) /\ request'[p] = request[p]
  BY DEF Counting
<1>3. OneCheck'
  <2>1. \A p, q \in Requests : Counting(p)' /\ Counting(q)' => p = q
    BY <1>1, <1>2 DEF OneCheck
  <2>2. \A i \in Rows : usage[i].start <= now'
    BY <1>1, QuotaTypes DEF OneCheck
  <2>3. \A p \in Requests : Counting(p)' =>
          request'[p].day <= now' /\ \A i \in Rows : usage[i].start <= request'[p].day
    BY <1>1, <1>2, QuotaTypes DEF OneCheck
  <2> QED
    BY <1>1, <2>1, <2>2, <2>3 DEF OneCheck
<1>4. OneWindow'
  BY <1>1, <1>2 DEF OneWindow, Counting
<1> QED
  BY <1>3, <1>4

LEMMA NextQuota ==
  ASSUME TypeOK, TypeOK', RequestSteps, KeyInv, QuotaInv, [Next]_vars
  PROVE  QuotaInv'
<1> USE DEF Counting
<1>1. request \in [Requests -> RequestRecords(Len(batches))] /\ now \in Nat /\ now' \in Nat
  BY TypeParts, QuotaTypes, DaysAssumption DEF RestTyped, Hours
<1>2. CASE Tick \/ ExpireRate \/ UNCHANGED vars
  <2>1. UNCHANGED <<usage, through, raced, request>> /\ now <= now'
    BY <1>1, <1>2 DEF Tick, ExpireRate, vars
  <2> QED
    BY <1>1, <2>1, QuotaFrame
<1>3. ASSUME NEW r \in Requests, NEW key \in Keys \cup {NoKey}, NEW payload \in Payloads, Send(r, key, payload)
      PROVE  QuotaInv'
  <2>1. UNCHANGED <<usage, through, raced, now>>
    BY <1>3 DEF Send
  <2>2. \A p \in Requests : p # r => request'[p] = request[p]
    BY <1>1, <1>3 DEF Send, Finish
  <2>3. request'[r].pc \notin {"count", "open"}
    <3>1. CASE Finish(r)
      BY <1>1, <3>1 DEF Finish, Idle
    <3> DEFINE pc == IF First(rate.count + 1) THEN "expire" ELSE Entry(key, payload)
    <3>2. CASE request' = [request EXCEPT ![r].pc = pc, ![r].key = key, ![r].payload = payload]
      <4>1. pc \in {"expire", "lookup", "check", "create"}
        BY DEF Entry
      <4> HIDE DEF pc
      <4> QED
        BY <1>1, <3>2, <4>1 DEF RequestRecords
    <3> QED
      BY <1>3, <3>1, <3>2 DEF Send
  <2> QED
    BY <1>1, <2>1, <2>2, <2>3, QuotaFrame
<1>4. ASSUME NEW r \in Requests, UNCHANGED <<usage, through, raced, now>>,
             \A p \in Requests : p # r => request'[p] = request[p],
             request'[r].pc \notin {"count", "open"}
      PROVE  QuotaInv'
  BY <1>1, <1>4, QuotaFrame
<1>5. ASSUME NEW r \in Requests, NEW pc, Goto(r, pc) \/ Finish(r), pc \notin {"count", "open"},
             UNCHANGED <<usage, through, raced, now>>
      PROVE  QuotaInv'
  <2>1. \A p \in Requests : p # r => request'[p] = request[p]
    BY <1>1, <1>5 DEF Goto, Finish
  <2>2. request'[r].pc \notin {"count", "open"}
    BY <1>1, <1>5 DEF Goto, Finish, Idle, RequestRecords
  <2> QED
    BY <1>4, <1>5, <2>1, <2>2
<1>6. ASSUME NEW r \in Requests, SetTTL(r) PROVE QuotaInv'
  <2>1. Entry(request[r].key, request[r].payload) \notin {"count", "open"}
    BY DEF Entry
  <2> QED
    BY <1>5, <1>6, <2>1 DEF SetTTL
<1>7. ASSUME NEW r \in Requests, Lookup(r) PROVE QuotaInv'
  <2>1. Entry(NoKey, request[r].payload) \notin {"count", "open"} /\ UNCHANGED <<usage, through, raced, now>>
    BY <1>7 DEF Entry, Lookup
  <2>2. CASE Finish(r) \/ Goto(r, Entry(NoKey, request[r].payload))
    BY <1>5, <2>1, <2>2
  <2>3. CASE request' = [request EXCEPT ![r].pc = "done", ![r].batch = record[request[r].key].batch]
    <3>1. \A p \in Requests : p # r => request'[p] = request[p]
      BY <1>1, <2>3
    <3>2. request'[r].pc = "done"
      BY <1>1, <2>3 DEF RequestRecords
    <3> QED
      BY <1>4, <2>1, <3>1, <3>2
  <2> QED
    BY <1>7, <2>2, <2>3 DEF Lookup
<1>8. ASSUME NEW r \in Requests, CheckEntitled(r) \/ Cancel(r) \/ Record(r) PROVE QuotaInv'
  BY <1>5, <1>8 DEF CheckEntitled, Cancel, Record
<1>9. ASSUME NEW r \in Requests, Create(r) PROVE QuotaInv'
  <2>1. CASE request[r].key = NoKey
    BY <1>5, <1>9, <2>1 DEF Create
  <2>2. CASE request[r].key # NoKey
    <3>1. request' = [request EXCEPT ![r].pc = "record", ![r].batch = Len(batches) + 1]
      BY <1>9, <2>2 DEF Create
    <3>2. \A p \in Requests : p # r => request'[p] = request[p]
      BY <1>1, <3>1
    <3>3. request'[r].pc = "record"
      BY <1>1, <3>1 DEF RequestRecords
    <3> QED
      BY <1>4, <1>9, <3>2, <3>3 DEF Create
  <2> QED
    BY <2>1, <2>2
<1> QED
  BY <1>2, <1>3, <1>6, <1>7, <1>8, <1>9, ReadWindow, CountWindow, OpenedWindow DEF Next

\* What the invariant says of a day is what the property says.
LEMMA QuotaKept ==
  ASSUME TypeOK, RequestSteps, QuotaInv
  PROVE  QuotaHolds
<1> SUFFICES ASSUME ~raced, NEW m \in RegularDays PROVE through[m] <= holdingsDailyLimit
  BY DEF QuotaHolds
<1>1. OneWindow
  BY DEF QuotaInv
<1>2. holdingsDailyLimit \in Nat
  BY DaysAssumption
<1>3. CASE \E i \in Rows : usage[i].start = m
  <2>1. PICK i \in Rows : usage[i].start = m /\ through[m] = usage[i].count
    BY <1>1, <1>3 DEF OneWindow
  <2> QED
    BY <1>2, <2>1, QuotaTypes
<1>4. CASE \A i \in Rows : usage[i].start # m
  BY <1>1, <1>2, <1>4 DEF OneWindow
<1> QED
  BY <1>3, <1>4

----------------------------------------------------------------------------
(* Refusals                                                                *)

LEMMA NextRefusals ==
  ASSUME TypeOK, TypeOK', RequestSteps, RefusalsEnd, [Next]_vars
  PROVE  RefusalsEnd'
<1>1. RestTyped /\ RestTyped' /\ request \in [Requests -> RequestRecords(Len(batches))]
  BY TypeParts
<1>2. /\ rate \in [count : Nat, ttl : BOOLEAN] /\ faults \in 0..MaxFaults /\ MaxFaults \in Nat
      /\ WriteLimit \in Nat \ {0}
  BY <1>1, DaysAssumption DEF RestTyped
<1>3. CASE Tick \/ UNCHANGED vars
  BY <1>3 DEF Tick, vars, RefusalsEnd, At
<1>4. CASE ExpireRate
  BY <1>4 DEF ExpireRate, RefusalsEnd
<1>5. ASSUME NEW r \in Requests, NEW key \in Keys \cup {NoKey}, NEW payload \in Payloads, Send(r, key, payload)
      PROVE  RefusalsEnd'
  <2>1. rate'.count = rate.count + 1 /\ rate'.ttl = rate.ttl /\ faults' = faults /\ request[r].pc = "new"
    BY <1>2, <1>5 DEF Send, At
  <2>2. \A p \in Requests : p # r => request'[p] = request[p]
    BY <1>1, <1>5 DEF Send, Finish
  <2>3. CASE rate.count > 0
    BY <2>1, <2>2, <2>3 DEF RefusalsEnd, At
  <2>4. CASE rate.count = 0
    <3>1. request' = [request EXCEPT ![r].pc = "expire", ![r].key = key, ![r].payload = payload]
      BY <1>2, <1>5, <2>4 DEF Send, First
    <3>2. At(r, "expire")'
      BY <1>1, <3>1 DEF At, RequestRecords
    <3> QED
      BY <3>2 DEF RefusalsEnd
  <2> QED
    BY <1>2, <2>3, <2>4
<1>6. ASSUME NEW r \in Requests, SetTTL(r) PROVE RefusalsEnd'
  BY <1>2, <1>6 DEF SetTTL, RefusalsEnd
<1>7. ASSUME NEW r \in Requests, Cancel(r) PROVE RefusalsEnd'
  BY <1>2, <1>7 DEF Cancel, RefusalsEnd
<1>8. ASSUME NEW r \in Requests,
             \/ Lookup(r) \/ CheckEntitled(r) \/ ReadQuota(r) \/ CountUpload(r)
             \/ OpenWindow(r) \/ Create(r) \/ Record(r)
      PROVE  RefusalsEnd'
  <2>1. UNCHANGED <<rate, faults>> /\ ~At(r, "expire")
    BY <1>8 DEF Lookup, CheckEntitled, ReadQuota, CountUpload, OpenWindow, LetThrough, Create, Record, At
  <2>2. \A p \in Requests : p # r => request'[p] = request[p]
    <3>1. \E q : request' = [request EXCEPT ![r] = q]
      BY <1>8 DEF Lookup, CheckEntitled, ReadQuota, CountUpload, OpenWindow, LetThrough, Create, Record, Goto, Finish
    <3> QED
      BY <1>1, <3>1
  <2> QED
    BY <2>1, <2>2 DEF RefusalsEnd, At
<1> QED
  BY <1>3, <1>4, <1>5, <1>6, <1>7, <1>8 DEF Next

----------------------------------------------------------------------------
(* Theorems                                                                *)

LEMMA InitGate == Init => GateInv
<1> SUFFICES ASSUME Init PROVE GateInv
  OBVIOUS
<1>1. TypeOK /\ RequestSteps
  BY InitTypes
<1>2. /\ batches = << >> /\ Len(batches) = 0 /\ contested = {}
      /\ \A r \in Requests : request[r].pc = "new" /\ request[r].batch = 0
      /\ \A k \in Keys : record[k] = NoRecord /\ record[k].at = 0
      /\ now = 0 /\ rate.count = 0
  BY DEF Init, Idle, NoRecord
<1>3. Rows = {} /\ \A m \in RegularDays : through[m] = 0
  BY RegularFacts DEF Init, Rows
<1>4. KeyInv
  <2>1. BatchesFit /\ Dated
    BY <1>2 DEF BatchesFit, AnswerFits, Dated
  <2>2. OneUser /\ Unrecorded /\ AllRemembered
    BY <1>2 DEF OneUser, UsesKey, InProgress, Unrecorded, AllRemembered
  <2>3. NoDoubles
    BY <1>2, NoDoublesMeans
  <2> QED
    BY <2>1, <2>2, <2>3 DEF KeyInv, NoDoubles
<1>5. QuotaInv
  BY <1>2, <1>3 DEF QuotaInv, OneCheck, OneWindow, Counting
<1>6. RefusalsEnd
  BY <1>2 DEF RefusalsEnd
<1> QED
  BY <1>1, <1>4, <1>5, <1>6 DEF GateInv

\* The invariant of the request gate: types, what each request holds, the
\* batches of each key, the windows of the quota and the rate counter.
THEOREM GateInvariant == Spec => []GateInv
<1>1. Init => GateInv
  BY InitGate
<1>2. GateInv /\ [Next]_vars => GateInv'
  BY NextTypes, NextKeys, NextQuota, NextRefusals DEF GateInv
<1> QED
  BY <1>1, <1>2, PTL DEF Spec

\* Nobody is answered with a batch made for another key or body, and a key
\* that no two requests used at once makes one batch within the life of its
\* record (withIdempotency around handleUploadBatchCreate).
THEOREM OneAnswerPerKey == Spec => []AnswersAgree
<1>1. GateInv => AnswersAgree
  BY DEF GateInv, KeyInv, BatchesFit, AnswerFits, AnswersAgree
<1> QED
  BY <1>1, GateInvariant, PTL

\* Of an ordinary day no more than holdingsDailyLimit requests are let
\* through while no two are checked at once, whatever the calendar, and a
\* refused user's counter ends (checkHoldingsQuota and withRateLimit).
THEOREM GateIsKept == Spec => []GateHolds
<1>1. GateInv => GateHolds
  BY QuotaKept DEF GateInv, GateHolds
<1> QED
  BY <1>1, GateInvariant, PTL
=============================================================================
