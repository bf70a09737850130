----------------------- MODULE QueueTransactionsProofs -----------------------
(***************************************************************************)
(* What the interleaved transactions of QueueTransactions keep, for every  *)
(* number of panel processes, phones, alarms, jobs and crashes: the types  *)
(* and the locks, that a job is published by one transaction only, that    *)
(* what a pump found is over when it sends, and that a cancelled job is    *)
(* not published.                                                          *)
(***************************************************************************)
EXTENDS QueueTransactions, WellFoundedInduction, TLAPS

-----------------------------------------------------------------------------
(* Functions on some of the ids. *)

Partial(S, T) == UNION {[D -> T] : D \in SUBSET S}

\* Putting a row into a function leaves its other rows.
LEMMA PutRow ==
  ASSUME NEW S, NEW T, NEW f \in Partial(S, T), NEW x \in S, NEW row \in T
  PROVE  /\ Put(f, x, row) \in Partial(S, T)
         /\ DOMAIN Put(f, x, row) = DOMAIN f \cup {x}
         /\ Put(f, x, row)[x] = row
         /\ \A z \in DOMAIN f \ {x} : Put(f, x, row)[z] = f[z]
<1>1. PICK D \in SUBSET S : f \in [D -> T]
  BY DEF Partial
<1>2. Put(f, x, row) \in [D \cup {x} -> T] /\ D \cup {x} \in SUBSET S
  BY <1>1 DEF Put
<1>3. Put(f, x, row) \in Partial(S, T)
  BY <1>2 DEF Partial
<1> QED
  BY <1>3 DEF Put

LEMMA NoneIsPartial ==
  ASSUME NEW S, NEW T
  PROVE  None \in Partial(S, T) /\ DOMAIN None = {}
BY DEF Partial, None

LEMMA OverPartial ==
  ASSUME NEW S, NEW T, NEW f \in Partial(S, T), NEW g \in Partial(S, T)
  PROVE  /\ Over(f, g) \in Partial(S, T)
         /\ DOMAIN Over(f, g) = DOMAIN f \cup DOMAIN g
         /\ \A z \in DOMAIN f : Over(f, g)[z] = f[z]
         /\ \A z \in DOMAIN g \ DOMAIN f : Over(f, g)[z] = g[z]
<1>1. PICK D \in SUBSET S : f \in [D -> T]
  BY DEF Partial
<1>2. PICK E \in SUBSET S : g \in [E -> T]
  BY DEF Partial
<1>3. Over(f, g) \in [D \cup E -> T] /\ D \cup E \in SUBSET S
  BY <1>1, <1>2 DEF Over
<1>4. Over(f, g) \in Partial(S, T)
  BY <1>3 DEF Partial
<1> QED
  BY <1>4 DEF Over

\* Own rows over all those of a table.
LEMMA OverTable ==
  ASSUME NEW S, NEW T, NEW U, T \subseteq U, NEW f \in Partial(S, T), NEW g \in [S -> U]
  PROVE  /\ Over(f, g) \in [S -> U]
         /\ \A z \in DOMAIN f : Over(f, g)[z] = f[z]
         /\ \A z \in S \ DOMAIN f : Over(f, g)[z] = g[z]
BY DEF Partial, Over

LEMMA RowOfPartial ==
  ASSUME NEW S, NEW T, NEW f \in Partial(S, T)
  PROVE  DOMAIN f \subseteq S /\ \A z \in DOMAIN f : f[z] \in T
BY DEF Partial

\* The least of some natural numbers is one of them.
LEMMA MinIsIn ==
  ASSUME NEW S \in SUBSET Nat, S # {}
  PROVE  Min(S) \in S
<1> DEFINE R == {p \in Nat \X Nat : p[1] < p[2]}
<1>1. IsWellFoundedOn(R, Nat)
  BY NatLessThanWellFounded DEF OpToRel
<1>2. PICK m \in S : \A j \in S : <<j, m>> \notin R
  <2> HIDE DEF R
  <2> QED
    BY <1>1, WFMin, Zenon
<1>3. ASSUME NEW j \in S PROVE m <= j
  <2>1. j \in Nat /\ m \in Nat /\ ~ (<<j, m>> \in R)
    BY <1>2
  <2> QED
    BY <2>1
<1> QED
  BY <1>3 DEF Min

\* The greatest of some numbers up to a bound is one of them, and none is above it.
LEMMA MaxIsIn ==
  ASSUME NEW n \in Nat, NEW S \in SUBSET (0..n), S # {}
  PROVE  Max(S) \in S /\ \A x \in S : x <= Max(S)
<1> DEFINE T == {n - x : x \in S}
           R == {p \in Nat \X Nat : p[1] < p[2]}
<1>1. T \subseteq Nat /\ T # {}
  <2>1. \A x \in S : n - x \in Nat
    OBVIOUS
  <2>2. PICK x \in S : TRUE
    OBVIOUS
  <2>3. n - x \in T
    OBVIOUS
  <2> QED
    BY <2>1, <2>3
<1>2. IsWellFoundedOn(R, Nat)
  BY NatLessThanWellFounded DEF OpToRel
<1>3. PICK m \in T : \A t \in T : <<t, m>> \notin R
  <2> HIDE DEF R, T
  <2> QED
    BY <1>1, <1>2, WFMin, Zenon
<1>4. PICK g \in S : m = n - g
  OBVIOUS
<1>5. ASSUME NEW x \in S PROVE g >= x
  <2>1. n - x \in T
    OBVIOUS
  <2>2. ~ (n - x < n - g)
    BY <1>1, <1>3, <1>4, <2>1
  <2> QED
    BY <2>2
<1> QED
  BY <1>5 DEF Max

-----------------------------------------------------------------------------
(* The invariant. *)

AlarmRows == [open : BOOLEAN, acked : BOOLEAN]
JobRows == [event : EventIds, phone : 1..Phones,
            status : {"queued", "sent", "done", "failed", "cancelled"}]

\* The steps of a transaction.
Places == {"idle", "finish", "flush", "scan", "lock", "pump", "ack", "read", "cancel", "commit"}

Transactions == [at : Places, events : Partial(EventIds, AlarmRows), jobs : Partial(JobIds, JobRows),
                 read : Partial(EventIds, BOOLEAN), held : SUBSET Rows, target : Nat,
                 todo : SUBSET JobIds, seen : SUBSET JobIds, rows : Partial(JobIds, JobRows),
                 sent : {0} \cup JobIds]

\* The committed rows and the counters are what they are.
Tables ==
  /\ db \in [events : [EventIds -> AlarmRows], jobs : [JobIds -> JobRows \cup {NoJob}]]
  /\ used \in [events : 0..MaxEvents, jobs : 0..MaxJobs]
  /\ out \subseteq JobIds /\ crashes \in 0..MaxCrashes

\* The job is committed, or the transaction has queued it itself.
Known(t, j) == db.jobs[j] # NoJob \/ j \in DOMAIN t.jobs

\* What a transaction is about to write exists.
AimsAtRows(t) ==
  /\ t.at = "finish" => t.target \in JobIds /\ Known(t, t.target)
  /\ t.at \in {"ack", "read"} => t.target \in EventIds
  /\ \A j \in t.todo : Known(t, j)

\* What it has written is locked, unless nobody else can see it; a job it queued is new.
WritesItsOwn(t) ==
  \A j \in DOMAIN t.jobs :
    /\ j <= used.jobs
    /\ JobRow(j) \in t.held \/ db.jobs[j] = NoJob
    /\ t.jobs[j].status = "queued" => db.jobs[j] = NoJob

\* What the pump has loaded is locked, and what it loaded is still so.
LoadedIsCurrent(t) ==
  \A j \in DOMAIN t.rows :
    /\ JobRow(j) \in t.held /\ Known(t, j)
    /\ j \notin DOMAIN t.jobs => t.rows[j] = db.jobs[j]

\* What it has published is what it will commit next.
SentIsWritten(t) ==
  t.sent # 0 => t.at = "commit" /\ t.sent \in DOMAIN t.jobs /\ t.jobs[t.sent].status = "sent"

Sound(t) ==
  /\ t \in Transactions
  /\ AimsAtRows(t) /\ WritesItsOwn(t) /\ LoadedIsCurrent(t) /\ SentIsWritten(t)

Apart(t, u) == t.held \cap u.held = {} /\ DOMAIN t.jobs \cap DOMAIN u.jobs = {}

\* Ids that were not given out are of no row.
FreshIds == \A j \in JobIds : j > used.jobs => db.jobs[j] = NoJob

Structure ==
  /\ Tables /\ FreshIds
  /\ tx \in [Procs -> Transactions]
  /\ \A p \in Procs : Sound(tx[p])
  /\ \A p, q \in Procs : p # q => Apart(tx[p], tx[q])

\* A job that is published is the open one of some transaction, or it has left the
\* queue for good.
Counted ==
  /\ published \in [JobIds -> 0..1]
  /\ \A p \in Procs : tx[p].sent # 0 => published[tx[p].sent] = 1
  /\ \A j \in JobIds :
       db.jobs[j].status \in {"none", "queued"} /\ (\A p \in Procs : tx[p].sent # j) => published[j] = 0

Inv == Structure /\ Counted

-----------------------------------------------------------------------------
(* What a transaction sees. *)

LEMMA Ids ==
  /\ EventIds \subseteq Nat /\ JobIds \subseteq Nat
  /\ MaxEvents \in Nat /\ MaxJobs \in Nat /\ Phones \in Nat \ {0}
  /\ \A j \in JobIds : j # 0
  /\ NoJob \notin JobRows
BY TransactionsAssumption DEF EventIds, JobIds, NoJob, JobRows

LEMMA RowsApart ==
  /\ \A j \in JobIds : JobRow(j) \in Rows
  /\ \A e \in EventIds : EventRow(e) \in Rows
  /\ \A i, j \in JobIds : JobRow(i) = JobRow(j) => i = j
  /\ \A e \in EventIds, j \in JobIds : EventRow(e) # JobRow(j)
BY DEF Rows, JobRow, EventRow

LEMMA Views ==
  ASSUME Tables, NEW t \in Transactions
  PROVE  /\ Events(t) \in [EventIds -> AlarmRows]
         /\ Jobs(t) \in [JobIds -> JobRows \cup {NoJob}]
         /\ DOMAIN t.jobs \subseteq JobIds
         /\ \A j \in DOMAIN t.jobs : Jobs(t)[j] = t.jobs[j] /\ t.jobs[j] \in JobRows
         /\ \A j \in JobIds \ DOMAIN t.jobs : Jobs(t)[j] = db.jobs[j]
         /\ \A j \in JobIds : Known(t, j) => Jobs(t)[j] \in JobRows
<1>1. /\ t.events \in Partial(EventIds, AlarmRows) /\ t.jobs \in Partial(JobIds, JobRows)
      /\ db.events \in [EventIds -> AlarmRows] /\ db.jobs \in [JobIds -> JobRows \cup {NoJob}]
  BY DEF Transactions, Tables
<1>2. Events(t) \in [EventIds -> AlarmRows]
  BY <1>1, OverTable DEF Events
<1>3. /\ Jobs(t) \in [JobIds -> JobRows \cup {NoJob}]
      /\ \A j \in DOMAIN t.jobs : Jobs(t)[j] = t.jobs[j]
      /\ \A j \in JobIds \ DOMAIN t.jobs : Jobs(t)[j] = db.jobs[j]
  <2>1. JobRows \subseteq JobRows \cup {NoJob}
    OBVIOUS
  <2> HIDE DEF JobRows, NoJob
  <2> DEFINE U == JobRows \cup {NoJob}
  <2> HIDE DEF U
  <2>2. JobRows \subseteq U /\ db.jobs \in [JobIds -> U]
    BY <1>1, <2>1 DEF U
  <2>3. Over(t.jobs, db.jobs) \in [JobIds -> U]
    BY <1>1, <2>2, OverTable
  <2>4. \A j \in DOMAIN t.jobs : Over(t.jobs, db.jobs)[j] = t.jobs[j]
    BY DEF Over
  <2>5. \A j \in JobIds \ DOMAIN t.jobs : Over(t.jobs, db.jobs)[j] = db.jobs[j]
    BY <1>1 DEF Over
  <2> QED
    BY <2>3, <2>4, <2>5 DEF Jobs, U
<1>4. DOMAIN t.jobs \subseteq JobIds /\ \A j \in DOMAIN t.jobs : t.jobs[j] \in JobRows
  BY <1>1, RowOfPartial
<1>5. ASSUME NEW j \in JobIds, Known(t, j) PROVE Jobs(t)[j] \in JobRows
  <2>1. CASE j \in DOMAIN t.jobs
    BY <2>1, <1>3, <1>4
  <2>2. CASE j \notin DOMAIN t.jobs
    BY <2>2, <1>1, <1>3, <1>5 DEF Known
  <2> QED
    BY <2>1, <2>2
<1> QED
  BY <1>2, <1>3, <1>4, <1>5

\* The rows of the pump, its own writes over them.
LEMMA LoadedRows ==
  ASSUME NEW t \in Transactions
  PROVE  /\ DOMAIN t.rows \subseteq JobIds
         /\ \A j \in DOMAIN t.rows : Loaded(t)[j] \in JobRows
         /\ \A j \in DOMAIN t.jobs : Loaded(t)[j] = t.jobs[j]
         /\ \A j \in DOMAIN t.rows \ DOMAIN t.jobs : Loaded(t)[j] = t.rows[j]
<1>1. t.jobs \in Partial(JobIds, JobRows) /\ t.rows \in Partial(JobIds, JobRows)
  BY DEF Transactions
<1>2. \A j \in DOMAIN t.jobs : Loaded(t)[j] = t.jobs[j]
  BY DEF Loaded, Over
<1>3. \A j \in DOMAIN t.rows \ DOMAIN t.jobs : Loaded(t)[j] = t.rows[j]
  BY DEF Loaded, Over
<1> QED
  BY <1>1, <1>2, <1>3, RowOfPartial

-----------------------------------------------------------------------------
(* What the parts of a transaction change of it. *)

\* Noting something in an alarm only adds to what was read.
LEMMA NotedReads ==
  ASSUME Tables, NEW t \in Transactions, NEW e \in EventIds
  PROVE  \E R \in Partial(EventIds, BOOLEAN) : Noted(t, e) = [t EXCEPT !.read = R]
<1>1. t.read \in Partial(EventIds, BOOLEAN)
  BY DEF Transactions
<1>2. Acked(t, e) \in BOOLEAN
  <2>1. CASE e \in DOMAIN t.read
    BY <2>1, <1>1, RowOfPartial DEF Acked
  <2>2. CASE e \notin DOMAIN t.read
    BY <2>2, Views DEF Acked, AlarmRows
  <2> QED
    BY <2>1, <2>2
<1>3. Put(t.read, e, Acked(t, e)) \in Partial(EventIds, BOOLEAN)
  BY <1>1, <1>2, PutRow
<1>4. Noted(t, e) = [t EXCEPT !.read = Put(t.read, e, Acked(t, e))]
  BY DEF Noted, Transactions
<1> QED
  BY <1>3, <1>4

\* A job beyond the limit is a row all the same.
LEMMA EnqueuedRow ==
  ASSUME NEW t, NEW e \in EventIds, NEW n \in 1..Phones
  PROVE  Enqueued(t, e, n) \in JobRows
<1>1. Queued(e, n) \in JobRows /\ [Queued(e, n) EXCEPT !.status = "failed"] \in JobRows
  BY DEF Queued, JobRows
<1> QED
  BY <1>1 DEF Enqueued

\* The escalation queues at most one job, with the next id.
LEMMA EscalatedQueues ==
  ASSUME Tables, NEW t \in Transactions, NEW j \in DOMAIN t.jobs
  PROVE  \/ Escalated(t, j) = t
         \/ /\ used.jobs + 1 \in JobIds
            /\ \E row \in JobRows : Escalated(t, j) = [t EXCEPT !.jobs = Put(t.jobs, used.jobs + 1, row)]
<1> DEFINE job == Jobs(t)[j]
           row == Enqueued(t, job.event, job.phone + 1)
<1>1. SUFFICES ASSUME Escalated(t, j) # t
               PROVE  /\ used.jobs + 1 \in JobIds /\ row \in JobRows
                      /\ Escalated(t, j) = [t EXCEPT !.jobs = Put(t.jobs, used.jobs + 1, row)]
  OBVIOUS
<1>2. job.phone < Phones /\ used.jobs + 1 <= MaxJobs
  BY <1>1 DEF Escalated
<1>3. Escalated(t, j) = [t EXCEPT !.jobs = Put(t.jobs, used.jobs + 1, row)]
  BY <1>1 DEF Escalated, Transactions
<1>4. job \in JobRows
  BY Views
<1>5. row \in JobRows
  <2>1. job.event \in EventIds /\ job.phone \in 1..Phones
    BY <1>4 DEF JobRows
  <2>2. job.phone + 1 \in 1..Phones
    BY <2>1, <1>2, Ids
  <2> QED
    BY <2>1, <2>2, EnqueuedRow
<1>6. used.jobs + 1 \in JobIds
  <2>1. used.jobs \in 0..MaxJobs
    BY DEF Tables
  <2> QED
    BY <2>1, <1>2, Ids DEF JobIds
<1> QED
  BY <1>3, <1>5, <1>6

\* J is the transaction's rows with the row j written, and at most a new job.
Writes(t, j, J) ==
  /\ J \in Partial(JobIds, JobRows)
  /\ DOMAIN t.jobs \subseteq DOMAIN J /\ j \in DOMAIN J
  /\ \A i \in DOMAIN J : i \in DOMAIN t.jobs \/ i = j \/ i > used.jobs
  /\ \A i \in DOMAIN t.jobs \ {j} : J[i] = t.jobs[i]

LEMMA EndedWrites ==
  ASSUME Tables, NEW t \in Transactions, NEW j \in JobIds, Known(t, j),
         \A i \in DOMAIN t.jobs \cup {j} : i <= used.jobs,
         NEW status \in {"done", "failed"}
  PROVE  \E J, R : /\ Ended(t, j, status) = [t EXCEPT !.jobs = J, !.read = R]
                   /\ R \in Partial(EventIds, BOOLEAN)
                   /\ Writes(t, j, J) /\ J[j].status = status
<1> DEFINE row == [Jobs(t)[j] EXCEPT !.status = status]
           K == Put(t.jobs, j, row)
           u == [t EXCEPT !.jobs = K]
           e == Jobs(t)[j].event
<1>1. Jobs(t)[j] \in JobRows
  BY Views
<1>2. row \in JobRows /\ row.status = status /\ e \in EventIds
  BY <1>1 DEF JobRows
<1>3. /\ K \in Partial(JobIds, JobRows) /\ DOMAIN K = DOMAIN t.jobs \cup {j} /\ K[j] = row
      /\ \A i \in DOMAIN t.jobs \ {j} : K[i] = t.jobs[i]
  <2>1. t.jobs \in Partial(JobIds, JobRows)
    BY DEF Transactions
  <2>2. K \in Partial(JobIds, JobRows)
    BY <1>2, <2>1, PutRow
  <2> QED
    BY <2>2 DEF Put
<1>4. u \in Transactions /\ u.jobs = K
  BY <1>3 DEF Transactions
<1>5. PICK R \in Partial(EventIds, BOOLEAN) : Noted(u, e) = [u EXCEPT !.read = R]
  BY <1>2, <1>4, NotedReads
<1> DEFINE v == [u EXCEPT !.read = R]
<1>6. v \in Transactions /\ v.jobs = K /\ v = [t EXCEPT !.jobs = K, !.read = R]
  BY <1>4, <1>5 DEF Transactions
<1>7. Ended(t, j, status) = Escalated(v, j)
  <2>1. u = [t EXCEPT !.jobs = Put(@, j, [Jobs(t)[j] EXCEPT !.status = status])]
    BY DEF Transactions
  <2> QED
    BY <1>5, <2>1 DEF Ended
<1> HIDE DEF row, K, e, u, v
<1>8. CASE Escalated(v, j) = v
  <2>1. Writes(t, j, K)
    BY <1>3 DEF Writes
  <2> QED
    BY <1>2, <1>3, <1>5, <1>6, <1>7, <1>8, <2>1
<1>9. CASE Escalated(v, j) # v
  <2>1. PICK new \in JobRows : /\ used.jobs + 1 \in JobIds
                               /\ Escalated(v, j) = [v EXCEPT !.jobs = Put(K, used.jobs + 1, new)]
    <3>1. j \in DOMAIN v.jobs
      BY <1>3, <1>6
    <3>2. /\ used.jobs + 1 \in JobIds
          /\ \E new \in JobRows : Escalated(v, j) = [v EXCEPT !.jobs = Put(v.jobs, used.jobs + 1, new)]
      BY <1>6, <1>9, <3>1, EscalatedQueues, Zenon
    <3> QED
      BY <1>6, <3>2
  <2> DEFINE n == used.jobs + 1
             J == Put(K, n, new)
  <2>2. used.jobs \in Nat
    BY Ids DEF Tables
  <2>3. J \in Partial(JobIds, JobRows)
    BY <1>3, <2>1, PutRow
  <2>4. /\ DOMAIN J = DOMAIN t.jobs \cup {j, n}
        /\ \A i \in DOMAIN K \ {n} : J[i] = K[i]
    BY <1>3 DEF Put
  <2>5. n > used.jobs /\ n # j /\ n \notin DOMAIN t.jobs
    <3>1. \A i \in DOMAIN t.jobs \cup {j} : i \in Nat
      BY Ids, Views
    <3> QED
      BY <2>2, <3>1
  <2> HIDE DEF J, n
  <2>6. Writes(t, j, J)
    BY <1>3, <2>3, <2>4, <2>5 DEF Writes
  <2>7. J[j].status = status
    BY <1>2, <1>3, <2>4, <2>5
  <2>8. Ended(t, j, status) = [t EXCEPT !.jobs = J, !.read = R]
    BY <1>6, <1>7, <2>1 DEF J, n, Transactions
  <2> QED
    BY <1>5, <2>6, <2>7, <2>8
<1> QED
  BY <1>8, <1>9

\* What was noted is written into the alarms.
LEMMA FlushedWrites ==
  ASSUME Tables, NEW t \in Transactions
  PROVE  \E E \in Partial(EventIds, AlarmRows) : Flushed(t) = [t EXCEPT !.events = E, !.read = None]
<1> DEFINE W == [e \in DOMAIN t.read |-> [Events(t)[e] EXCEPT !.acked = t.read[e]]]
<1>1. t.read \in Partial(EventIds, BOOLEAN) /\ t.events \in Partial(EventIds, AlarmRows)
  BY DEF Transactions
<1>2. DOMAIN t.read \in SUBSET EventIds /\ \A e \in DOMAIN t.read : t.read[e] \in BOOLEAN
  BY <1>1, RowOfPartial
<1>3. \A e \in DOMAIN t.read : [Events(t)[e] EXCEPT !.acked = t.read[e]] \in AlarmRows
  BY <1>2, Views DEF AlarmRows
<1>4. W \in Partial(EventIds, AlarmRows)
  <2>1. W \in [DOMAIN t.read -> AlarmRows]
    BY <1>3
  <2> QED
    BY <1>2, <2>1 DEF Partial
<1>5. Over(W, t.events) \in Partial(EventIds, AlarmRows)
  BY <1>1, <1>4, OverPartial
<1>6. Flushed(t) = [t EXCEPT !.events = Over(W, t.events), !.read = None]
  BY DEF Flushed, Transactions
<1> QED
  BY <1>5, <1>6

\* The ids given out cover what was written, and are never taken back.
LEMMA GiveCovers ==
  ASSUME Tables, NEW t \in Transactions, Give(t)
  PROVE  /\ used' \in [events : 0..MaxEvents, jobs : 0..MaxJobs]
         /\ used'.jobs >= used.jobs
         /\ \A j \in DOMAIN t.jobs : j <= used'.jobs
<1> DEFINE E == {used.events} \cup DOMAIN t.events
           J == {used.jobs} \cup DOMAIN t.jobs
<1>1. used.events \in 0..MaxEvents /\ used.jobs \in 0..MaxJobs
  BY DEF Tables
<1>2. DOMAIN t.events \subseteq EventIds /\ DOMAIN t.jobs \subseteq JobIds
  BY RowOfPartial DEF Transactions
<1>3. E \in SUBSET (0..MaxEvents) /\ J \in SUBSET (0..MaxJobs)
  BY <1>1, <1>2, Ids DEF EventIds, JobIds
<1>4. Max(E) \in 0..MaxEvents /\ Max(J) \in 0..MaxJobs /\ \A x \in J : x <= Max(J)
  BY <1>3, Ids, MaxIsIn
<1>5. used' = [events |-> Max(E), jobs |-> Max(J)]
  BY DEF Give
<1> HIDE DEF E, J
<1>6. used.jobs \in J /\ DOMAIN t.jobs \subseteq J
  BY DEF J
<1>7. used.jobs <= Max(J) /\ \A j \in DOMAIN t.jobs : j <= Max(J)
  BY <1>4, <1>6
<1> QED
  BY <1>1, <1>4, <1>5, <1>7

-----------------------------------------------------------------------------
(* A step of one transaction. *)

LEMMA WantedRows ==
  ASSUME Structure, NEW p \in Procs
  PROVE  /\ Wanted(p) \subseteq Rows
         /\ tx[p].at = "finish" => Wanted(p) = {JobRow(tx[p].target)}
         /\ tx[p].at \in {"lock", "cancel"} /\ tx[p].todo # {} =>
              Min(tx[p].todo) \in tx[p].todo /\ Wanted(p) = {JobRow(Min(tx[p].todo))}
         /\ tx[p].at \in {"idle", "scan", "pump", "read"} => Wanted(p) = {}
         /\ tx[p].at \in {"lock", "cancel"} /\ tx[p].todo = {} => Wanted(p) = {}
<1> DEFINE t == tx[p]
<1>1. t \in Transactions /\ AimsAtRows(t)
  BY DEF Structure, Sound
<1>2. t.todo \subseteq JobIds /\ DOMAIN t.read \subseteq EventIds /\ t.at \in Places
  BY <1>1, RowOfPartial DEF Transactions
<1>3. t.todo # {} => Min(t.todo) \in t.todo
  BY <1>2, Ids, MinIsIn
<1>4. CASE t.at = "finish"
  BY <1>1, <1>4, RowsApart DEF Wanted, AimsAtRows
<1>5. CASE t.at = "ack"
  BY <1>1, <1>5, RowsApart DEF Wanted, AimsAtRows
<1>6. CASE t.at \in {"lock", "cancel"}
  <2>1. Wanted(p) = IF t.todo = {} THEN {} ELSE {JobRow(Min(t.todo))}
    BY <1>6 DEF Wanted
  <2> QED
    BY <1>2, <1>3, <1>6, <2>1, RowsApart
<1>7. CASE t.at \in {"flush", "commit"}
  <2>1. Wanted(p) = NotedRows(t)
    BY <1>7 DEF Wanted
  <2>2. NotedRows(t) \subseteq Rows
    BY <1>2, RowsApart DEF NotedRows
  <2> QED
    BY <1>7, <2>1, <2>2
<1>8. CASE t.at \in {"idle", "scan", "pump", "read"}
  BY <1>8 DEF Wanted
<1> QED
  BY <1>2, <1>4, <1>5, <1>6, <1>7, <1>8 DEF Places

\* A row nobody else has locked, of a job the transaction can see, is written by no other.
LEMMA NobodyElseWrites ==
  ASSUME Structure, NEW p \in Procs, NEW q \in Procs \ {p}, NEW j \in JobIds,
         Known(tx[p], j), JobRow(j) \notin tx[q].held
  PROVE  j \notin DOMAIN tx[q].jobs
<1>1. SUFFICES ASSUME j \in DOMAIN tx[q].jobs PROVE FALSE
  OBVIOUS
<1>2. db.jobs[j] = NoJob
  BY <1>1 DEF Structure, Sound, WritesItsOwn
<1>3. j \in DOMAIN tx[p].jobs
  BY <1>2 DEF Known
<1> QED
  BY <1>1, <1>3 DEF Structure, Apart

\* What the transaction p may do in a step that is not its end: it writes what it has
\* written, what it has locked or locks now, and new jobs.
Proceeds(p, u, at) ==
  /\ u \in Transactions /\ at \in Places
  /\ u.held = tx[p].held
  /\ DOMAIN tx[p].jobs \subseteq DOMAIN u.jobs
  /\ \A j \in DOMAIN u.jobs :
       /\ \/ j \in DOMAIN tx[p].jobs
          \/ j > used.jobs
          \/ Known(tx[p], j) /\ JobRow(j) \in tx[p].held \cup Wanted(p)
       /\ j <= used'.jobs
       /\ u.jobs[j].status = "queued" => db.jobs[j] = NoJob
  /\ at = "finish" => u.target \in JobIds /\ Known(u, u.target)
  /\ at \in {"ack", "read"} => u.target \in EventIds
  /\ \A j \in u.todo : Known(u, j)
  /\ \A j \in DOMAIN u.rows :
       /\ JobRow(j) \in tx[p].held \cup Wanted(p) /\ Known(u, j)
       /\ j \notin DOMAIN u.jobs => u.rows[j] = db.jobs[j]
  /\ u.sent # 0 => at = "commit" /\ u.sent \in DOMAIN u.jobs /\ u.jobs[u.sent].status = "sent"

LEMMA StepKeeps ==
  ASSUME Structure, NEW p \in Procs, NEW u, NEW at, May(p),
         Proceeds(p, u, at), Continue(p, u, at), db' = db, Tables', used'.jobs >= used.jobs
  PROVE  Structure'
<1>0. PICK v : v = [u EXCEPT !.at = at, !.held = @ \cup Wanted(p)]
  OBVIOUS
<1>1. /\ v \in Transactions /\ v.at = at /\ v.held = tx[p].held \cup Wanted(p)
      /\ v.jobs = u.jobs /\ v.todo = u.todo /\ v.rows = u.rows /\ v.target = u.target /\ v.sent = u.sent
  <2>1. u \in Transactions /\ at \in Places /\ u.held = tx[p].held
    BY DEF Proceeds
  <2>2. u.held \cup Wanted(p) \in SUBSET Rows
    BY <2>1, WantedRows DEF Transactions
  <2> QED
    BY <1>0, <2>1, <2>2 DEF Transactions
<1>2. tx' = [tx EXCEPT ![p] = v]
  BY <1>0 DEF Continue
<1>3. tx \in [Procs -> Transactions] /\ tx' \in [Procs -> Transactions]
  BY <1>1, <1>2 DEF Structure
<1>4. tx'[p] = v /\ \A q \in Procs \ {p} : tx'[q] = tx[q]
  BY <1>2, <1>3
<1>5. used.jobs \in Nat /\ used'.jobs \in Nat /\ \A j \in JobIds : j \in Nat
  BY Ids DEF Structure, Tables
<1>6. FreshIds'
  BY <1>5 DEF Structure, FreshIds
<1>7. Sound(v)'
  <2>1. AimsAtRows(v)'
    BY <1>1 DEF Proceeds, AimsAtRows, Known
  <2>2. WritesItsOwn(v)'
    <3> SUFFICES ASSUME NEW j \in DOMAIN u.jobs
                 PROVE  /\ j <= used'.jobs
                        /\ JobRow(j) \in v.held \/ db.jobs[j] = NoJob
                        /\ u.jobs[j].status = "queued" => db.jobs[j] = NoJob
      BY <1>1 DEF WritesItsOwn
    <3>1. j \in JobIds
      BY RowOfPartial DEF Proceeds, Transactions
    <3>2. CASE j \in DOMAIN tx[p].jobs
      BY <1>1, <3>2 DEF Proceeds, Structure, Sound, WritesItsOwn
    <3>3. CASE j > used.jobs
      BY <3>1, <3>3 DEF Proceeds, Structure, FreshIds
    <3>4. CASE JobRow(j) \in tx[p].held \cup Wanted(p)
      BY <1>1, <3>4 DEF Proceeds
    <3> QED
      BY <3>2, <3>3, <3>4 DEF Proceeds
  <2>3. LoadedIsCurrent(v)'
    BY <1>1 DEF Proceeds, LoadedIsCurrent, Known
  <2>4. SentIsWritten(v)'
    BY <1>1 DEF Proceeds, SentIsWritten
  <2> QED
    BY <1>1, <2>1, <2>2, <2>3, <2>4 DEF Sound
<1>8. ASSUME NEW q \in Procs \ {p} PROVE Sound(tx[q])' /\ Apart(v, tx[q])
  <2>1. Sound(tx[q]) /\ Apart(tx[p], tx[q]) /\ tx[q] \in Transactions
    BY DEF Structure, Sound
  <2>2. Sound(tx[q])'
    <3>1. \A j \in DOMAIN tx[q].jobs : j \in Nat
      BY <1>5, <2>1, RowOfPartial DEF Transactions
    <3>2. \A j \in DOMAIN tx[q].jobs : j <= used'.jobs
      BY <1>5, <2>1, <3>1 DEF Sound, WritesItsOwn
    <3> QED
      BY <1>4, <2>1, <3>2
      DEF Sound, AimsAtRows, WritesItsOwn, LoadedIsCurrent, SentIsWritten, Known
  <2>3. v.held \cap tx[q].held = {}
    BY <1>1, <2>1 DEF Apart, May, Free
  <2>4. ASSUME NEW j \in DOMAIN v.jobs, j \in DOMAIN tx[q].jobs PROVE FALSE
    <3>1. j \in JobIds
      BY <2>1, <2>4, RowOfPartial DEF Transactions
    <3>2. CASE j \in DOMAIN tx[p].jobs
      BY <2>1, <2>4, <3>2 DEF Apart
    <3>3. CASE j > used.jobs
      BY <1>5, <2>1, <2>4, <3>1, <3>3 DEF Sound, WritesItsOwn
    <3>4. CASE Known(tx[p], j) /\ JobRow(j) \in v.held
      BY <2>3, <2>4, <3>1, <3>4, NobodyElseWrites
    <3> QED
      BY <1>1, <3>2, <3>3, <3>4 DEF Proceeds
  <2> QED
    BY <2>2, <2>3, <2>4 DEF Apart
<1>9. \A q \in Procs : Sound(tx[q])'
  BY <1>4, <1>7, <1>8
<1>10. ASSUME NEW q \in Procs, NEW r \in Procs, q # r PROVE Apart(tx'[q], tx'[r])
  BY <1>4, <1>8, <1>10 DEF Structure, Apart
<1> QED
  BY <1>3, <1>6, <1>9, <1>10 DEF Structure, Apart

\* A step that publishes nothing leaves the count as it was.
LEMMA StepCounts ==
  ASSUME Structure, Counted, NEW p \in Procs, NEW u \in Transactions, NEW at,
         u.sent = tx[p].sent, Continue(p, u, at), db' = db, published' = published
  PROVE  Counted'
<1>1. tx \in [Procs -> Transactions]
  BY DEF Structure
<1>2. \A q \in Procs : tx'[q].sent = tx[q].sent
  BY <1>1 DEF Continue, Transactions
<1> QED
  BY <1>2 DEF Counted

\* A step that writes no job.
LEMMA ReadingStep ==
  ASSUME Structure, NEW p \in Procs, NEW u \in Transactions, NEW at \in Places,
         u.held = tx[p].held, u.jobs = tx[p].jobs, u.rows = tx[p].rows, u.sent = 0,
         used' = used,
         at = "finish" => u.target \in JobIds /\ Known(u, u.target),
         at \in {"ack", "read"} => u.target \in EventIds,
         \A j \in u.todo : Known(u, j)
  PROVE  Proceeds(p, u, at)
<1>1. Sound(tx[p])
  BY DEF Structure
<1>2. \A j \in DOMAIN u.rows : /\ JobRow(j) \in tx[p].held /\ Known(u, j)
                               /\ j \notin DOMAIN u.jobs => u.rows[j] = db.jobs[j]
  BY <1>1 DEF Sound, LoadedIsCurrent, Known
<1>3. \A j \in DOMAIN u.jobs : j <= used'.jobs /\ (u.jobs[j].status = "queued" => db.jobs[j] = NoJob)
  BY <1>1 DEF Sound, WritesItsOwn
<1> QED
  BY <1>2, <1>3 DEF Proceeds

\* A step that writes the row of one job, and may queue another.
LEMMA WritingStep ==
  ASSUME Structure, NEW p \in Procs, NEW u \in Transactions, NEW at \in Places, NEW j \in JobIds,
         u.held = tx[p].held, u.rows = tx[p].rows, u.todo \subseteq tx[p].todo,
         Writes(tx[p], j, u.jobs), u.jobs[j].status # "queued",
         Known(tx[p], j), JobRow(j) \in tx[p].held \cup Wanted(p),
         \A i \in DOMAIN u.jobs : i <= used'.jobs,
         at \notin {"finish", "ack", "read"},
         u.sent # 0 => at = "commit" /\ u.sent \in DOMAIN u.jobs /\ u.jobs[u.sent].status = "sent"
  PROVE  Proceeds(p, u, at)
<1>1. Sound(tx[p]) /\ FreshIds
  BY DEF Structure
<1>2. \A i \in DOMAIN u.rows : /\ JobRow(i) \in tx[p].held /\ Known(u, i)
                               /\ i \notin DOMAIN u.jobs => u.rows[i] = db.jobs[i]
  BY <1>1 DEF Sound, LoadedIsCurrent, Known, Writes
<1>3. \A i \in u.todo : Known(u, i)
  BY <1>1 DEF Sound, AimsAtRows, Known, Writes
<1>4. ASSUME NEW i \in DOMAIN u.jobs
      PROVE  /\ i \in DOMAIN tx[p].jobs \/ i > used.jobs \/ i = j
             /\ u.jobs[i].status = "queued" => db.jobs[i] = NoJob
  <2>1. i \in JobIds
    BY RowOfPartial DEF Transactions
  <2>2. CASE i = j
    BY <2>2
  <2>3. CASE i # j /\ i \in DOMAIN tx[p].jobs
    <3>1. u.jobs[i] = tx[p].jobs[i]
      BY <2>3 DEF Writes
    <3> QED
      BY <1>1, <2>3, <3>1 DEF Sound, WritesItsOwn
  <2>4. CASE i > used.jobs
    BY <1>1, <2>1, <2>4 DEF FreshIds
  <2> QED
    BY <2>2, <2>3, <2>4 DEF Writes
<1>5. DOMAIN tx[p].jobs \subseteq DOMAIN u.jobs
  BY DEF Writes
<1> QED
  BY <1>2, <1>3, <1>4, <1>5 DEF Proceeds

-----------------------------------------------------------------------------
(* The beginnings of a transaction. *)

LEMMA Begins ==
  ASSUME Structure, NEW p \in Procs, tx[p] = Nothing
  PROVE  May(p) /\ Nothing \in Transactions
<1>1. Nothing \in Transactions
  BY DEF Structure
<1>2. Wanted(p) = {}
  BY WantedRows DEF Nothing
<1> QED
  BY <1>1, <1>2 DEF May, Free

LEMMA StartPumpKeeps == ASSUME Inv, StartPump PROVE Inv'
<1>1. Structure /\ Counted /\ "loop" \in Procs /\ tx["loop"] = Nothing
  BY DEF Inv, StartPump, Procs
<1>2. May("loop") /\ Nothing \in Transactions
  BY <1>1, Begins
<1>3. Proceeds("loop", Nothing, "scan")
  BY <1>1, <1>2, ReadingStep DEF Nothing, StartPump, Places
<1>4. Structure'
  BY <1>1, <1>2, <1>3, StepKeeps DEF StartPump, Structure, Tables
<1>5. Counted'
  BY <1>1, <1>2, StepCounts DEF StartPump
<1> QED
  BY <1>4, <1>5 DEF Inv

LEMMA StartSilenceKeeps == ASSUME Inv, NEW p \in Procs, StartSilence(p) PROVE Inv'
<1>1. Structure /\ Counted /\ tx[p] = Nothing
  BY DEF Inv, StartSilence
<1>2. May(p) /\ Nothing \in Transactions
  BY <1>1, Begins
<1>3. PICK e \in EventIds : Continue(p, [Nothing EXCEPT !.target = e], "ack")
  BY DEF StartSilence
<1>4. PICK u : u = [Nothing EXCEPT !.target = e]
  OBVIOUS
<1>5. u \in Transactions /\ u.target = e /\ u.todo = {} /\ u.sent = 0
      /\ u.held = Nothing.held /\ u.jobs = Nothing.jobs /\ u.rows = Nothing.rows
  BY <1>2, <1>4, Ids DEF Transactions, Nothing
<1>6. Proceeds(p, u, "ack")
  BY <1>1, <1>5, ReadingStep DEF StartSilence, Places
<1>7. Structure'
  BY <1>1, <1>2, <1>3, <1>4, <1>6, StepKeeps DEF StartSilence, Structure, Tables
<1>8. Counted'
  BY <1>1, <1>3, <1>4, <1>5, StepCounts DEF StartSilence, Nothing
<1> QED
  BY <1>7, <1>8 DEF Inv

\* The row an answer is for, if there is one, is committed.
LEMMA AnsweredIsCommitted ==
  ASSUME Tables, NEW j \in JobIds
  PROVE  Answered(j) = 0 \/ (Answered(j) \in JobIds /\ db.jobs[Answered(j)] # NoJob)
<1> DEFINE sent == {i \in JobIds : db.jobs[i].status = "sent"}
<1>1. CASE db.jobs[j] # NoJob
  BY <1>1 DEF Answered
<1>2. CASE db.jobs[j] = NoJob /\ sent # {}
  <2>1. Min(sent) \in sent
    BY <1>2, Ids, MinIsIn
  <2>2. Answered(j) = Min(sent)
    BY <1>2 DEF Answered
  <2> QED
    BY <2>1, <2>2 DEF NoJob
<1>3. CASE db.jobs[j] = NoJob /\ sent = {}
  BY <1>3 DEF Answered
<1> QED
  BY <1>1, <1>2, <1>3

LEMMA StartAnswerKeeps == ASSUME Inv, StartAnswer PROVE Inv'
<1> DEFINE p == "message"
<1>1. Structure /\ Counted /\ p \in Procs /\ tx[p] = Nothing /\ Tables
  BY DEF Inv, StartAnswer, Procs, Structure
<1>2. May(p) /\ Nothing \in Transactions
  BY <1>1, Begins
<1>3. PICK j \in out : /\ out' = out \ {j}
                      /\ Continue(p, [Nothing EXCEPT !.target = Answered(j)],
                                  IF Answered(j) = 0 THEN "scan" ELSE "finish")
  BY DEF StartAnswer
<1>4. Answered(j) = 0 \/ (Answered(j) \in JobIds /\ db.jobs[Answered(j)] # NoJob)
  BY <1>1, AnsweredIsCommitted DEF Tables
<1>5. PICK u : u = [Nothing EXCEPT !.target = Answered(j)]
  OBVIOUS
<1>6. PICK at : at = IF Answered(j) = 0 THEN "scan" ELSE "finish"
  OBVIOUS
<1>7. u \in Transactions /\ u.target = Answered(j) /\ u.todo = {} /\ u.sent = 0
      /\ u.held = Nothing.held /\ u.jobs = Nothing.jobs /\ u.rows = Nothing.rows
  BY <1>2, <1>4, <1>5, Ids DEF Transactions, Nothing
<1>8. at \in Places /\ (at = "finish" => Answered(j) # 0) /\ at \notin {"ack", "read"}
  BY <1>6 DEF Places
<1>9. Proceeds(p, u, at)
  BY <1>1, <1>4, <1>7, <1>8, ReadingStep DEF StartAnswer, Known
<1>10. Structure'
  <2>1. Tables'
    BY <1>1, <1>3 DEF StartAnswer, Tables
  <2>2. used'.jobs >= used.jobs
    BY <1>1 DEF StartAnswer, Tables
  <2> QED
    BY <1>1, <1>2, <1>3, <1>5, <1>6, <1>9, <2>1, <2>2, StepKeeps DEF StartAnswer
<1>11. Counted'
  BY <1>1, <1>3, <1>5, <1>6, <1>7, StepCounts DEF StartAnswer, Nothing
<1> QED
  BY <1>10, <1>11 DEF Inv

LEMMA StartAlarmKeeps == ASSUME Inv, NEW p \in Procs, StartAlarm(p) PROVE Inv'
<1> DEFINE e == used.events + 1
           n == used.jobs + 1
           E == Put(None, e, [open |-> TRUE, acked |-> FALSE])
           J == Put(None, n, Enqueued(Nothing, e, 1))
<1>1. Structure /\ Counted /\ tx[p] = Nothing /\ Tables
  BY DEF Inv, StartAlarm, Structure
<1>2. May(p) /\ Nothing \in Transactions
  BY <1>1, Begins
<1>3. e \in EventIds /\ n \in JobIds /\ n > used.jobs
  BY <1>1, Ids DEF StartAlarm, Tables, EventIds, JobIds
<1>4. Enqueued(Nothing, e, 1) \in JobRows /\ [open |-> TRUE, acked |-> FALSE] \in AlarmRows
  <2>1. 1 \in 1..Phones
    BY Ids
  <2> QED
    BY <1>3, <2>1, EnqueuedRow DEF AlarmRows
<1>5. E \in Partial(EventIds, AlarmRows) /\ J \in Partial(JobIds, JobRows) /\ DOMAIN J = {n}
  <2>1. None \in Partial(EventIds, AlarmRows) /\ None \in Partial(JobIds, JobRows) /\ DOMAIN None = {}
    BY NoneIsPartial
  <2>2. E \in Partial(EventIds, AlarmRows) /\ J \in Partial(JobIds, JobRows)
    BY <1>3, <1>4, <2>1, PutRow
  <2> QED
    BY <2>1, <2>2 DEF Put
<1>6. PICK u : u = [Nothing EXCEPT !.events = E, !.jobs = J]
  OBVIOUS
<1>7. Continue(p, u, "scan") /\ Give(u)
  BY <1>6 DEF StartAlarm, Nothing
<1>8. u \in Transactions /\ u.jobs = J /\ u.todo = {} /\ u.sent = 0
      /\ u.held = Nothing.held /\ u.rows = Nothing.rows
  <2> HIDE DEF E, J
  <2> QED
    BY <1>2, <1>5, <1>6 DEF Transactions, Nothing
<1>9. used' \in [events : 0..MaxEvents, jobs : 0..MaxJobs] /\ used'.jobs >= used.jobs
      /\ \A j \in DOMAIN u.jobs : j <= used'.jobs
  BY <1>1, <1>7, <1>8, GiveCovers
<1>10. db.jobs[n] = NoJob
  BY <1>1, <1>3 DEF Structure, FreshIds
<1>11. DOMAIN None = {} /\ Nothing.jobs = None /\ Nothing.rows = None
  BY NoneIsPartial DEF Nothing
<1>12. Proceeds(p, u, "scan")
  <2> HIDE DEF J, n
  <2> QED
    BY <1>1, <1>3, <1>5, <1>8, <1>9, <1>10, <1>11 DEF Proceeds, Places
<1>13. Structure'
  BY <1>1, <1>2, <1>7, <1>9, <1>12, StepKeeps DEF StartAlarm, Tables
<1>14. Counted'
  BY <1>1, <1>7, <1>8, StepCounts DEF StartAlarm, Nothing
<1> QED
  BY <1>13, <1>14 DEF Inv

-----------------------------------------------------------------------------
(* The steps of a transaction. *)

\* What a step finds: nothing is published before the last one.
LEMMA Before ==
  ASSUME Structure, NEW p \in Procs
  PROVE  /\ Tables /\ FreshIds
         /\ tx[p] \in Transactions /\ Sound(tx[p])
         /\ tx[p].at # "commit" => tx[p].sent = 0
         /\ \A j \in JobIds : Known(tx[p], j) => j <= used.jobs
         /\ tx[p].at \in {"scan", "read", "pump"} => May(p)
         /\ tx[p].at \in {"lock", "cancel"} /\ tx[p].todo = {} => May(p)
<1>1. Tables /\ FreshIds /\ Sound(tx[p]) /\ tx[p] \in Transactions
  BY DEF Structure, Sound
<1>2. tx[p].at # "commit" => tx[p].sent = 0
  BY <1>1 DEF Sound, SentIsWritten
<1>3. ASSUME NEW j \in JobIds, Known(tx[p], j) PROVE j <= used.jobs
  <2>1. CASE db.jobs[j] # NoJob
    <3>1. ~ (j > used.jobs)
      BY <1>1, <2>1 DEF FreshIds
    <3>2. j \in Nat /\ used.jobs \in Nat
      BY <1>1, Ids DEF Tables
    <3> QED
      BY <3>1, <3>2
  <2>2. CASE j \in DOMAIN tx[p].jobs
    BY <1>1, <2>2 DEF Sound, WritesItsOwn
  <2> QED
    BY <1>3, <2>1, <2>2 DEF Known
<1>4. Wanted(p) = {} => May(p)
  BY DEF May, Free
<1> QED
  BY <1>1, <1>2, <1>3, <1>4, WantedRows

\* A job of the transaction ends, of those it has locked or locks now.
LEMMA EndingKeeps ==
  ASSUME Inv, NEW p \in Procs, May(p), NEW j \in JobIds, NEW status \in {"done", "failed"},
         Known(tx[p], j), JobRow(j) \in tx[p].held \cup Wanted(p), tx[p].sent = 0,
         Continue(p, Ended(tx[p], j, status), "flush"), Give(Ended(tx[p], j, status)),
         UNCHANGED <<db, out, published, crashes>>
  PROVE  Inv'
<1> DEFINE t == tx[p]
<1>1. Structure /\ Counted /\ Tables /\ t \in Transactions
  BY Before DEF Inv
<1>2. \A i \in DOMAIN t.jobs \cup {j} : i <= used.jobs
  <2>1. \A i \in JobIds : Known(t, i) => i <= used.jobs
    BY <1>1, Before
  <2>2. DOMAIN t.jobs \subseteq JobIds
    BY <1>1, Views
  <2> QED
    BY <2>1, <2>2 DEF Known
<1>3. PICK J, R : /\ Ended(t, j, status) = [t EXCEPT !.jobs = J, !.read = R]
                  /\ R \in Partial(EventIds, BOOLEAN)
                  /\ Writes(t, j, J) /\ J[j].status = status
  BY <1>1, <1>2, EndedWrites, Zenon
<1>4. PICK u : u = Ended(t, j, status)
  OBVIOUS
<1>5. /\ u \in Transactions /\ u.jobs = J /\ u.todo = t.todo /\ u.sent = 0
      /\ u.held = t.held /\ u.rows = t.rows
  BY <1>1, <1>3, <1>4 DEF Transactions, Writes
<1>6. used' \in [events : 0..MaxEvents, jobs : 0..MaxJobs] /\ used'.jobs >= used.jobs
      /\ \A i \in DOMAIN u.jobs : i <= used'.jobs
  BY <1>1, <1>4, <1>5, GiveCovers
<1>7. Proceeds(p, u, "flush")
  BY <1>1, <1>3, <1>5, <1>6, WritingStep DEF Places
<1>8. Tables'
  BY <1>1, <1>6 DEF Tables
<1>9. Structure'
  BY <1>1, <1>4, <1>6, <1>7, <1>8, StepKeeps
<1>10. Counted'
  BY <1>1, <1>4, <1>5, StepCounts
<1> QED
  BY <1>9, <1>10 DEF Inv

LEMMA FinishKeeps == ASSUME Inv, NEW p \in Procs, Finish(p) PROVE Inv'
<1> DEFINE t == tx[p]
<1>1. Structure /\ t.at = "finish" /\ May(p) /\ t.sent = 0 /\ Sound(t)
  BY Before DEF Inv, Finish
<1>2. t.target \in JobIds /\ Known(t, t.target)
  BY <1>1 DEF Sound, AimsAtRows
<1>3. JobRow(t.target) \in Wanted(p)
  BY <1>1, WantedRows
<1> QED
  BY <1>1, <1>2, <1>3, EndingKeeps DEF Finish

LEMMA ExpireKeeps == ASSUME Inv, NEW p \in Procs, Expire(p) PROVE Inv'
<1> DEFINE t == tx[p]
<1>1. Structure /\ t.at = "pump" /\ May(p) /\ t.sent = 0 /\ Sound(t) /\ t \in Transactions
  BY Before DEF Inv, Expire
<1>2. PICK j \in InState(t, "sent") : /\ Continue(p, Ended(t, j, "failed"), "flush")
                                     /\ Give(Ended(t, j, "failed"))
  BY DEF Expire
<1>3. j \in DOMAIN t.rows /\ j \in JobIds
  BY <1>1, LoadedRows DEF InState
<1>4. Known(t, j) /\ JobRow(j) \in t.held
  BY <1>1, <1>3 DEF Sound, LoadedIsCurrent
<1> QED
  BY <1>1, <1>2, <1>3, <1>4, EndingKeeps DEF Expire

\* A step that only reads, or notes where it is.
LEMMA ReadingKeeps ==
  ASSUME Inv, NEW p \in Procs, May(p), NEW u \in Transactions, NEW at \in Places,
         tx[p].sent = 0, Continue(p, u, at), UNCHANGED <<db, used, out, published, crashes>>,
         u.held = tx[p].held, u.jobs = tx[p].jobs, u.rows = tx[p].rows, u.sent = 0,
         at # "finish", at \in {"ack", "read"} => u.target \in EventIds,
         \A j \in u.todo : Known(u, j)
  PROVE  Inv'
<1>1. Structure /\ Counted /\ Tables
  BY Before DEF Inv
<1>2. Proceeds(p, u, at)
  BY <1>1, ReadingStep
<1>3. Tables' /\ used'.jobs >= used.jobs
  BY <1>1 DEF Tables
<1>4. Structure'
  BY <1>1, <1>2, <1>3, StepKeeps
<1>5. Counted'
  BY <1>1, StepCounts
<1> QED
  BY <1>4, <1>5 DEF Inv

LEMMA FlushKeeps == ASSUME Inv, NEW p \in Procs, Flush(p) PROVE Inv'
<1> DEFINE t == tx[p]
           at == IF t.rows = None THEN "scan" ELSE "pump"
<1>1. Tables /\ t \in Transactions /\ Sound(t) /\ t.sent = 0 /\ May(p)
  BY Before DEF Inv, Flush
<1>2. PICK E \in Partial(EventIds, AlarmRows) : Flushed(t) = [t EXCEPT !.events = E, !.read = None]
  BY <1>1, FlushedWrites
<1>3. PICK u : u = Flushed(t)
  OBVIOUS
<1>4. /\ u \in Transactions /\ u.jobs = t.jobs /\ u.todo = t.todo /\ u.sent = 0
      /\ u.held = t.held /\ u.rows = t.rows
  <2>1. None \in Partial(EventIds, BOOLEAN)
    BY NoneIsPartial
  <2> HIDE DEF at
  <2> QED
    BY <1>1, <1>2, <1>3, <2>1 DEF Transactions
<1>5. \A j \in u.todo : Known(u, j)
  BY <1>1, <1>4 DEF Sound, AimsAtRows, Known
<1>6. at \in Places /\ at \notin {"finish", "ack", "read"}
  BY DEF Places
<1>7. Continue(p, u, at) /\ UNCHANGED <<db, used, out, published, crashes>>
  BY <1>3 DEF Flush
<1> HIDE DEF at
<1> QED
  BY <1>1, <1>4, <1>5, <1>6, <1>7, ReadingKeeps

LEMMA ScanKeeps == ASSUME Inv, NEW p \in Procs, Scan(p) PROVE Inv'
<1> DEFINE t == tx[p]
           matching == {j \in JobIds : Active(Jobs(t)[j])}
<1>1. Tables /\ t \in Transactions /\ t.sent = 0 /\ May(p)
  BY Before DEF Inv, Scan
<1>2. PICK u : u = [t EXCEPT !.todo = matching, !.seen = matching]
  OBVIOUS
<1>3. /\ u \in Transactions /\ u.jobs = t.jobs /\ u.todo = matching
      /\ u.sent = 0 /\ u.held = t.held /\ u.rows = t.rows
  BY <1>1, <1>2 DEF Transactions
<1>4. \A j \in u.todo : Known(u, j)
  BY <1>1, <1>3, Views DEF Known, Active, NoJob
<1>5. Continue(p, u, "lock")
  BY <1>2 DEF Scan
<1> QED
  BY <1>1, <1>3, <1>4, <1>5, ReadingKeeps DEF Scan, Places

LEMMA LockedKeeps == ASSUME Inv, NEW p \in Procs, Locked(p) PROVE Inv'
<1>1. /\ tx[p] \in Transactions /\ tx[p].sent = 0 /\ May(p) /\ Sound(tx[p])
  BY Before DEF Inv, Locked
<1> QED
  BY <1>1, ReadingKeeps DEF Locked, Places, Sound, AimsAtRows

LEMMA CancelledKeeps == ASSUME Inv, NEW p \in Procs, Cancelled(p) PROVE Inv'
<1> DEFINE at == IF p = "message" THEN "scan" ELSE "commit"
<1>1. /\ tx[p] \in Transactions /\ tx[p].sent = 0 /\ May(p) /\ Sound(tx[p])
  BY Before DEF Inv, Cancelled
<1>2. at \in Places /\ at \notin {"finish", "ack", "read"}
  BY DEF Places
<1>3. Continue(p, tx[p], at) /\ UNCHANGED <<db, used, out, published, crashes>>
  BY DEF Cancelled
<1> HIDE DEF at
<1> QED
  BY <1>1, <1>2, <1>3, ReadingKeeps DEF Sound, AimsAtRows

LEMMA ReadQueueKeeps == ASSUME Inv, NEW p \in Procs, ReadQueue(p) PROVE Inv'
<1> DEFINE t == tx[p]
           queued == {j \in JobIds : Jobs(t)[j].status = "queued" /\ Jobs(t)[j].event = t.target}
<1>1. Tables /\ t \in Transactions /\ t.sent = 0 /\ May(p)
  BY Before DEF Inv, ReadQueue
<1>2. PICK u : u = [t EXCEPT !.todo = queued]
  OBVIOUS
<1>3. /\ u \in Transactions /\ u.jobs = t.jobs /\ u.todo = queued
      /\ u.sent = 0 /\ u.held = t.held /\ u.rows = t.rows
  BY <1>1, <1>2 DEF Transactions
<1>4. \A j \in u.todo : Known(u, j)
  BY <1>1, <1>3, Views DEF Known, NoJob
<1>5. Continue(p, u, "cancel")
  BY <1>2 DEF ReadQueue
<1> QED
  BY <1>1, <1>3, <1>4, <1>5, ReadingKeeps DEF ReadQueue, Places

LEMMA AckKeeps == ASSUME Inv, NEW p \in Procs, Ack(p) PROVE Inv'
<1> DEFINE t == tx[p]
           E == Put(t.events, t.target, [open |-> TRUE, acked |-> TRUE])
<1>1. Tables /\ t \in Transactions /\ t.sent = 0 /\ May(p) /\ Sound(t) /\ t.at = "ack"
  BY Before DEF Inv, Ack
<1>2. t.target \in EventIds
  BY <1>1 DEF Sound, AimsAtRows
<1>3. E \in Partial(EventIds, AlarmRows)
  <2>1. [open |-> TRUE, acked |-> TRUE] \in AlarmRows /\ t.events \in Partial(EventIds, AlarmRows)
    BY <1>1 DEF AlarmRows, Transactions
  <2> QED
    BY <1>2, <2>1, PutRow
<1>4. PICK u : u = [t EXCEPT !.events = E]
  OBVIOUS
<1>5. Continue(p, u, "read")
  BY <1>1, <1>4 DEF Ack, Transactions
<1> HIDE DEF E
<1>6. /\ u \in Transactions /\ u.jobs = t.jobs /\ u.todo = t.todo /\ u.target = t.target
      /\ u.sent = 0 /\ u.held = t.held /\ u.rows = t.rows
  BY <1>1, <1>3, <1>4 DEF Transactions
<1>7. \A j \in u.todo : Known(u, j)
  BY <1>1, <1>6 DEF Sound, AimsAtRows, Known
<1> QED
  BY <1>1, <1>2, <1>5, <1>6, <1>7, ReadingKeeps DEF Ack, Places

LEMMA LockKeeps == ASSUME Inv, NEW p \in Procs, Lock(p) PROVE Inv'
<1> DEFINE t == tx[p]
           j == Min(t.todo)
           L == IF Active(Jobs(t)[j]) THEN Put(t.rows, j, Jobs(t)[j]) ELSE t.rows
<1>1. /\ Structure /\ Counted /\ Tables /\ t \in Transactions /\ t.sent = 0 /\ May(p)
      /\ Sound(t) /\ t.at = "lock" /\ t.todo # {}
  BY Before DEF Inv, Lock
<1>2. j \in t.todo /\ j \in JobIds /\ JobRow(j) \in Wanted(p) /\ Known(t, j)
  BY <1>1, WantedRows DEF Transactions, Sound, AimsAtRows
<1>3. PICK u : u = [t EXCEPT !.todo = t.todo \ {j}, !.rows = L]
  OBVIOUS
<1>4. Continue(p, u, "lock") /\ UNCHANGED <<db, used, out, published, crashes>>
  BY <1>1, <1>3 DEF Lock, Transactions
<1>5. Jobs(t)[j] \in JobRows /\ (j \notin DOMAIN t.jobs => Jobs(t)[j] = db.jobs[j])
  BY <1>1, <1>2, Views
<1>6. t.rows \in Partial(JobIds, JobRows)
  BY <1>1 DEF Transactions
<1>7. L \in Partial(JobIds, JobRows) /\ \A i \in DOMAIN L : (i = j /\ L[i] = Jobs(t)[j])
                                                       \/ (i \in DOMAIN t.rows /\ L[i] = t.rows[i])
  <2>1. CASE Active(Jobs(t)[j])
    <3>1. Put(t.rows, j, Jobs(t)[j]) \in Partial(JobIds, JobRows)
      BY <1>2, <1>5, <1>6, PutRow
    <3> QED
      BY <2>1, <3>1 DEF Put
  <2>2. CASE ~Active(Jobs(t)[j])
    BY <1>6, <2>2
  <2> QED
    BY <2>1, <2>2
<1> HIDE DEF L, j
<1>8. /\ u \in Transactions /\ u.jobs = t.jobs /\ u.todo \subseteq t.todo
      /\ u.sent = 0 /\ u.held = t.held /\ u.rows = L
  BY <1>1, <1>3, <1>7 DEF Transactions
<1>9. \A i \in u.todo : Known(u, i)
  BY <1>1, <1>8 DEF Sound, AimsAtRows, Known
<1>10. \A i \in DOMAIN u.rows : /\ JobRow(i) \in t.held \cup Wanted(p) /\ Known(u, i)
                                /\ i \notin DOMAIN u.jobs => u.rows[i] = db.jobs[i]
  <2> SUFFICES ASSUME NEW i \in DOMAIN L
               PROVE  /\ JobRow(i) \in t.held \cup Wanted(p) /\ Known(t, i)
                      /\ i \notin DOMAIN t.jobs => L[i] = db.jobs[i]
    BY <1>8 DEF Known
  <2>1. CASE i = j /\ L[i] = Jobs(t)[j]
    BY <1>2, <1>5, <2>1
  <2>2. CASE i \in DOMAIN t.rows /\ L[i] = t.rows[i]
    BY <1>1, <2>2 DEF Sound, LoadedIsCurrent
  <2> QED
    BY <1>7, <2>1, <2>2
<1>11. Proceeds(p, u, "lock")
  BY <1>1, <1>4, <1>8, <1>9, <1>10 DEF Proceeds, Places, Sound, WritesItsOwn
<1>12. Tables' /\ used'.jobs >= used.jobs
  BY <1>1, <1>4 DEF Tables
<1>13. Structure'
  BY <1>1, <1>4, <1>11, <1>12, StepKeeps
<1>14. Counted'
  BY <1>1, <1>4, <1>8, StepCounts
<1> QED
  BY <1>13, <1>14 DEF Inv

LEMMA CancelKeeps == ASSUME Inv, NEW p \in Procs, Cancel(p) PROVE Inv'
<1> DEFINE t == tx[p]
           j == Min(t.todo)
           row == [Jobs(t)[j] EXCEPT !.status = "cancelled"]
           J == Put(t.jobs, j, row)
<1>1. /\ Structure /\ Counted /\ Tables /\ t \in Transactions /\ t.sent = 0 /\ May(p)
      /\ Sound(t) /\ t.at = "cancel" /\ t.todo # {}
  BY Before DEF Inv, Cancel
<1>2. j \in t.todo /\ j \in JobIds /\ JobRow(j) \in Wanted(p) /\ Known(t, j)
  BY <1>1, WantedRows DEF Transactions, Sound, AimsAtRows
<1>3. PICK u : u = [t EXCEPT !.todo = t.todo \ {j}, !.jobs = J]
  OBVIOUS
<1>4. Continue(p, u, "cancel") /\ UNCHANGED <<db, used, out, published, crashes>>
  BY <1>1, <1>3 DEF Cancel, Transactions
<1>5. row \in JobRows /\ row.status = "cancelled"
  BY <1>1, <1>2, Views DEF JobRows
<1>6. Writes(t, j, J) /\ J[j] = row /\ DOMAIN J = DOMAIN t.jobs \cup {j}
  <2>1. t.jobs \in Partial(JobIds, JobRows)
    BY <1>1 DEF Transactions
  <2>2. J \in Partial(JobIds, JobRows)
    BY <1>2, <1>5, <2>1, PutRow
  <2> HIDE DEF row
  <2> QED
    BY <2>2 DEF Writes, Put
<1> HIDE DEF J, j
<1>7. /\ u \in Transactions /\ u.jobs = J /\ u.todo \subseteq t.todo
      /\ u.sent = 0 /\ u.held = t.held /\ u.rows = t.rows
  BY <1>1, <1>3, <1>6 DEF Transactions, Writes
<1>8. \A i \in DOMAIN J : i <= used'.jobs
  <2>1. j <= used.jobs
    BY <1>1, <1>2, Before
  <2> QED
    BY <1>1, <1>4, <1>6, <2>1 DEF Sound, WritesItsOwn
<1>9. Proceeds(p, u, "cancel")
  BY <1>1, <1>2, <1>5, <1>6, <1>7, <1>8, WritingStep DEF Places
<1>10. Tables' /\ used'.jobs >= used.jobs
  BY <1>1, <1>4 DEF Tables
<1>11. Structure'
  BY <1>1, <1>4, <1>9, <1>10, StepKeeps
<1>12. Counted'
  BY <1>1, <1>4, <1>7, StepCounts
<1> QED
  BY <1>11, <1>12 DEF Inv

\* The pump sends nothing, or a queued job it has locked, that nobody has published.
LEMMA PumpedSends ==
  ASSUME Inv, NEW p \in Procs, tx[p].at = "pump"
  PROVE  \/ Pumped(tx[p]) = tx[p] /\ tx[p].sent = 0
         \/ \E j \in JobIds : \E J, R :
              /\ Pumped(tx[p]) = [tx[p] EXCEPT !.jobs = J, !.sent = j, !.read = R]
              /\ Writes(tx[p], j, J) /\ DOMAIN J = DOMAIN tx[p].jobs \cup {j}
              /\ J[j].status = "sent" /\ R \in Partial(EventIds, BOOLEAN)
              /\ JobRow(j) \in tx[p].held /\ Known(tx[p], j)
              /\ db.jobs[j].status \in {"none", "queued"}
<1> DEFINE t == tx[p]
           queued == InState(t, "queued")
           j == Min(queued)
           row == [Loaded(t)[j] EXCEPT !.status = "sent"]
           J == Put(t.jobs, j, row)
           u == [t EXCEPT !.jobs = J, !.sent = j]
           e == Loaded(t)[j].event
<1>1. /\ Structure /\ Counted /\ Tables /\ t \in Transactions /\ t.sent = 0 /\ Sound(t)
  BY Before DEF Inv
<1>2. CASE InState(t, "sent") # {} \/ queued = {}
  BY <1>1, <1>2 DEF Pumped
<1>3. CASE ~(InState(t, "sent") # {} \/ queued = {})
  <2>1. queued \subseteq DOMAIN t.rows /\ queued \subseteq JobIds
    BY <1>1, LoadedRows DEF InState
  <2>2. j \in queued
    BY <1>3, <2>1, Ids, MinIsIn
  <2>3. j \in DOMAIN t.rows /\ j \in JobIds /\ Loaded(t)[j].status = "queued"
    BY <2>1, <2>2 DEF InState
  <2>4. Loaded(t)[j] \in JobRows
    BY <1>1, <2>3, LoadedRows
  <2>5. row \in JobRows /\ row.status = "sent" /\ e \in EventIds
    BY <2>4 DEF JobRows
  <2>6. JobRow(j) \in t.held /\ Known(t, j)
    BY <1>1, <2>3 DEF Sound, LoadedIsCurrent
  <2>7. db.jobs[j].status \in {"none", "queued"}
    <3>1. CASE j \in DOMAIN t.jobs
      <4>1. t.jobs[j].status = "queued"
        BY <1>1, <2>3, <3>1, LoadedRows
      <4> QED
        BY <1>1, <3>1, <4>1 DEF Sound, WritesItsOwn, NoJob
    <3>2. CASE j \notin DOMAIN t.jobs
      <4>1. Loaded(t)[j] = t.rows[j] /\ t.rows[j] = db.jobs[j]
        BY <1>1, <2>3, <3>2, LoadedRows DEF Sound, LoadedIsCurrent
      <4> QED
        BY <2>3, <4>1
    <3> QED
      BY <3>1, <3>2
  <2>8. Writes(t, j, J) /\ J[j] = row /\ DOMAIN J = DOMAIN t.jobs \cup {j}
    <3>1. t.jobs \in Partial(JobIds, JobRows)
      BY <1>1 DEF Transactions
    <3>2. j \in JobIds /\ row \in JobRows
      BY <2>3, <2>5
    <3> HIDE DEF row, j
    <3>3. J \in Partial(JobIds, JobRows)
      BY <3>1, <3>2, PutRow
    <3> QED
      BY <3>3 DEF Writes, Put
  <2>9. Pumped(t) = Noted(u, e)
    BY <1>1, <1>3 DEF Pumped, Transactions
  <2> HIDE DEF J, j, row, e
  <2>10. u \in Transactions
    BY <1>1, <2>3, <2>8 DEF Transactions, Writes
  <2>11. PICK R \in Partial(EventIds, BOOLEAN) : Noted(u, e) = [u EXCEPT !.read = R]
    BY <1>1, <2>5, <2>10, NotedReads
  <2>12. Pumped(t) = [t EXCEPT !.jobs = J, !.sent = j, !.read = R]
    BY <1>1, <2>9, <2>11 DEF Transactions
  <2> QED
    BY <2>3, <2>5, <2>6, <2>7, <2>8, <2>12
<1> QED
  BY <1>2, <1>3

\* Who publishes a job is the first to, and so the count stays at one.
LEMMA PumpKeeps == ASSUME Inv, NEW p \in Procs, Pump(p) PROVE Inv'
<1> DEFINE t == tx[p]
<1>1. /\ Structure /\ Counted /\ Tables /\ t \in Transactions /\ t.sent = 0 /\ May(p)
      /\ Sound(t) /\ t.at = "pump" /\ tx \in [Procs -> Transactions]
  BY Before DEF Inv, Pump, Structure
<1>2. PICK u : u = Pumped(t)
  OBVIOUS
<1>3. /\ Continue(p, u, "commit") /\ out' = out \cup ({u.sent} \ {0})
      /\ published' = [i \in JobIds |-> published[i] + IF i = u.sent THEN 1 ELSE 0]
      /\ UNCHANGED <<db, used, crashes>>
  BY <1>2 DEF Pump
<1>4. published \in [JobIds -> 0..1]
  BY <1>1 DEF Counted
<1>5. CASE u = t
  <2>1. published' = published /\ out' = out
    <3>1. \A i \in JobIds : published[i] \in 0..1 /\ i # 0
      BY <1>4, Ids
    <3>2. \A i \in JobIds : published'[i] = published[i]
      BY <1>1, <1>3, <1>5, <3>1
    <3> QED
      BY <1>1, <1>3, <1>4, <1>5, <3>2
  <2>2. \A j \in u.todo : Known(u, j)
    BY <1>1, <1>5 DEF Sound, AimsAtRows
  <2> QED
    BY <1>1, <1>3, <1>5, <2>1, <2>2, ReadingKeeps DEF Places
<1>6. ASSUME NEW j \in JobIds, NEW J, NEW R,
             u = [t EXCEPT !.jobs = J, !.sent = j, !.read = R],
             Writes(t, j, J), DOMAIN J = DOMAIN t.jobs \cup {j},
             J[j].status = "sent", R \in Partial(EventIds, BOOLEAN),
             JobRow(j) \in t.held, Known(t, j), db.jobs[j].status \in {"none", "queued"}
      PROVE  Inv'
  <2>1. /\ u \in Transactions /\ u.jobs = J /\ u.todo = t.todo
        /\ u.sent = j /\ u.held = t.held /\ u.rows = t.rows
    BY <1>1, <1>6 DEF Transactions, Writes
  <2>2. \A i \in DOMAIN J : i <= used'.jobs
    <3>1. j <= used.jobs
      BY <1>1, <1>6, Before
    <3> QED
      BY <1>1, <1>3, <1>6, <3>1 DEF Sound, WritesItsOwn
  <2>3. Proceeds(p, u, "commit")
    BY <1>1, <1>6, <2>1, <2>2, WritingStep DEF Places, Writes
  <2>4. Tables' /\ used'.jobs >= used.jobs
    BY <1>1, <1>3, <2>1 DEF Tables
  <2>5. Structure'
    BY <1>1, <1>3, <2>3, <2>4, StepKeeps
  <2>6. ASSUME NEW q \in Procs PROVE tx[q].sent # j
    <3>1. CASE q = p
      BY <1>1, <3>1, Ids
    <3>2. CASE q # p
      <4>1. JobRow(j) \notin tx[q].held
        BY <1>1, <1>6, <3>2 DEF Structure, Apart
      <4>2. j \notin DOMAIN tx[q].jobs
        BY <1>1, <1>6, <3>2, <4>1, NobodyElseWrites
      <4> QED
        BY <1>1, <4>2, Ids DEF Structure, Sound, SentIsWritten
    <3> QED
      BY <3>1, <3>2
  <2>7. published[j] = 0
    BY <1>1, <1>6, <2>6 DEF Counted
  <2>8. tx'[p].sent = j /\ \A q \in Procs \ {p} : tx'[q].sent = tx[q].sent
    BY <1>1, <1>3, <2>1 DEF Continue, Transactions
  <2>9. /\ published' \in [JobIds -> 0..1] /\ published'[j] = 1
        /\ \A i \in JobIds \ {j} : published'[i] = published[i]
    <3>1. \A i \in JobIds : published[i] \in 0..1
      BY <1>4
    <3> QED
      BY <1>3, <2>1, <2>7, <3>1
  <2>10. \A q \in Procs : tx[q].sent \in {0} \cup JobIds
    BY <1>1 DEF Transactions
  <2>11. Counted'
    <3>1. ASSUME NEW q \in Procs, tx'[q].sent # 0 PROVE published'[tx'[q].sent] = 1
      BY <1>1, <2>6, <2>8, <2>9, <2>10, <3>1 DEF Counted
    <3>2. ASSUME NEW i \in JobIds, db.jobs[i].status \in {"none", "queued"}, \A q \in Procs : tx'[q].sent # i
          PROVE  published'[i] = 0
      <4>1. i # j
        BY <2>8, <3>2
      <4>2. \A q \in Procs : tx[q].sent # i
        BY <1>1, <2>8, <3>2, Ids
      <4> QED
        BY <1>1, <2>9, <3>2, <4>1, <4>2 DEF Counted
    <3> QED
      BY <1>3, <2>9, <3>1, <3>2 DEF Counted
  <2> QED
    BY <2>5, <2>11 DEF Inv
<1> QED
  BY <1>1, <1>2, <1>5, <1>6, PumpedSends

-----------------------------------------------------------------------------
(* The ends of a transaction. *)

LEMMA NothingIsSound == Nothing \in Transactions /\ Sound(Nothing)
<1>1. /\ None \in Partial(EventIds, AlarmRows) /\ None \in Partial(EventIds, BOOLEAN)
      /\ None \in Partial(JobIds, JobRows) /\ DOMAIN None = {}
  BY NoneIsPartial
<1>2. Nothing \in Transactions
  BY <1>1 DEF Transactions, Nothing, Places
<1> QED
  BY <1>1, <1>2 DEF Sound, AimsAtRows, WritesItsOwn, LoadedIsCurrent, SentIsWritten, Nothing

LEMMA CommitKeeps == ASSUME Inv, NEW p \in Procs, Commit(p) PROVE Inv'
<1>1. /\ Structure /\ Counted /\ Tables /\ FreshIds /\ tx[p] \in Transactions /\ Sound(tx[p])
      /\ tx \in [Procs -> Transactions]
  BY Before DEF Inv, Structure
<1>2. PICK t : t = Flushed(tx[p])
  OBVIOUS
<1>3. t \in Transactions /\ t.jobs = tx[p].jobs
  <2>1. PICK E \in Partial(EventIds, AlarmRows) : t = [tx[p] EXCEPT !.events = E, !.read = None]
    BY <1>1, <1>2, FlushedWrites
  <2>2. None \in Partial(EventIds, BOOLEAN)
    BY NoneIsPartial
  <2> QED
    BY <1>1, <2>1, <2>2 DEF Transactions
<1>4. db' = [events |-> Events(t), jobs |-> Jobs(t)] /\ UNCHANGED <<used, out, published, crashes>>
  BY <1>2 DEF Commit
<1>5. /\ db' \in [events : [EventIds -> AlarmRows], jobs : [JobIds -> JobRows \cup {NoJob}]]
      /\ \A j \in DOMAIN tx[p].jobs : j \in JobIds /\ db'.jobs[j] = tx[p].jobs[j] /\ db'.jobs[j] \in JobRows
      /\ \A j \in JobIds \ DOMAIN tx[p].jobs : db'.jobs[j] = db.jobs[j]
  BY <1>1, <1>3, <1>4, Views
<1>6. tx'[p] = Nothing /\ \A q \in Procs \ {p} : tx'[q] = tx[q]
  BY <1>1 DEF Commit
<1>7. tx' \in [Procs -> Transactions]
  BY <1>1, NothingIsSound DEF Commit
<1>8. Tables'
  BY <1>1, <1>4, <1>5 DEF Tables
<1>9. FreshIds'
  <2> SUFFICES ASSUME NEW j \in JobIds, j > used.jobs PROVE db'.jobs[j] = NoJob
    BY <1>4 DEF FreshIds
  <2>1. j \notin DOMAIN tx[p].jobs
    BY <1>1, <1>8, Ids DEF Sound, WritesItsOwn, Tables
  <2> QED
    BY <1>1, <1>5, <2>1 DEF FreshIds
<1>10. ASSUME NEW j \in JobIds, db.jobs[j] # NoJob PROVE db'.jobs[j] # NoJob
  BY <1>5, <1>10, Ids
<1>11. Sound(Nothing)'
  <2>1. /\ Nothing \in Transactions /\ Nothing.at = "idle" /\ Nothing.todo = {} /\ Nothing.sent = 0
        /\ DOMAIN Nothing.jobs = {} /\ DOMAIN Nothing.rows = {}
    BY NothingIsSound, NoneIsPartial DEF Nothing
  <2> QED
    BY <2>1 DEF Sound, AimsAtRows, WritesItsOwn, LoadedIsCurrent, SentIsWritten
<1>12. ASSUME NEW q \in Procs \ {p} PROVE Sound(tx[q])'
  <2>1. Sound(tx[q]) /\ Apart(tx[p], tx[q]) /\ tx[q] \in Transactions
    BY <1>1 DEF Structure
  <2>2. DOMAIN tx[q].jobs \subseteq JobIds /\ DOMAIN tx[q].rows \subseteq JobIds /\ tx[q].todo \subseteq JobIds
    BY <2>1, RowOfPartial DEF Transactions
  <2>3. \A j \in DOMAIN tx[q].jobs : db'.jobs[j] = db.jobs[j]
    BY <1>5, <2>1, <2>2 DEF Apart
  <2>4. \A j \in DOMAIN tx[q].rows : db'.jobs[j] = db.jobs[j]
    <3> SUFFICES ASSUME NEW j \in DOMAIN tx[q].rows PROVE j \notin DOMAIN tx[p].jobs
      BY <1>5, <2>2
    <3>1. JobRow(j) \in tx[q].held /\ Known(tx[q], j)
      BY <2>1 DEF Sound, LoadedIsCurrent
    <3>2. JobRow(j) \notin tx[p].held
      BY <2>1, <3>1 DEF Apart
    <3> QED
      BY <1>1, <2>2, <3>1, <3>2, NobodyElseWrites
  <2>5. \A j \in JobIds : Known(tx[q], j) => db'.jobs[j] # NoJob \/ j \in DOMAIN tx[q].jobs
    BY <1>10 DEF Known
  <2>6. tx'[q] = tx[q] /\ used' = used
    BY <1>4, <1>6
  <2>7. AimsAtRows(tx[q])'
    BY <2>1, <2>2, <2>5, <2>6 DEF Sound, AimsAtRows, Known
  <2>8. WritesItsOwn(tx[q])'
    BY <2>1, <2>3, <2>6 DEF Sound, WritesItsOwn
  <2>9. LoadedIsCurrent(tx[q])'
    BY <2>1, <2>2, <2>4, <2>5, <2>6 DEF Sound, LoadedIsCurrent, Known
  <2> QED
    BY <2>1, <2>6, <2>7, <2>8, <2>9 DEF Sound, SentIsWritten
<1>13. \A q \in Procs : Sound(tx[q])'
  BY <1>6, <1>11, <1>12 DEF Sound, AimsAtRows, WritesItsOwn, LoadedIsCurrent, SentIsWritten, Known
<1>14. ASSUME NEW q \in Procs, NEW r \in Procs, q # r PROVE Apart(tx'[q], tx'[r])
  <2>1. Nothing.held = {} /\ DOMAIN Nothing.jobs = {}
    BY NoneIsPartial DEF Nothing
  <2> QED
    BY <1>1, <1>6, <1>14, <2>1 DEF Structure, Apart
<1>15. Structure'
  BY <1>7, <1>8, <1>9, <1>13, <1>14 DEF Structure, Apart
<1>16. ASSUME NEW q \in Procs, tx'[q].sent # 0 PROVE published[tx'[q].sent] = 1
  BY <1>1, <1>6, <1>16 DEF Counted, Nothing
<1>17. ASSUME NEW j \in JobIds, db'.jobs[j].status \in {"none", "queued"}, \A q \in Procs : tx'[q].sent # j
       PROVE  published[j] = 0
  <2>1. \A q \in Procs \ {p} : tx[q].sent # j
    BY <1>6, <1>17
  <2>2. tx[p].sent # j
    BY <1>1, <1>5, <1>17, Ids DEF Sound, SentIsWritten
  <2>3. db.jobs[j].status \in {"none", "queued"}
    <3>1. CASE j \in DOMAIN tx[p].jobs
      <4>1. tx[p].jobs[j].status = "queued"
        BY <1>5, <1>17, <3>1 DEF JobRows
      <4> QED
        BY <1>1, <3>1, <4>1 DEF Sound, WritesItsOwn, NoJob
    <3>2. CASE j \notin DOMAIN tx[p].jobs
      BY <1>5, <1>17, <3>2
    <3> QED
      BY <3>1, <3>2
  <2> QED
    BY <1>1, <2>1, <2>2, <2>3 DEF Counted
<1>18. Counted'
  BY <1>1, <1>4, <1>16, <1>17 DEF Counted
<1> QED
  BY <1>15, <1>18 DEF Inv

LEMMA RollbackKeeps ==
  ASSUME Inv, NEW p \in Procs, Rollback(p), crashes' \in 0..MaxCrashes PROVE Inv'
<1>1. /\ Structure /\ Counted /\ Tables /\ FreshIds /\ tx[p] \in Transactions /\ Sound(tx[p])
      /\ tx \in [Procs -> Transactions] /\ UNCHANGED <<db, used, out>>
  BY Before DEF Inv, Structure, Rollback
<1>2. tx'[p] = Nothing /\ \A q \in Procs \ {p} : tx'[q] = tx[q]
  BY <1>1 DEF Rollback
<1>3. tx' \in [Procs -> Transactions]
  BY <1>1, NothingIsSound DEF Rollback
<1>4. Tables' /\ FreshIds'
  BY <1>1 DEF Tables, FreshIds
<1>5. /\ Nothing \in Transactions /\ Nothing.at = "idle" /\ Nothing.todo = {} /\ Nothing.sent = 0
      /\ DOMAIN Nothing.jobs = {} /\ DOMAIN Nothing.rows = {} /\ Nothing.held = {}
  BY NothingIsSound, NoneIsPartial DEF Nothing
<1>6. ASSUME NEW q \in Procs PROVE Sound(tx[q])'
  <2>1. CASE q = p
    BY <1>2, <1>5, <2>1 DEF Sound, AimsAtRows, WritesItsOwn, LoadedIsCurrent, SentIsWritten
  <2>2. CASE q # p
    <3>1. Sound(tx[q]) /\ tx'[q] = tx[q]
      BY <1>1, <1>2, <2>2 DEF Structure
    <3> QED
      BY <1>1, <3>1 DEF Sound, AimsAtRows, WritesItsOwn, LoadedIsCurrent, SentIsWritten, Known
  <2> QED
    BY <2>1, <2>2
<1>7. ASSUME NEW q \in Procs, NEW r \in Procs, q # r PROVE Apart(tx'[q], tx'[r])
  BY <1>1, <1>2, <1>5, <1>7 DEF Structure, Apart
<1>8. Structure'
  BY <1>3, <1>4, <1>6, <1>7 DEF Structure, Apart
<1>9. published \in [JobIds -> 0..1] /\ \A i \in JobIds : published[i] \in 0..1 /\ i # 0
  BY <1>1, Ids DEF Counted
<1>10. \A i \in JobIds : published'[i] = IF i = tx[p].sent THEN 0 ELSE published[i]
  <2>1. ASSUME NEW i \in JobIds PROVE published'[i] = IF i = tx[p].sent THEN 0 ELSE published[i]
    <3>1. published'[i] = published[i] - IF i = tx[p].sent THEN 1 ELSE 0
      BY DEF Rollback
    <3>2. i = tx[p].sent => published[i] = 1
      BY <1>1, <1>9 DEF Counted
    <3> QED
      BY <1>9, <3>1, <3>2
  <2> QED
    BY <2>1
<1>11. published' \in [JobIds -> 0..1]
  <2>1. published' = [i \in JobIds |-> published'[i]]
    BY DEF Rollback
  <2> QED
    BY <1>9, <1>10, <2>1
<1>12. ASSUME NEW q \in Procs, tx'[q].sent # 0 PROVE published'[tx'[q].sent] = 1
  <2>1. q # p /\ tx'[q] = tx[q]
    BY <1>2, <1>5, <1>12
  <2>2. Sound(tx[q]) /\ Apart(tx[p], tx[q]) /\ tx[q] \in Transactions
    BY <1>1, <2>1 DEF Structure
  <2>3. tx[q].sent \in JobIds /\ tx[q].sent \in DOMAIN tx[q].jobs
    BY <1>12, <2>1, <2>2 DEF Transactions, Sound, SentIsWritten
  <2>4. tx[q].sent # tx[p].sent
    BY <1>1, <1>12, <2>1, <2>2, <2>3 DEF Sound, SentIsWritten, Apart
  <2> QED
    BY <1>1, <1>10, <1>12, <2>1, <2>3, <2>4 DEF Counted
<1>13. ASSUME NEW j \in JobIds, db.jobs[j].status \in {"none", "queued"}, \A q \in Procs : tx'[q].sent # j
       PROVE  published'[j] = 0
  <2>1. CASE j = tx[p].sent
    BY <1>10, <2>1
  <2>2. CASE j # tx[p].sent
    <3>1. \A q \in Procs : tx[q].sent # j
      BY <1>2, <1>13, <2>2
    <3> QED
      BY <1>1, <1>10, <1>13, <2>2, <3>1 DEF Counted
  <2> QED
    BY <2>1, <2>2
<1>14. Counted'
  BY <1>1, <1>11, <1>12, <1>13 DEF Counted
<1> QED
  BY <1>8, <1>14 DEF Inv

-----------------------------------------------------------------------------
(* What a pump has found is accounted for until it sends. *)

Settled(t, j) == Jobs(t)[j].status \in {"done", "failed", "cancelled"}

\* Only a job that is new, or queued for all the others, is sent.
SentWasQueued(t) ==
  \A j \in DOMAIN t.jobs : t.jobs[j].status = "sent" => db.jobs[j].status \in {"none", "queued"}

\* Of the rows the pump found, each is still to be locked, loaded, or has ended.
Accounted(t) ==
  /\ t.at = "finish" => t.rows = None
  /\ t.at = "lock" => \A j \in t.seen : j \in t.todo \/ j \in DOMAIN t.rows \/ Settled(t, j)
  /\ t.at = "pump" \/ (t.at = "flush" /\ t.rows # None) =>
       \A j \in t.seen : j \in DOMAIN t.rows \/ Settled(t, j)

Pumping == \A p \in Procs : SentWasQueued(tx[p]) /\ Accounted(tx[p])

\* A step that commits nothing is seen by its own transaction only.
LEMMA PumpingStep ==
  ASSUME Inv, Pumping, NEW p \in Procs, NEW u, NEW at, Continue(p, u, at), db' = db,
         u \in Transactions, at \in Places,
         \A j \in DOMAIN u.jobs : u.jobs[j].status = "sent" => db.jobs[j].status \in {"none", "queued"},
         Accounted([u EXCEPT !.at = at])
  PROVE  Pumping'
<1>1. PICK v : v = [u EXCEPT !.at = at, !.held = @ \cup Wanted(p)]
  OBVIOUS
<1>2. PICK w : w = [u EXCEPT !.at = at]
  OBVIOUS
<1>3. /\ v.at = w.at /\ v.jobs = w.jobs /\ v.rows = w.rows /\ v.seen = w.seen /\ v.todo = w.todo
      /\ v.jobs = u.jobs
  BY <1>1, <1>2 DEF Transactions
<1>4. tx'[p] = v /\ \A q \in Procs \ {p} : tx'[q] = tx[q]
  BY <1>1 DEF Continue, Inv, Structure
<1>5. SentWasQueued(v)' /\ Accounted(v)'
  <2>1. \A j : Settled(w, j) => Settled(v, j)'
    BY <1>3 DEF Settled, Jobs
  <2> QED
    BY <1>2, <1>3, <2>1 DEF SentWasQueued, Accounted
<1>6. ASSUME NEW q \in Procs \ {p} PROVE SentWasQueued(tx[q])' /\ Accounted(tx[q])'
  BY <1>4 DEF Pumping, SentWasQueued, Accounted, Settled, Jobs
<1> QED
  BY <1>4, <1>5, <1>6 DEF Pumping, SentWasQueued, Accounted, Settled, Jobs

\* A step on the way to no pump, that sends nothing.
LEMMA ElsewhereStep ==
  ASSUME Inv, Pumping, NEW p \in Procs, NEW u, NEW at, Continue(p, u, at), db' = db,
         u \in Transactions, at \in {"scan", "ack", "read", "cancel", "commit"},
         \A j \in DOMAIN u.jobs : u.jobs[j].status = "sent" => db.jobs[j].status \in {"none", "queued"}
  PROVE  Pumping'
<1>1. Accounted([u EXCEPT !.at = at])
  BY DEF Accounted, Transactions
<1> QED
  BY <1>1, PumpingStep DEF Places

\* Ending a job sends none, and what has ended stays so.
LEMMA EndingSettles ==
  ASSUME Inv, Pumping, NEW p \in Procs, NEW j \in JobIds, NEW status \in {"done", "failed"},
         Known(tx[p], j)
  PROVE  LET u == Ended(tx[p], j, status) IN
         /\ u \in Transactions /\ u.seen = tx[p].seen /\ u.rows = tx[p].rows
         /\ \A i \in DOMAIN u.jobs : u.jobs[i].status = "sent" => db.jobs[i].status \in {"none", "queued"}
         /\ \A i \in JobIds : Settled(tx[p], i) => Settled(u, i)
<1> DEFINE t == tx[p]
<1>1. Structure /\ Tables /\ FreshIds /\ t \in Transactions
  BY Before DEF Inv
<1>2. \A i \in JobIds : Known(t, i) => i <= used.jobs
  BY <1>1, Before
<1>3. DOMAIN t.jobs \subseteq JobIds
  BY <1>1, Views
<1>4. PICK J, R : /\ Ended(t, j, status) = [t EXCEPT !.jobs = J, !.read = R]
                  /\ R \in Partial(EventIds, BOOLEAN)
                  /\ Writes(t, j, J) /\ J[j].status = status
  <2>1. \A i \in DOMAIN t.jobs \cup {j} : i <= used.jobs
    BY <1>2, <1>3 DEF Known
  <2> QED
    BY <1>1, <2>1, EndedWrites, Zenon
<1>5. PICK u : u = Ended(t, j, status)
  OBVIOUS
<1>6. u \in Transactions /\ u.jobs = J /\ u.seen = t.seen /\ u.rows = t.rows
  BY <1>1, <1>4, <1>5 DEF Transactions, Writes
<1>7. DOMAIN J \subseteq JobIds
  BY <1>4, RowOfPartial DEF Writes
<1>8. ASSUME NEW i \in DOMAIN J, J[i].status = "sent" PROVE db.jobs[i].status \in {"none", "queued"}
  <2>1. i # j
    BY <1>4, <1>8
  <2>2. CASE i \in DOMAIN t.jobs
    <3>1. J[i] = t.jobs[i]
      BY <1>4, <2>1, <2>2 DEF Writes
    <3> QED
      BY <1>8, <2>2, <3>1 DEF Pumping, SentWasQueued
  <2>3. CASE i > used.jobs
    BY <1>1, <1>7, <2>3 DEF FreshIds, NoJob
  <2> QED
    BY <1>4, <2>1, <2>2, <2>3 DEF Writes
<1>9. ASSUME NEW i \in JobIds, Settled(t, i) PROVE Settled(u, i)
  <2>1. Jobs(u) \in [JobIds -> JobRows \cup {NoJob}] /\ \A k \in DOMAIN J : Jobs(u)[k] = J[k]
    BY <1>1, <1>6, Views
  <2>2. \A k \in JobIds \ DOMAIN J : Jobs(u)[k] = db.jobs[k]
    BY <1>1, <1>6, Views
  <2>3. Known(t, i)
    <3>1. CASE i \in DOMAIN t.jobs
      BY <3>1 DEF Known
    <3>2. CASE i \notin DOMAIN t.jobs
      <4>1. Jobs(t)[i] = db.jobs[i]
        BY <1>1, <3>2, Views
      <4> QED
        BY <1>9, <4>1 DEF Settled, Known, NoJob
    <3> QED
      BY <3>1, <3>2
  <2>4. ~ (i > used.jobs)
    BY <1>1, <1>2, <2>3, Ids DEF Tables
  <2>5. CASE i = j
    BY <1>4, <2>1, <2>5 DEF Settled, Writes
  <2>6. CASE i # j /\ i \in DOMAIN t.jobs
    <3>1. J[i] = t.jobs[i] /\ i \in DOMAIN J /\ Jobs(t)[i] = t.jobs[i]
      BY <1>1, <1>4, <2>6, Views DEF Writes
    <3> QED
      BY <1>9, <2>1, <3>1 DEF Settled
  <2>7. CASE i # j /\ i \notin DOMAIN t.jobs
    <3>1. i \notin DOMAIN J
      BY <1>4, <2>4, <2>7 DEF Writes
    <3>2. Jobs(t)[i] = db.jobs[i]
      BY <1>1, <2>7, Views
    <3> QED
      BY <1>9, <2>2, <3>1, <3>2 DEF Settled
  <2> QED
    BY <2>5, <2>6, <2>7
<1> QED
  BY <1>5, <1>6, <1>8, <1>9

LEMMA BeginningPumping ==
  ASSUME Inv, Pumping, StartPump \/ StartAnswer \/ \E p \in Procs : StartAlarm(p) \/ StartSilence(p)
  PROVE  Pumping'
<1>1. Nothing \in Transactions /\ DOMAIN None = {} /\ Nothing.jobs = None /\ Nothing.rows = None
  BY NothingIsSound, NoneIsPartial DEF Nothing
<1>2. CASE StartPump
  <2>1. "loop" \in Procs
    BY DEF Procs
  <2> QED
    BY <1>1, <1>2, <2>1, ElsewhereStep DEF StartPump
<1>3. CASE StartAnswer
  <2>1. PICK j \in out : Continue("message", [Nothing EXCEPT !.target = Answered(j)],
                                  IF Answered(j) = 0 THEN "scan" ELSE "finish")
    BY <1>3 DEF StartAnswer
  <2>2. PICK u : u = [Nothing EXCEPT !.target = Answered(j)]
    OBVIOUS
  <2>3. PICK at : at = IF Answered(j) = 0 THEN "scan" ELSE "finish"
    OBVIOUS
  <2>4. Answered(j) \in Nat
    <3>1. j \in JobIds /\ Tables
      BY <2>1 DEF Inv, Structure, Tables
    <3>2. Answered(j) = 0 \/ Answered(j) \in JobIds
      BY <3>1, AnsweredIsCommitted, Zenon
    <3>3. 0 \in Nat
      OBVIOUS
    <3>4. \A k \in JobIds : k \in Nat
      BY Ids
    <3> QED
      BY <3>2, <3>3, <3>4, Zenon
  <2>5. u \in Transactions /\ u.jobs = None /\ u.rows = None
    BY <1>1, <2>2, <2>4 DEF Transactions
  <2>6. Accounted([u EXCEPT !.at = at])
    BY <2>3, <2>5 DEF Accounted, Transactions
  <2>7. "message" \in Procs /\ at \in Places /\ db' = db
    BY <1>3, <2>3 DEF Procs, Places, StartAnswer
  <2> QED
    BY <1>1, <2>1, <2>2, <2>3, <2>5, <2>6, <2>7, PumpingStep
<1>4. ASSUME NEW p \in Procs, StartAlarm(p) PROVE Pumping'
  <2> DEFINE e == used.events + 1
             n == used.jobs + 1
             E == Put(None, e, [open |-> TRUE, acked |-> FALSE])
             row == Enqueued(Nothing, e, 1)
             J == Put(None, n, row)
  <2>1. e \in EventIds /\ n \in JobIds /\ 1 \in 1..Phones
    BY <1>4, Ids DEF StartAlarm, Inv, Structure, Tables, EventIds, JobIds
  <2>2. row \in JobRows /\ row.status # "sent"
    BY <2>1, EnqueuedRow DEF Enqueued, Queued
  <2>3. [open |-> TRUE, acked |-> FALSE] \in AlarmRows
    BY DEF AlarmRows
  <2>4. E \in Partial(EventIds, AlarmRows)
    <3>1. None \in Partial(EventIds, AlarmRows)
      BY NoneIsPartial
    <3> QED
      BY <2>1, <2>3, <3>1, PutRow
  <2>5. J \in Partial(JobIds, JobRows)
    <3>1. None \in Partial(JobIds, JobRows)
      BY NoneIsPartial
    <3> HIDE DEF row
    <3> QED
      BY <2>1, <2>2, <3>1, PutRow
  <2>6. \A j \in DOMAIN J : J[j] = row
    BY <1>1 DEF Put
  <2>7. PICK u : u = [Nothing EXCEPT !.events = E, !.jobs = J]
    OBVIOUS
  <2>8. Continue(p, u, "scan") /\ db' = db
    BY <1>4, <2>7 DEF StartAlarm, Nothing
  <2> HIDE DEF row, E, J
  <2>9. u \in Transactions /\ u.jobs = J
    BY <1>1, <2>4, <2>5, <2>7 DEF Transactions
  <2> QED
    BY <2>2, <2>6, <2>8, <2>9, ElsewhereStep
<1>5. ASSUME NEW p \in Procs, StartSilence(p) PROVE Pumping'
  <2>1. PICK e \in EventIds : Continue(p, [Nothing EXCEPT !.target = e], "ack")
    BY <1>5 DEF StartSilence
  <2>2. PICK u : u = [Nothing EXCEPT !.target = e]
    OBVIOUS
  <2>3. u \in Transactions /\ u.jobs = None
    BY <1>1, <2>2, Ids DEF Transactions
  <2> QED
    BY <1>1, <1>5, <2>1, <2>2, <2>3, ElsewhereStep DEF StartSilence
<1> QED
  BY <1>2, <1>3, <1>4, <1>5

-----------------------------------------------------------------------------
(* The theorems. *)

LEMMA InitInv == Init => Inv
<1> SUFFICES ASSUME Init PROVE Inv
  OBVIOUS
<1>1. db.events = [e \in EventIds |-> NoEvent] /\ db.jobs = [j \in JobIds |-> NoJob]
  BY DEF Init
<1>2. Tables /\ FreshIds
  <2>1. NoEvent \in AlarmRows
    BY DEF NoEvent, AlarmRows
  <2>2. [e \in EventIds |-> NoEvent] \in [EventIds -> AlarmRows]
    BY <2>1
  <2>3. [j \in JobIds |-> NoJob] \in [JobIds -> JobRows \cup {NoJob}]
    OBVIOUS
  <2>4. db \in [events : [EventIds -> AlarmRows], jobs : [JobIds -> JobRows \cup {NoJob}]]
    BY <2>2, <2>3 DEF Init
  <2>5. used \in [events : 0..MaxEvents, jobs : 0..MaxJobs] /\ crashes \in 0..MaxCrashes
    BY TransactionsAssumption DEF Init
  <2> QED
    BY <1>1, <2>4, <2>5 DEF Init, Tables, FreshIds
<1>3. \A p \in Procs : tx[p] = Nothing
  BY DEF Init
<1>4. tx \in [Procs -> Transactions]
  BY NothingIsSound DEF Init
<1>5. Nothing.held = {} /\ DOMAIN Nothing.jobs = {} /\ Nothing.sent = 0
  BY NoneIsPartial DEF Nothing
<1>6. Structure
  BY <1>2, <1>3, <1>4, <1>5, NothingIsSound DEF Structure, Apart
<1>7. Counted
  BY <1>3, <1>5 DEF Init, Counted
<1> QED
  BY <1>6, <1>7 DEF Inv

LEMMA StepKeepsInv == ASSUME Inv, NEW p \in Procs, Step(p) PROVE Inv'
<1>1. CASE Victim(p)
  <2>1. crashes' \in 0..MaxCrashes
    BY <1>1 DEF Victim, Inv, Structure, Tables
  <2> QED
    BY <1>1, <2>1, RollbackKeeps DEF Victim
<1> QED
  BY <1>1, FinishKeeps, FlushKeeps, ScanKeeps, LockKeeps, LockedKeeps, ExpireKeeps, PumpKeeps,
     AckKeeps, ReadQueueKeeps, CancelKeeps, CancelledKeeps, CommitKeeps DEF Step

LEMMA NextInv == Inv /\ [Next]_vars => Inv'
<1> SUFFICES ASSUME Inv, [Next]_vars PROVE Inv'
  OBVIOUS
<1>1. ASSUME NEW p \in Procs, Crash(p) PROVE Inv'
  <2>1. crashes' \in 0..MaxCrashes
    BY <1>1, TransactionsAssumption DEF Crash, Inv, Structure, Tables
  <2> QED
    BY <1>1, <2>1, RollbackKeeps DEF Crash
<1>2. CASE UNCHANGED vars
  BY <1>2 DEF vars, Inv, Structure, Counted, Tables, FreshIds, Sound, AimsAtRows, WritesItsOwn,
              LoadedIsCurrent, SentIsWritten, Known, Apart
<1> QED
  BY <1>1, <1>2, StartPumpKeeps, StartAnswerKeeps, StartAlarmKeeps, StartSilenceKeeps, StepKeepsInv
  DEF Next

LEMMA Invariance == Spec => []Inv
<1>1. Init => Inv
  BY InitInv
<1>2. Inv /\ [Next]_vars => Inv'
  BY NextInv
<1> QED
  BY <1>1, <1>2, PTL DEF Spec

\* A step that writes no job.
LEMMA ReadingPumping ==
  ASSUME Inv, Pumping, NEW p \in Procs, NEW u \in Transactions, NEW at \in Places,
         Continue(p, u, at), db' = db, u.jobs = tx[p].jobs, Accounted([u EXCEPT !.at = at])
  PROVE  Pumping'
<1>1. \A j \in DOMAIN u.jobs : u.jobs[j].status = "sent" => db.jobs[j].status \in {"none", "queued"}
  BY DEF Pumping, SentWasQueued
<1> QED
  BY <1>1, PumpingStep

LEMMA FinishPumping == ASSUME Inv, Pumping, NEW p \in Procs, Finish(p) PROVE Pumping'
<1> DEFINE t == tx[p]
<1>1. t.at = "finish" /\ Sound(t) /\ Accounted(t) /\ t.rows = None
  BY DEF Finish, Inv, Structure, Pumping, Accounted
<1>2. t.target \in JobIds /\ Known(t, t.target)
  BY <1>1 DEF Sound, AimsAtRows
<1>3. PICK u : u = Ended(t, t.target, "done")
  OBVIOUS
<1>4. /\ u \in Transactions /\ u.rows = None
      /\ \A i \in DOMAIN u.jobs : u.jobs[i].status = "sent" => db.jobs[i].status \in {"none", "queued"}
  BY <1>1, <1>2, <1>3, EndingSettles
<1>5. Accounted([u EXCEPT !.at = "flush"])
  BY <1>4 DEF Accounted, Transactions
<1>6. Continue(p, u, "flush") /\ db' = db /\ "flush" \in Places
  BY <1>3 DEF Finish, Places
<1> QED
  BY <1>4, <1>5, <1>6, PumpingStep

LEMMA ExpirePumping == ASSUME Inv, Pumping, NEW p \in Procs, Expire(p) PROVE Pumping'
<1> DEFINE t == tx[p]
<1>1. /\ t.at = "pump" /\ Sound(t) /\ t \in Transactions
      /\ \A i \in t.seen : i \in DOMAIN t.rows \/ Settled(t, i)
  BY DEF Expire, Inv, Structure, Sound, Pumping, Accounted
<1>2. PICK j \in InState(t, "sent") : Continue(p, Ended(t, j, "failed"), "flush")
  BY DEF Expire
<1>3. j \in JobIds /\ Known(t, j)
  BY <1>1, LoadedRows DEF InState, Sound, LoadedIsCurrent
<1>4. PICK u : u = Ended(t, j, "failed")
  OBVIOUS
<1>5. /\ u \in Transactions /\ u.rows = t.rows /\ u.seen = t.seen
      /\ \A i \in DOMAIN u.jobs : u.jobs[i].status = "sent" => db.jobs[i].status \in {"none", "queued"}
      /\ \A i \in JobIds : Settled(t, i) => Settled(u, i)
  BY <1>3, <1>4, EndingSettles
<1>6. PICK w : w = [u EXCEPT !.at = "flush"]
  OBVIOUS
<1>7. w.at = "flush" /\ w.rows = t.rows /\ w.seen = t.seen /\ w.jobs = u.jobs
  BY <1>5, <1>6 DEF Transactions
<1>8. \A i \in t.seen : i \in DOMAIN t.rows \/ Settled(w, i)
  <2>1. t.seen \subseteq JobIds
    BY <1>1 DEF Transactions
  <2> QED
    BY <1>1, <1>5, <1>7, <2>1 DEF Settled, Jobs
<1>9. Accounted(w)
  BY <1>7, <1>8 DEF Accounted
<1>10. db' = db /\ "flush" \in Places
  BY DEF Expire, Places
<1> QED
  BY <1>2, <1>4, <1>5, <1>6, <1>9, <1>10, PumpingStep

LEMMA FlushPumping == ASSUME Inv, Pumping, NEW p \in Procs, Flush(p) PROVE Pumping'
<1> DEFINE t == tx[p]
           at == IF t.rows = None THEN "scan" ELSE "pump"
<1>1. Tables /\ t \in Transactions /\ t.at = "flush" /\ Accounted(t)
  BY Before DEF Inv, Flush, Pumping
<1>2. PICK E \in Partial(EventIds, AlarmRows) : Flushed(t) = [t EXCEPT !.events = E, !.read = None]
  BY <1>1, FlushedWrites
<1>3. PICK u : u = Flushed(t)
  OBVIOUS
<1>4. u \in Transactions /\ u.jobs = t.jobs /\ u.rows = t.rows /\ u.seen = t.seen
  <2>1. None \in Partial(EventIds, BOOLEAN)
    BY NoneIsPartial
  <2> QED
    BY <1>1, <1>2, <1>3, <2>1 DEF Transactions
<1>5. PICK w : w = [u EXCEPT !.at = at]
  OBVIOUS
<1>6. w.at = at /\ w.rows = t.rows /\ w.seen = t.seen /\ w.jobs = t.jobs
  BY <1>4, <1>5 DEF Transactions
<1>7. Accounted(w)
  BY <1>1, <1>6 DEF Accounted, Settled, Jobs
<1>8. Continue(p, u, at) /\ db' = db /\ at \in Places
  BY <1>3 DEF Flush, Places
<1> HIDE DEF at
<1> QED
  BY <1>4, <1>5, <1>7, <1>8, ReadingPumping

LEMMA ScanPumping == ASSUME Inv, Pumping, NEW p \in Procs, Scan(p) PROVE Pumping'
<1> DEFINE t == tx[p]
           matching == {j \in JobIds : Active(Jobs(t)[j])}
<1>1. t \in Transactions
  BY Before DEF Inv
<1>2. PICK u : u = [t EXCEPT !.todo = matching, !.seen = matching]
  OBVIOUS
<1>3. u \in Transactions /\ u.jobs = t.jobs /\ u.todo = matching /\ u.seen = matching
  BY <1>1, <1>2 DEF Transactions
<1>4. Accounted([u EXCEPT !.at = "lock"])
  BY <1>3 DEF Accounted, Transactions
<1>5. Continue(p, u, "lock") /\ db' = db /\ "lock" \in Places
  BY <1>2 DEF Scan, Places
<1> QED
  BY <1>3, <1>4, <1>5, ReadingPumping

LEMMA LockPumping == ASSUME Inv, Pumping, NEW p \in Procs, Lock(p) PROVE Pumping'
<1> DEFINE t == tx[p]
           j == Min(t.todo)
           L == IF Active(Jobs(t)[j]) THEN Put(t.rows, j, Jobs(t)[j]) ELSE t.rows
<1>1. /\ Tables /\ t \in Transactions /\ Sound(t) /\ Accounted(t)
      /\ t.at = "lock" /\ t.todo # {} /\ t.todo \subseteq JobIds /\ t.seen \subseteq JobIds
  BY Before DEF Inv, Lock, Pumping, Transactions
<1>2. j \in t.todo /\ j \in JobIds /\ Known(t, j)
  BY <1>1, Ids, MinIsIn DEF Sound, AimsAtRows
<1>3. Jobs(t)[j] \in JobRows
  BY <1>1, <1>2, Views
<1>4. L \in Partial(JobIds, JobRows)
  <2>1. t.rows \in Partial(JobIds, JobRows)
    BY <1>1 DEF Transactions
  <2> QED
    BY <1>2, <1>3, <2>1, PutRow
<1>5. DOMAIN t.rows \subseteq DOMAIN L /\ (j \in DOMAIN L \/ Settled(t, j))
  <2>1. CASE Active(Jobs(t)[j])
    BY <2>1 DEF Put
  <2>2. CASE ~Active(Jobs(t)[j])
    BY <1>3, <2>2 DEF Active, Settled, JobRows
  <2> QED
    BY <2>1, <2>2
<1>6. PICK u : u = [t EXCEPT !.todo = t.todo \ {j}, !.rows = L]
  OBVIOUS
<1>7. Continue(p, u, "lock") /\ db' = db /\ "lock" \in Places
  BY <1>1, <1>6 DEF Lock, Transactions, Places
<1> HIDE DEF L, j
<1>8. u \in Transactions /\ u.jobs = t.jobs /\ u.todo = t.todo \ {j} /\ u.rows = L /\ u.seen = t.seen
  BY <1>1, <1>4, <1>6 DEF Transactions
<1>9. PICK w : w = [u EXCEPT !.at = "lock"]
  OBVIOUS
<1>10. w.at = "lock" /\ w.jobs = t.jobs /\ w.todo = t.todo \ {j} /\ w.rows = L /\ w.seen = t.seen
  BY <1>8, <1>9 DEF Transactions
<1>11. \A i \in t.seen : i \in t.todo \/ i \in DOMAIN t.rows \/ Settled(t, i)
  BY <1>1 DEF Accounted
<1>12. Accounted(w)
  BY <1>5, <1>10, <1>11 DEF Accounted, Settled, Jobs
<1> QED
  BY <1>7, <1>8, <1>9, <1>12, ReadingPumping

LEMMA LockedPumping == ASSUME Inv, Pumping, NEW p \in Procs, Locked(p) PROVE Pumping'
<1>1. tx[p] \in Transactions /\ Accounted(tx[p]) /\ tx[p].at = "lock" /\ tx[p].todo = {}
  BY Before DEF Inv, Pumping, Locked
<1>2. Accounted([tx[p] EXCEPT !.at = "pump"])
  BY <1>1 DEF Accounted, Settled, Jobs, Transactions
<1> QED
  BY <1>1, <1>2, ReadingPumping DEF Locked, Places

\* The pump sends only a queued job, and its transaction ends.
LEMMA PumpPumping == ASSUME Inv, Pumping, NEW p \in Procs, Pump(p) PROVE Pumping'
<1> DEFINE t == tx[p]
<1>1. t \in Transactions /\ t.at = "pump" /\ Continue(p, Pumped(t), "commit") /\ db' = db
  BY Before DEF Inv, Pump
<1>2. CASE Pumped(t) = t
  <2>1. \A j \in DOMAIN t.jobs : t.jobs[j].status = "sent" => db.jobs[j].status \in {"none", "queued"}
    BY DEF Pumping, SentWasQueued
  <2> QED
    BY <1>1, <1>2, <2>1, ElsewhereStep
<1>3. ASSUME NEW j \in JobIds, NEW J, NEW R,
             Pumped(t) = [t EXCEPT !.jobs = J, !.sent = j, !.read = R],
             Writes(t, j, J), DOMAIN J = DOMAIN t.jobs \cup {j}, R \in Partial(EventIds, BOOLEAN),
             db.jobs[j].status \in {"none", "queued"}
      PROVE  Pumping'
  <2>1. Pumped(t) \in Transactions /\ Pumped(t).jobs = J
    BY <1>1, <1>3 DEF Transactions, Writes
  <2>2. \A i \in DOMAIN J : J[i].status = "sent" => db.jobs[i].status \in {"none", "queued"}
    BY <1>3 DEF Writes, Pumping, SentWasQueued
  <2> QED
    BY <1>1, <2>1, <2>2, ElsewhereStep
<1> QED
  BY <1>1, <1>2, <1>3, PumpedSends

\* The steps of a confirmation.
LEMMA SilencingPumping ==
  ASSUME Inv, Pumping, NEW p \in Procs, Ack(p) \/ ReadQueue(p) \/ Cancel(p) \/ Cancelled(p)
  PROVE  Pumping'
<1> DEFINE t == tx[p]
<1>1. Tables /\ t \in Transactions /\ Sound(t)
  BY Before DEF Inv
<1>2. \A j \in DOMAIN t.jobs : t.jobs[j].status = "sent" => db.jobs[j].status \in {"none", "queued"}
  BY DEF Pumping, SentWasQueued
<1>3. CASE Ack(p)
  <2> DEFINE E == Put(t.events, t.target, [open |-> TRUE, acked |-> TRUE])
  <2>1. t.target \in EventIds
    BY <1>1, <1>3 DEF Sound, AimsAtRows, Ack
  <2>2. E \in Partial(EventIds, AlarmRows)
    <3>1. [open |-> TRUE, acked |-> TRUE] \in AlarmRows /\ t.events \in Partial(EventIds, AlarmRows)
      BY <1>1 DEF AlarmRows, Transactions
    <3> QED
      BY <2>1, <3>1, PutRow
  <2>3. PICK u : u = [t EXCEPT !.events = E]
    OBVIOUS
  <2>4. Continue(p, u, "read") /\ db' = db
    BY <1>1, <1>3, <2>3 DEF Ack, Transactions
  <2> HIDE DEF E
  <2>5. u \in Transactions /\ u.jobs = t.jobs
    BY <1>1, <2>2, <2>3 DEF Transactions
  <2> QED
    BY <1>2, <2>4, <2>5, ElsewhereStep
<1>4. CASE ReadQueue(p)
  <2>1. PICK queued \in SUBSET JobIds : Continue(p, [t EXCEPT !.todo = queued], "cancel")
    BY <1>4 DEF ReadQueue
  <2>2. PICK u : u = [t EXCEPT !.todo = queued]
    OBVIOUS
  <2>3. u \in Transactions /\ u.jobs = t.jobs
    BY <1>1, <2>2 DEF Transactions
  <2> QED
    BY <1>2, <1>4, <2>1, <2>2, <2>3, ElsewhereStep DEF ReadQueue
<1>5. CASE Cancel(p)
  <2> DEFINE j == Min(t.todo)
             row == [Jobs(t)[j] EXCEPT !.status = "cancelled"]
             J == Put(t.jobs, j, row)
  <2>1. t.todo \subseteq JobIds /\ t.todo # {}
    BY <1>1, <1>5 DEF Cancel, Transactions
  <2>2. j \in JobIds /\ Known(t, j)
    BY <1>1, <2>1, Ids, MinIsIn DEF Sound, AimsAtRows
  <2>3. row \in JobRows /\ row.status = "cancelled"
    BY <1>1, <2>2, Views DEF JobRows
  <2>4. PICK u : u = [t EXCEPT !.todo = t.todo \ {j}, !.jobs = J]
    OBVIOUS
  <2>5. Continue(p, u, "cancel") /\ db' = db
    BY <1>1, <1>5, <2>4 DEF Cancel, Transactions
  <2>6. J \in Partial(JobIds, JobRows) /\ \A i \in DOMAIN J : J[i] = row \/ (i \in DOMAIN t.jobs /\ J[i] = t.jobs[i])
    <3>1. t.jobs \in Partial(JobIds, JobRows)
      BY <1>1 DEF Transactions
    <3> HIDE DEF row, j
    <3>2. J \in Partial(JobIds, JobRows)
      BY <2>2, <2>3, <3>1, PutRow
    <3> QED
      BY <3>2 DEF Put
  <2> HIDE DEF J, row, j
  <2>7. u \in Transactions /\ u.jobs = J
    BY <1>1, <2>4, <2>6 DEF Transactions
  <2> QED
    BY <1>2, <2>3, <2>5, <2>6, <2>7, ElsewhereStep
<1>6. CASE Cancelled(p)
  <2> DEFINE at == IF p = "message" THEN "scan" ELSE "commit"
  <2>1. Continue(p, t, at) /\ db' = db /\ at \in {"scan", "commit"}
    BY <1>6 DEF Cancelled
  <2> HIDE DEF at
  <2> QED
    BY <1>1, <1>2, <2>1, ElsewhereStep
<1> QED
  BY <1>3, <1>4, <1>5, <1>6

\* What is committed by one leaves the others what they count on.
LEMMA CommitPumping == ASSUME Inv, Pumping, NEW p \in Procs, Commit(p) PROVE Pumping'
<1>1. Structure /\ Tables /\ tx[p] \in Transactions /\ tx \in [Procs -> Transactions]
  BY Before DEF Inv, Structure
<1>2. PICK t : t = Flushed(tx[p])
  OBVIOUS
<1>3. t \in Transactions /\ t.jobs = tx[p].jobs
  <2>1. PICK E \in Partial(EventIds, AlarmRows) : t = [tx[p] EXCEPT !.events = E, !.read = None]
    BY <1>1, <1>2, FlushedWrites
  <2>2. None \in Partial(EventIds, BOOLEAN)
    BY NoneIsPartial
  <2> QED
    BY <1>1, <2>1, <2>2 DEF Transactions
<1>4. /\ \A j \in DOMAIN tx[p].jobs : db'.jobs[j] = tx[p].jobs[j] /\ db'.jobs[j] \in JobRows
      /\ \A j \in JobIds \ DOMAIN tx[p].jobs : db'.jobs[j] = db.jobs[j]
  <2>1. db' = [events |-> Events(t), jobs |-> Jobs(t)]
    BY <1>2 DEF Commit
  <2> QED
    BY <1>1, <1>3, <2>1, Views
<1>5. tx'[p] = Nothing /\ \A q \in Procs \ {p} : tx'[q] = tx[q]
  BY <1>1 DEF Commit
<1>6. \A j \in JobIds : db.jobs[j].status \in {"done", "failed", "cancelled"} =>
                         db'.jobs[j].status \in {"done", "failed", "cancelled"}
  <2> SUFFICES ASSUME NEW j \in DOMAIN tx[p].jobs, db.jobs[j].status \in {"done", "failed", "cancelled"}
               PROVE  tx[p].jobs[j].status \in {"done", "failed", "cancelled"}
    BY <1>4
  <2>1. tx[p].jobs[j].status # "sent"
    BY DEF Pumping, SentWasQueued
  <2>2. tx[p].jobs[j].status # "queued"
    BY <1>1 DEF Structure, Sound, WritesItsOwn, NoJob
  <2> QED
    BY <1>4, <2>1, <2>2 DEF JobRows
<1>7. ASSUME NEW q \in Procs \ {p} PROVE SentWasQueued(tx[q])' /\ Accounted(tx[q])'
  <2>1. tx[q] \in Transactions /\ Apart(tx[p], tx[q]) /\ DOMAIN tx[q].jobs \subseteq JobIds
    BY <1>1, Views DEF Structure
  <2>2. tx[q].seen \subseteq JobIds /\ SentWasQueued(tx[q]) /\ Accounted(tx[q]) /\ tx'[q] = tx[q]
    BY <1>5, <2>1 DEF Transactions, Pumping
  <2>3. \A j \in DOMAIN tx[q].jobs : db'.jobs[j] = db.jobs[j]
    BY <1>4, <2>1 DEF Apart
  <2>4. \A j \in JobIds : Settled(tx[q], j) => Settled(tx[q], j)'
    <3> SUFFICES ASSUME NEW j \in JobIds, Settled(tx[q], j) PROVE Settled(tx[q], j)'
      OBVIOUS
    <3>1. Tables'
      BY <1>1, NextInv DEF Commit, Next, Step, Inv, Structure
    <3>2. CASE j \in DOMAIN tx[q].jobs
      <4>1. Jobs(tx[q])[j] = tx[q].jobs[j]
        BY <1>1, <2>1, <3>2, Views
      <4>2. Over(tx[q].jobs, db'.jobs)[j] = tx[q].jobs[j]
        BY <3>2 DEF Over
      <4> QED
        BY <2>2, <4>1, <4>2 DEF Settled, Jobs
    <3>3. CASE j \notin DOMAIN tx[q].jobs
      <4>1. Jobs(tx[q])[j] = db.jobs[j]
        BY <1>1, <2>1, <3>3, Views
      <4>2. j \in DOMAIN db'.jobs
        BY <3>1 DEF Tables
      <4>3. Over(tx[q].jobs, db'.jobs)[j] = db'.jobs[j]
        BY <3>3, <4>2 DEF Over
      <4> QED
        BY <1>6, <2>2, <4>1, <4>3 DEF Settled, Jobs
    <3> QED
      BY <3>2, <3>3
  <2>5. SentWasQueued(tx[q])'
    BY <2>2, <2>3 DEF SentWasQueued
  <2>6. Accounted(tx[q])'
    BY <2>2, <2>4 DEF Accounted
  <2> QED
    BY <2>5, <2>6
<1>8. /\ Nothing.at = "idle" /\ DOMAIN Nothing.jobs = {}
  BY NoneIsPartial DEF Nothing
<1> QED
  BY <1>5, <1>7, <1>8 DEF Pumping, SentWasQueued, Accounted, Settled

LEMMA RollbackPumping == ASSUME Inv, Pumping, NEW p \in Procs, Rollback(p) PROVE Pumping'
<1>1. tx'[p] = Nothing /\ \A q \in Procs \ {p} : tx'[q] = tx[q]
  BY DEF Inv, Structure, Rollback
<1>2. Nothing.at = "idle" /\ DOMAIN Nothing.jobs = {}
  BY NoneIsPartial DEF Nothing
<1> QED
  BY <1>1, <1>2 DEF Pumping, SentWasQueued, Accounted, Settled, Jobs, Rollback

LEMMA PumpingInvariant == Spec => [](Inv /\ Pumping)
<1>1. Init => Inv /\ Pumping
  <2> SUFFICES ASSUME Init PROVE Inv /\ Pumping
    OBVIOUS
  <2>1. \A p \in Procs : tx[p] = Nothing
    BY DEF Init
  <2>2. Nothing.at = "idle" /\ DOMAIN Nothing.jobs = {}
    BY NoneIsPartial DEF Nothing
  <2> QED
    BY <2>1, <2>2, InitInv DEF Pumping, SentWasQueued, Accounted
<1>2. Inv /\ Pumping /\ [Next]_vars => (Inv /\ Pumping)'
  <2> SUFFICES ASSUME Inv, Pumping, [Next]_vars PROVE Pumping'
    BY NextInv
  <2>1. CASE UNCHANGED vars
    BY <2>1 DEF vars, Pumping, SentWasQueued, Accounted, Settled, Jobs
  <2>2. ASSUME NEW p \in Procs, Step(p) \/ Crash(p) PROVE Pumping'
    BY <2>2, FinishPumping, FlushPumping, ScanPumping, LockPumping, LockedPumping, ExpirePumping,
       PumpPumping, SilencingPumping, CommitPumping, RollbackPumping DEF Step, Crash, Victim
  <2>3. CASE StartPump \/ StartAnswer \/ \E p \in Procs : StartAlarm(p) \/ StartSilence(p)
    BY <2>3, BeginningPumping
  <2> QED
    BY <2>1, <2>2, <2>3 DEF Next
<1> QED
  BY <1>1, <1>2, PTL DEF Spec

\* However the transactions of the panel, the messages and the loop interleave, no
\* row is written by two of them at a time, and every row is what it is.
THEOREM TypeCorrect == Spec => []TypeOK
<1>1. Inv => TypeOK
  <2> SUFFICES ASSUME Inv PROVE TypeOK
    OBVIOUS
  <2>1. JobRows \cup {NoJob} \subseteq
          [event : 0..MaxEvents, phone : 0..Phones,
           status : {"none", "queued", "sent", "done", "failed", "cancelled"}]
    BY TransactionsAssumption DEF JobRows, NoJob, EventIds
  <2>2. /\ db.events \in [EventIds -> AlarmRows] /\ db.jobs \in [JobIds -> JobRows \cup {NoJob}]
        /\ out \subseteq JobIds /\ crashes \in 0..MaxCrashes
    BY DEF Inv, Structure, Tables
  <2>3. db.jobs \in [JobIds -> [event : 0..MaxEvents, phone : 0..Phones,
                     status : {"none", "queued", "sent", "done", "failed", "cancelled"}]]
    BY <2>1, <2>2
  <2>4. \A p \in Procs : tx[p].held \subseteq Rows /\ Free(p, tx[p].held)
    BY DEF Inv, Structure, Transactions, Apart, Free
  <2>5. published \in [JobIds -> Nat]
    BY DEF Inv, Counted
  <2> QED
    BY <2>2, <2>3, <2>4, <2>5 DEF TypeOK, AlarmRows
<1> QED
  BY <1>1, Invariance, PTL

\* Thanks to FOR UPDATE, pump_modem_queue never publishes a job that a transaction
\* which was not rolled back has published.
THEOREM PublishedOnceHolds == Spec => []PublishedOnce
<1>1. Inv => PublishedOnce
  BY DEF Inv, Counted, PublishedOnce
<1> QED
  BY <1>1, Invariance, PTL

\* A publication more is the pump's.
LEMMA OnlyPumpPublishes ==
  ASSUME Inv, [Next]_vars, NEW j \in JobIds, published'[j] > published[j]
  PROVE  \E p \in Procs : Pump(p) /\ j = Pumped(tx[p]).sent
<1>1. published \in [JobIds -> 0..1] /\ published[j] \in 0..1
  BY DEF Inv, Counted
<1>2. published' # published
  BY <1>1
<1>3. ASSUME NEW p \in Procs, Rollback(p) PROVE FALSE
  BY <1>1, <1>3 DEF Rollback
<1>4. PICK p \in Procs : Pump(p)
  BY <1>2, <1>3
  DEF Next, vars, StartPump, StartAnswer, StartAlarm, StartSilence, Step, Crash, Finish, Flush,
      Scan, Lock, Locked, Expire, Ack, ReadQueue, Cancel, Cancelled, Commit, Victim
<1>5. j = Pumped(tx[p]).sent
  BY <1>1, <1>4 DEF Pump
<1> QED
  BY <1>4, <1>5

\* A pump sends a job only when every other it found has ended, in the table as it
\* is when it sends: its FOR UPDATE waits, reads again and holds what it has read,
\* and what has ended stays so whatever the other transactions commit.
THEOREM SendsAloneHolds == Spec => SendsAlone
<1>1. ASSUME Inv, Pumping, [Next]_vars, NEW p \in Procs, NEW j \in JobIds,
             published'[j] > published[j], tx'[p].sent = j, NEW i \in tx[p].seen
      PROVE  Jobs(tx[p])[i].status # "sent"
  <2>1. PICK q \in Procs : Pump(q) /\ j = Pumped(tx[q]).sent
    BY <1>1, OnlyPumpPublishes
  <2>2. /\ tx[q] \in Transactions /\ tx[p] \in Transactions /\ tx \in [Procs -> Transactions]
        /\ Tables /\ tx[q].at = "pump" /\ tx[q].sent = 0 /\ j # 0
    BY <1>1, <2>1, Before, Ids DEF Inv, Pump, Structure
  <2>3. p = q
    <3> SUFFICES ASSUME p # q PROVE FALSE
      OBVIOUS
    <3>1. tx'[p] = tx[p]
      BY <2>1, <2>2 DEF Pump, Continue
    <3>2. tx[p].sent = j /\ published[j] = 1
      BY <1>1, <2>2, <3>1 DEF Inv, Counted
    <3>3. published'[j] \in 0..1
      <4>1. Inv'
        BY <1>1, NextInv
      <4> QED
        BY <4>1 DEF Inv, Counted
    <3> QED
      BY <1>1, <3>2, <3>3
  <2>4. InState(tx[p], "sent") = {}
    BY <2>1, <2>2, <2>3 DEF Pumped
  <2>5. i \in DOMAIN tx[p].rows \/ Settled(tx[p], i)
    BY <1>1, <2>2, <2>3 DEF Pumping, Accounted
  <2>6. CASE i \in DOMAIN tx[p].rows
    <3>1. Loaded(tx[p])[i].status # "sent"
      BY <2>4, <2>6 DEF InState
    <3>2. i \in JobIds
      BY <1>1, <2>2 DEF Transactions
    <3>3. Jobs(tx[p])[i] = Loaded(tx[p])[i]
      <4>1. CASE i \in DOMAIN tx[p].jobs
        BY <2>2, <4>1, LoadedRows, Views
      <4>2. CASE i \notin DOMAIN tx[p].jobs
        <5>1. tx[p].rows[i] = db.jobs[i]
          BY <1>1, <2>6, <4>2 DEF Inv, Structure, Sound, LoadedIsCurrent
        <5> QED
          BY <2>2, <2>6, <3>2, <4>2, <5>1, LoadedRows, Views
      <4> QED
        BY <4>1, <4>2
    <3> QED
      BY <3>1, <3>3
  <2>7. CASE Settled(tx[p], i)
    BY <2>7 DEF Settled
  <2> QED
    BY <2>5, <2>6, <2>7
<1>2. Inv /\ Pumping /\ [Next]_vars =>
        [\A p \in Procs, j \in JobIds :
           published'[j] > published[j] /\ tx'[p].sent = j
             => \A i \in tx[p].seen : Jobs(tx[p])[i].status # "sent"]_vars
  BY <1>1
<1> QED
  BY <1>2, PumpingInvariant, PTL DEF SendsAlone, Spec

\* A job whose cancellation is committed is not published, not even by the pump
\* that read the queue before and waited for its row.
THEOREM CancelledStaysSilentHolds == Spec => CancelledStaysSilent
<1>1. ASSUME Inv, [Next]_vars, NEW j \in JobIds, published'[j] > published[j]
      PROVE  db.jobs[j].status # "cancelled"
  <2>1. PICK p \in Procs : Pump(p) /\ j = Pumped(tx[p]).sent
    BY <1>1, OnlyPumpPublishes
  <2>2. tx[p] \in Transactions
    BY <1>1 DEF Inv, Structure
  <2>3. db.jobs[j].status \in {"none", "queued"}
    <3>1. tx[p].at = "pump" /\ j # 0
      BY <2>1, Ids DEF Pump
    <3>2. CASE Pumped(tx[p]) = tx[p] /\ tx[p].sent = 0
      BY <2>1, <3>1, <3>2
    <3>3. CASE \E i \in JobIds : \E J, R :
                 /\ Pumped(tx[p]) = [tx[p] EXCEPT !.jobs = J, !.sent = i, !.read = R]
                 /\ Writes(tx[p], i, J) /\ DOMAIN J = DOMAIN tx[p].jobs \cup {i}
                 /\ J[i].status = "sent" /\ R \in Partial(EventIds, BOOLEAN)
                 /\ JobRow(i) \in tx[p].held /\ Known(tx[p], i)
                 /\ db.jobs[i].status \in {"none", "queued"}
      <4>1. PICK i \in JobIds : \E J, R :
                   /\ Pumped(tx[p]) = [tx[p] EXCEPT !.jobs = J, !.sent = i, !.read = R]
                   /\ db.jobs[i].status \in {"none", "queued"}
        BY <3>3, Zenon
      <4>2. PICK J, R : Pumped(tx[p]) = [tx[p] EXCEPT !.jobs = J, !.sent = i, !.read = R]
        BY <4>1, Zenon
      <4>3. Pumped(tx[p]).sent = i
        BY <2>2, <4>2 DEF Transactions
      <4> QED
        BY <2>1, <4>1, <4>3
    <3> QED
      BY <1>1, <3>1, <3>2, <3>3, PumpedSends, Zenon
  <2> QED
    BY <2>3
<1>2. Inv /\ [Next]_vars => [\A j \in JobIds : published'[j] > published[j] => db.jobs[j].status # "cancelled"]_vars
  BY <1>1
<1> QED
  BY <1>2, Invariance, PTL DEF CancelledStaysSilent, Spec
=============================================================================
