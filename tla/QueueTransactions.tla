--------------------------- MODULE QueueTransactions ---------------------------
(***************************************************************************)
(* The queue and the alarms as the processes that share them really change *)
(* them: the web processes, the worker's thread of the MQTT messages and   *)
(* its loop, each in transactions of its own, at READ COMMITTED, without a *)
(* lock but the FOR UPDATE of pump_modem_queue.  ModemJobs and AlarmSystem *)
(* take one transaction after the other; here their steps interleave.      *)
(*                                                                         *)
(* One device. An alarm is open or not there, confirmed or not; a job is a *)
(* call of an alarm. The payload of an alarm is one JSON value: who notes  *)
(* something in it writes back all of what it read, acked included. A row  *)
(* that is written is locked until the transaction ends.                   *)
(***************************************************************************)
EXTENDS Integers, FiniteSetsExt

CONSTANTS
  Web,          \* processes of the panel
  Phones,       \* phones of the cascade
  MaxQueuedJobs,\* MAX_QUEUED_JOBS
  MaxEvents, MaxJobs, MaxCrashes   \* bounds

ASSUME TransactionsAssumption ==
  /\ Web \cap {"message", "loop"} = {}
  /\ Phones \in Nat \ {0} /\ MaxQueuedJobs \in Nat
  /\ MaxEvents \in Nat /\ MaxJobs \in Nat /\ MaxCrashes \in Nat

Procs == Web \cup {"message", "loop"}
EventIds == 1..MaxEvents
JobIds == 1..MaxJobs
EventRow(e) == <<"event", e>>
JobRow(j) == <<"job", j>>
Rows == {EventRow(e) : e \in EventIds} \cup {JobRow(j) : j \in JobIds}

VARIABLES
  db,         \* the committed rows
  tx,         \* tx[p]: the transaction the process p is in
  used,       \* how many ids of each table were given out
  out,        \* the jobs whose command the device has and has not answered
  published,  \* history: publications of a job by transactions that were kept
  crashes     \* how many processes were killed

vars == <<db, tx, used, out, published, crashes>>

NoEvent == [open |-> FALSE, acked |-> FALSE]
NoJob == [event |-> 0, phone |-> 0, status |-> "none"]
Queued(e, n) == [event |-> e, phone |-> n, status |-> "queued"]

\* Rows written so far, by id: of none, with one more, and over others.
None == <<>>
Put(f, x, row) == [z \in DOMAIN f \cup {x} |-> IF z = x THEN row ELSE f[z]]
Over(f, g) == [z \in DOMAIN f \cup DOMAIN g |-> IF z \in DOMAIN f THEN f[z] ELSE g[z]]

Nothing == [at |-> "idle", events |-> None, jobs |-> None, read |-> None, held |-> {},
            target |-> 0, todo |-> {}, seen |-> {}, rows |-> None, sent |-> 0]

Init ==
  /\ db = [events |-> [e \in EventIds |-> NoEvent], jobs |-> [j \in JobIds |-> NoJob]]
  /\ tx = [p \in Procs |-> Nothing]
  /\ used = [events |-> 0, jobs |-> 0]
  /\ out = {} /\ crashes = 0
  /\ published = [j \in JobIds |-> 0]

------------------------------------------------------------------------------
(* What a transaction sees, and the locks.                                  *)

\* Its own writes, over what is committed at this moment.
Events(t) == Over(t.events, db.events)
Jobs(t) == Over(t.jobs, db.jobs)

\* Its own writes, over the rows the pump loaded.
Loaded(t) == Over(t.jobs, t.rows)
InState(t, status) == {j \in DOMAIN t.rows : Loaded(t)[j].status = status}

\* The payload of an alarm as the session holds it: as it was first read, if it
\* has been changed since.
Acked(t, e) == IF e \in DOMAIN t.read THEN t.read[e] ELSE Events(t)[e].acked
Noted(t, e) == [t EXCEPT !.read = Put(@, e, Acked(t, e))]

Active(job) == job.status \in {"queued", "sent"}

Free(p, rows) == \A q \in Procs \ {p} : tx[q].held \cap rows = {}

\* The alarms a transaction has noted something in are written at its next query
\* or at its end, with what it read of them.
NotedRows(t) == {EventRow(e) : e \in DOMAIN t.read}

Flushed(t) ==
  [t EXCEPT !.events = Over([e \in DOMAIN t.read |-> [Events(t)[e] EXCEPT !.acked = t.read[e]]], @),
            !.read = None]

\* Mutant: the query of the pump without its FOR UPDATE.
Wanted_NoForUpdate(p) ==
  LET t == tx[p] IN
  CASE t.at = "finish" -> {JobRow(t.target)}
    [] t.at = "ack"    -> {EventRow(t.target)}
    [] t.at = "cancel" -> IF t.todo = {} THEN {} ELSE {JobRow(Min(t.todo))}
    [] t.at \in {"flush", "commit"} -> NotedRows(t)
    [] OTHER -> {}

\* The rows the next step of p has to lock.
Wanted(p) ==
  LET t == tx[p] IN
  CASE t.at = "finish" -> {JobRow(t.target)}
    [] t.at = "ack"    -> {EventRow(t.target)}
    [] t.at \in {"lock", "cancel"}  -> IF t.todo = {} THEN {} ELSE {JobRow(Min(t.todo))}
    [] t.at \in {"flush", "commit"} -> NotedRows(t)
    [] OTHER -> {}

\* Mutant: FOR UPDATE SKIP LOCKED without its skipping: nobody waits.
May_Regardless(p) == TRUE

May(p) == Free(p, Wanted(p))

------------------------------------------------------------------------------
(* The parts of a transaction.                                              *)

\* enqueue_modem_job counts what the session sees, without a lock; a job beyond
\* the limit is a row that has failed.
Enqueued(t, e, n) ==
  IF Cardinality({j \in JobIds : Active(Jobs(t)[j])}) < MaxQueuedJobs
  THEN Queued(e, n) ELSE [Queued(e, n) EXCEPT !.status = "failed"]

\* _maybe_escalate_call: the next phone, unless the alarm reads as confirmed.
Escalated(t, j) ==
  LET job == Jobs(t)[j]
      next == used.jobs + 1
  IN  IF job.phone < Phones /\ next <= MaxJobs /\ Events(t)[job.event].open /\ ~Acked(t, job.event)
      THEN [t EXCEPT !.jobs = Put(@, next, Enqueued(t, job.event, job.phone + 1))]
      ELSE t

\* A job ends: it is noted in its alarm, and the next phone is queued.
Ended(t, j, status) ==
  LET noted == Noted([t EXCEPT !.jobs = Put(@, j, [Jobs(t)[j] EXCEPT !.status = status])], Jobs(t)[j].event)
  IN  Escalated(noted, j)

\* Of the rows read, the oldest queued job is sent, if none is in flight.
Pumped(t) ==
  LET j == Min(InState(t, "queued"))
  IN  IF InState(t, "sent") # {} \/ InState(t, "queued") = {} THEN t
      ELSE Noted([t EXCEPT !.jobs = Put(@, j, [Loaded(t)[j] EXCEPT !.status = "sent"]), !.sent = j],
                 Loaded(t)[j].event)

\* Ids are given out when the row is inserted and never again.
Give(t) == used' = [events |-> Max({used.events} \cup DOMAIN t.events),
                    jobs |-> Max({used.jobs} \cup DOMAIN t.jobs)]

Continue(p, t, at) == tx' = [tx EXCEPT ![p] = [t EXCEPT !.at = at, !.held = @ \cup Wanted(p)]]

------------------------------------------------------------------------------
(* The transactions.                                                        *)

\* The loop of the worker pumps every two seconds.
StartPump ==
  /\ tx["loop"] = Nothing
  /\ Continue("loop", Nothing, "scan")
  /\ UNCHANGED <<db, used, out, published, crashes>>

\* A rule fires, or the panel tests it: no alarm of it was open when it looked.
StartAlarm(p) ==
  LET e == used.events + 1
      t == [Nothing EXCEPT !.events = Put(@, e, [open |-> TRUE, acked |-> FALSE]),
                           !.jobs = Put(@, used.jobs + 1, Enqueued(Nothing, e, 1))]
  IN  /\ tx[p] = Nothing /\ p # "loop"
      /\ \A f \in EventIds : ~db.events[f].open
      /\ e <= MaxEvents /\ used.jobs < MaxJobs
      /\ Continue(p, t, "scan") /\ Give(t)
      /\ UNCHANGED <<db, out, published, crashes>>

\* Someone confirms: from the panel, by SMS (message) or by mail (loop).
StartSilence(p) ==
  /\ tx[p] = Nothing
  /\ \E e \in EventIds :
       /\ db.events[e].open /\ ~db.events[e].acked
       /\ Continue(p, [Nothing EXCEPT !.target = e], "ack")
  /\ UNCHANGED <<db, used, out, published, crashes>>

\* The row of the command the device answers: found by its id if it is committed,
\* otherwise the oldest that is sent, if any.
Answered(j) ==
  LET sent == {i \in JobIds : db.jobs[i].status = "sent"}
  IN  IF db.jobs[j] # NoJob THEN j ELSE IF sent # {} THEN Min(sent) ELSE 0

StartAnswer ==
  /\ tx["message"] = Nothing
  /\ \E j \in out :
       /\ out' = out \ {j}
       /\ Continue("message", [Nothing EXCEPT !.target = Answered(j)],
                   IF Answered(j) = 0 THEN "scan" ELSE "finish")
  /\ UNCHANGED <<db, used, published, crashes>>

\* complete_modem_job
Finish(p) ==
  LET t == Ended(tx[p], tx[p].target, "done") IN
  /\ tx[p].at = "finish" /\ May(p)
  /\ Continue(p, t, "flush") /\ Give(t)
  /\ UNCHANGED <<db, out, published, crashes>>

\* What was noted is written before the next query: on the way into the pump, or
\* in the middle of it when a timeout queued the next phone.
Flush(p) ==
  /\ tx[p].at = "flush" /\ May(p)
  /\ Continue(p, Flushed(tx[p]), IF tx[p].rows = None THEN "scan" ELSE "pump")
  /\ UNCHANGED <<db, used, out, published, crashes>>

\* pump_modem_queue: the rows that match when the query begins,
Scan(p) ==
  LET t == tx[p]
      matching == {j \in JobIds : Active(Jobs(t)[j])}
  IN  /\ t.at = "scan"
      /\ Continue(p, [t EXCEPT !.todo = matching, !.seen = matching], "lock")
      /\ UNCHANGED <<db, used, out, published, crashes>>

\* locked in their order, and kept if they still match then;
Lock(p) ==
  LET t == tx[p]
      j == Min(t.todo)
  IN  /\ t.at = "lock" /\ t.todo # {} /\ May(p)
      /\ Continue(p, [t EXCEPT !.todo = @ \ {j},
                               !.rows = IF Active(Jobs(t)[j]) THEN Put(@, j, Jobs(t)[j]) ELSE @], "lock")
      /\ UNCHANGED <<db, used, out, published, crashes>>

Locked(p) ==
  /\ tx[p].at = "lock" /\ tx[p].todo = {}
  /\ Continue(p, tx[p], "pump")
  /\ UNCHANGED <<db, used, out, published, crashes>>

\* the job in flight may have timed out;
Expire(p) ==
  /\ tx[p].at = "pump"
  /\ \E j \in InState(tx[p], "sent") :
       LET t == Ended(tx[p], j, "failed") IN Continue(p, t, "flush") /\ Give(t)
  /\ UNCHANGED <<db, out, published, crashes>>

\* the command is published before the commit.
Pump(p) ==
  LET t == Pumped(tx[p]) IN
  /\ tx[p].at = "pump"
  /\ Continue(p, t, "commit")
  /\ out' = out \cup ({t.sent} \ {0})
  /\ published' = [j \in JobIds |-> published[j] + IF j = t.sent THEN 1 ELSE 0]
  /\ UNCHANGED <<db, used, crashes>>

\* acknowledge_event: the alarm is written before the jobs are read.
Ack(p) ==
  LET t == tx[p] IN
  /\ t.at = "ack" /\ May(p)
  /\ Continue(p, [t EXCEPT !.events = Put(@, t.target, [open |-> TRUE, acked |-> TRUE])], "read")
  /\ UNCHANGED <<db, used, out, published, crashes>>

\* cancel_alarm_jobs reads the queue without a lock,
ReadQueue(p) ==
  LET t == tx[p]
      queued == {j \in JobIds : Jobs(t)[j].status = "queued" /\ Jobs(t)[j].event = t.target}
  IN  /\ t.at = "read"
      /\ Continue(p, [t EXCEPT !.todo = queued], "cancel")
      /\ UNCHANGED <<db, used, out, published, crashes>>

\* and writes the jobs one by one, whatever became of them.
Cancel(p) ==
  LET t == tx[p]
      j == Min(t.todo)
  IN  /\ t.at = "cancel" /\ t.todo # {} /\ May(p)
      /\ Continue(p, [t EXCEPT !.todo = @ \ {j},
                               !.jobs = Put(@, j, [Jobs(t)[j] EXCEPT !.status = "cancelled"])], "cancel")
      /\ UNCHANGED <<db, used, out, published, crashes>>

\* The thread of the messages pumps after an SMS.
Cancelled(p) ==
  /\ tx[p].at = "cancel" /\ tx[p].todo = {}
  /\ Continue(p, tx[p], IF p = "message" THEN "scan" ELSE "commit")
  /\ UNCHANGED <<db, used, out, published, crashes>>

\* It all becomes visible.
Commit(p) ==
  LET t == Flushed(tx[p])
  IN  /\ t.at = "commit" /\ May(p)
      /\ db' = [events |-> Events(t), jobs |-> Jobs(t)]
      /\ tx' = [tx EXCEPT ![p] = Nothing]
      /\ UNCHANGED <<used, out, published, crashes>>

\* Mutant: after an error the transaction goes on where it was.
Rollback_GoesOn(p) == UNCHANGED <<db, tx, used, out, published>>

\* What was published stays published.
Rollback(p) ==
  /\ tx' = [tx EXCEPT ![p] = Nothing]
  /\ published' = [j \in JobIds |-> published[j] - IF j = tx[p].sent THEN 1 ELSE 0]
  /\ UNCHANGED <<db, used, out>>

WaitsFor(p, q) == p # q /\ tx[q].held \cap Wanted(p) # {}

\* They wait for each other in a circle: the database ends one of them.
Deadlocked(p) ==
  \E circle \in SUBSET Procs :
    /\ p \in circle
    /\ \A q \in circle : /\ \E r \in circle : WaitsFor(q, r)
                        /\ \E r \in circle : WaitsFor(r, q)

Victim(p) == Deadlocked(p) /\ Rollback(p) /\ UNCHANGED crashes

Crash(p) ==
  /\ tx[p] # Nothing /\ crashes < MaxCrashes
  /\ crashes' = crashes + 1
  /\ Rollback(p)

Step(p) ==
  \/ Finish(p) \/ Flush(p) \/ Scan(p) \/ Lock(p) \/ Locked(p) \/ Expire(p) \/ Pump(p)
  \/ Ack(p) \/ ReadQueue(p) \/ Cancel(p) \/ Cancelled(p) \/ Commit(p)
  \/ Victim(p)

Next ==
  \/ StartPump \/ StartAnswer
  \/ \E p \in Procs : StartAlarm(p) \/ StartSilence(p) \/ Step(p) \/ Crash(p)

Spec == Init /\ [][Next]_vars

\* The database serves those who wait for a row in turn.
Fairness == \A p \in Procs : SF_vars(Step(p))

FairSpec == Spec /\ Fairness

------------------------------------------------------------------------------
(* Properties.                                                              *)

\* No row is written by two transactions at a time, and rows are what they are.
TypeOK ==
  /\ db.events \in [EventIds -> [open : BOOLEAN, acked : BOOLEAN]]
  /\ db.jobs \in [JobIds -> [event : 0..MaxEvents, phone : 0..Phones,
        status : {"none", "queued", "sent", "done", "failed", "cancelled"}]]
  /\ \A p \in Procs : tx[p].held \subseteq Rows /\ Free(p, tx[p].held)
  /\ out \subseteq JobIds /\ published \in [JobIds -> Nat] /\ crashes \in 0..MaxCrashes

\* The FOR UPDATE of the pump: two transactions never both send a job, however
\* they interleave, unless the first of them is rolled back.
PublishedOnce == \A j \in JobIds : published[j] <= 1

\* What the FOR UPDATE gives of "one at a time": a pump sends a job only when all
\* it found have ended, as the table is at the moment it sends, however long it
\* waited for their rows. Two are in flight together only if one of them was not
\* committed yet when the pump of the other looked.
SendsAlone ==
  [][\A p \in Procs, j \in JobIds :
       published'[j] > published[j] /\ tx'[p].sent = j
         => \A i \in tx[p].seen : Jobs(tx[p])[i].status # "sent"]_vars

\* Once a confirmation is committed, none of the jobs it cancelled is sent, not
\* even by a pump that was waiting for their rows.
CancelledStaysSilent ==
  [][\A j \in JobIds : published'[j] > published[j] => db.jobs[j].status # "cancelled"]_vars

\* Every transaction ends, those that wait for each other included.
TransactionsEnd == \A p \in Procs : tx[p] # Nothing ~> tx[p] = Nothing

\* "Para detener el escalamiento: tocar Confirmar y silenciar en el aviso"
\* (docs/ops/NOTIFICATIONS.md:355). Violated: a transaction that read the alarm
\* before the confirmation was committed, and notes the end of a call in it after,
\* queues the next phone and takes the confirmation back.
EscalationStops ==
  [][\A j \in JobIds :
       LET job == db'.jobs[j] IN
       db.jobs[j] = NoJob /\ job.status = "queued" => ~db.events[job.event].acked]_vars

\* "El backend arma una cola por equipo: una operacion de modem a la vez. Termina
\* la primera y recien sale la siguiente" (docs/ops/NOTIFICATIONS.md:85). Violated:
\* two transactions each queue a job, neither sees the other's, both send.
OneSentJob ==
  \A i, j \in JobIds : db.jobs[i].status = "sent" /\ db.jobs[j].status = "sent" => i = j

\* "Maximo 16 jobs" (docs/ops/NOTIFICATIONS.md:87). Violated: two transactions count
\* one short of the limit, and both insert.
WithinQueueLimit == Cardinality({j \in JobIds : Active(db.jobs[j])}) <= MaxQueuedJobs

\* "Esa regla ya tiene una alarma abierta. Silenciala antes de probar de nuevo."
\* (main.py:1901). Violated: the panel and the worker each look for an open alarm
\* of the rule, neither sees the other's, both fire.
OneOpenAlarm == \A e, f \in EventIds : db.events[e].open /\ db.events[f].open => e = f
================================================================================
