------------------------------ MODULE ModemJobs ------------------------------
(***************************************************************************)
(* The modem queue of one device: backend/app/modem_queue.py.              *)
(*                                                                         *)
(* Every function of that file runs inside a database transaction of its   *)
(* caller, so it is written here as an operator from a database value to   *)
(* the database value the transaction would commit.  A database value has  *)
(*   jobs, last        the rows of device_modem_jobs, ids 1..last used     *)
(*   events, lastEvent the alarm rows of events, ids 1..lastEvent used     *)
(* Ids grow with insertion, so "order by id" is the order of the ids.  A   *)
(* job id also stands for the command_id of its row; an id whose insertion *)
(* was rolled back stays used, with status "none".                         *)
(*                                                                         *)
(* Time is counted in ticks and only differences are kept: wait is what is *)
(* left of not_before, age the time since sent_at (up to one tick past the *)
(* timeout), rearm what is left until rearm_at, NoRearm when it is unset.  *)
(***************************************************************************)
EXTENDS Integers, FiniteSetsExt

CONSTANTS
  MaxJobs,        \* bound: rows of device_modem_jobs in one behaviour
  MaxEvents,      \* bound: alarm events in one behaviour
  MaxPublishFails,\* bound: refused publications in a row in one pump
  MaxQueuedJobs,  \* MAX_QUEUED_JOBS: queued and sent jobs a device may have
  CallTimeout,    \* CALL_TIMEOUT, in ticks
  SmsTimeout,     \* SMS_TIMEOUT, in ticks
  CallPhones,     \* how many phones the rule calls, in order
  SmsPhones,      \* how many phones the rule texts
  EscalateCalls,  \* escalate_calls of the rule
  EscalateDelay,  \* escalate_delay_seconds, in ticks
  Hysteresis      \* hysteresis_seconds, in ticks

ASSUME ModemJobsAssumption ==
  /\ MaxJobs \in Nat /\ MaxEvents \in Nat /\ MaxPublishFails \in Nat
  /\ MaxQueuedJobs \in Nat \ {0}
  /\ CallTimeout \in Nat /\ SmsTimeout \in Nat
  /\ CallPhones \in Nat /\ SmsPhones \in Nat
  /\ EscalateCalls \in BOOLEAN
  /\ EscalateDelay \in Nat /\ Hysteresis \in Nat

JobIds   == 1..MaxJobs
EventIds == 1..MaxEvents
NoEvent  == 0
NoRearm  == -1

Commands == {"test_call", "test_sms"}
Statuses == {"none", "queued", "sent", "done", "failed", "cancelled"}

\* "rule": fired by the worker; "ruleTest": the same rule fired from the panel,
\* held until someone confirms it; "agenda": the panel's test without a rule.
Kinds == {"rule", "ruleTest", "agenda"}

\* Why an alarm is no longer open, or that the panel wiped its row.
EventStates == {"none", "open", "normalised", "confirmed", "recycled", "deleted"}

Timeout(cmd) == IF cmd = "test_call" THEN CallTimeout ELSE SmsTimeout

Jobs ==
  [status : Statuses, cmd : Commands, event : {NoEvent} \cup EventIds,
   phone : Nat, cascade : BOOLEAN, notice : BOOLEAN, wait : Nat, age : Nat]

Events ==
  [state : EventStates, kind : Kinds, acked : BOOLEAN, rearm : Nat \cup {NoRearm}]

Databases ==
  [jobs : [JobIds -> Jobs], last : Nat,
   events : [EventIds -> Events], lastEvent : 0..MaxEvents]

NewJob(cmd, e) ==
  [status |-> "queued", cmd |-> cmd, event |-> e, phone |-> 0,
   cascade |-> FALSE, notice |-> FALSE, wait |-> 0, age |-> 0]

\* No row, though the device may hold a command cmd that was published for it.
NoJob(cmd) == [NewJob(cmd, NoEvent) EXCEPT !.status = "none"]

EmptyDatabase ==
  [jobs |-> [j \in JobIds |-> NoJob("test_sms")],
   last |-> 0,
   events |-> [e \in EventIds |->
      [state |-> "none", kind |-> "rule", acked |-> FALSE, rearm |-> NoRearm]],
   lastEvent |-> 0]

-----------------------------------------------------------------------------
(* Queries *)

InStatus(d, s) == {j \in JobIds : d.jobs[j].status = s}
Queued(d) == InStatus(d, "queued")
Sent(d)   == InStatus(d, "sent")

\* active_modem_jobs
Active(d) == Queued(d) \cup Sent(d)

\* An alarm someone confirmed, or whose reading came back in range.
Silenced(d, e) == d.events[e].acked \/ d.events[e].state \in {"normalised", "confirmed"}

IsOpen(d, e) == e \in EventIds /\ d.events[e].state = "open"

\* The alarm's own copy of the rule's hysteresis and delay; the panel's test
\* without a rule has neither.
HysteresisOf(d, e) == IF d.events[e].kind = "agenda" THEN 0 ELSE Hysteresis
DelayOf(d, e)      == IF d.events[e].kind = "agenda" THEN 0 ELSE EscalateDelay

\* The not_before instant of a queued job has passed.
JobReady(job) == job.wait = 0

Overdue(job) == job.status = "sent" /\ job.age > Timeout(job.cmd)

-----------------------------------------------------------------------------
(* Updates *)

\* A job reaches a final status; its timers no longer matter.  (One that times
\* out keeps its sent_at: see ExpireSentJob.)
FinishAll(d, S, status) ==
  [d EXCEPT !.jobs = [j \in JobIds |->
      IF j \in S THEN [d.jobs[j] EXCEPT !.status = status, !.wait = 0, !.age = 0]
                 ELSE d.jobs[j]]]

\* Mutant: nothing is cancelled.
CancelAlarmJobs_Forgotten(d, e) == d

\* cancel_alarm_jobs: only what has not been sent, and never a notice.
CancelAlarmJobs(d, e) ==
  FinishAll(d, {j \in Queued(d) : d.jobs[j].event = e /\ ~d.jobs[j].notice}, "cancelled")

\* schedule_alarm_rearm
ScheduleAlarmRearm(d, e) ==
  IF d.events[e].acked \/ d.events[e].state # "open" \/ HysteresisOf(d, e) = 0
    THEN d
    ELSE [d EXCEPT !.events[e].rearm = HysteresisOf(d, e)]

\* n calls of enqueue_modem_job with the same contents: the device's active jobs
\* are counted before each insertion, and a job beyond the limit is a failed row.
EnqueueModemJobs(d, n, job) ==
  LET active == Cardinality(Active(d))
      new    == d.last + 1 .. d.last + n
  IN  [d EXCEPT
        !.last = d.last + n,
        !.jobs = [j \in JobIds |->
           IF j \notin new THEN d.jobs[j]
           ELSE IF active + (j - d.last) <= MaxQueuedJobs
                  THEN [job EXCEPT !.status = "queued"]
                  ELSE [job EXCEPT !.status = "failed", !.wait = 0]]]

\* Mutant: a confirmed alarm goes on calling.
MayEscalate_Confirmed(d, job) == job.cmd = "test_call" /\ IsOpen(d, job.event)

\* The early returns of _maybe_escalate_call.
MayEscalate(d, job) ==
  /\ job.cmd = "test_call"
  /\ IsOpen(d, job.event)
  /\ ~d.events[job.event].acked

\* Mutant: a phone is skipped.
NextCall_Skips(d, job) ==
  [NewJob("test_call", job.event) EXCEPT !.phone = job.phone + 2, !.cascade = TRUE]

NextCall(d, job) ==
  [NewJob("test_call", job.event) EXCEPT
     !.phone = job.phone + 1, !.cascade = TRUE, !.wait = DelayOf(d, job.event)]

\* _maybe_escalate_call: what follows job j once its call is over.
MaybeEscalateCall(d, j) ==
  LET job == d.jobs[j]
  IN  IF ~MayEscalate(d, job) THEN d
      ELSE IF ~job.cascade \/ job.phone + 1 >= CallPhones
        THEN ScheduleAlarmRearm(d, job.event)
      ELSE EnqueueModemJobs(d, 1, NextCall(d, job))

\* The end of complete_modem_job, whatever the status of the job it found was.
JobIsDone(d, j) == MaybeEscalateCall(FinishAll(d, {j}, "done"), j)

\* complete_modem_job for an event without command_id: the oldest sent job of that
\* command, if any.
CompleteUnnamed(d, cmd) ==
  LET S == {j \in Sent(d) : d.jobs[j].cmd = cmd}
  IN  IF S = {} THEN d ELSE JobIsDone(d, Min(S))

\* complete_modem_job for a device that names the job it was given; one that
\* has no row counts as not named.
CompleteModemJob(d, j) ==
  IF d.jobs[j].status = "none" THEN CompleteUnnamed(d, d.jobs[j].cmd)
                               ELSE JobIsDone(d, j)

\* Mutant: a job without an answer stays in flight.
ExpireSentJob_Never(d) == d

\* Its age tells a job that timed out from one that was never sent.
TimeOut(d, j) == [d EXCEPT !.jobs[j].status = "failed"]

\* Mutant: a call nobody answered ends the cascade.
ExpireSentJob_EndsCascade(d) ==
  LET S == {j \in JobIds : Overdue(d.jobs[j])}
  IN  IF S = {} THEN d ELSE TimeOut(d, Min(S))

\* The first loop of pump_modem_queue: a sent job past its timeout fails and the
\* cascade goes on as if the device had answered.
ExpireSentJob(d) ==
  LET S == {j \in JobIds : Overdue(d.jobs[j])}
  IN  IF S = {} THEN d ELSE MaybeEscalateCall(TimeOut(d, Min(S)), Min(S))

\* The queued jobs pump_modem_queue reaches before one that must still wait.
ReadyRun(d) ==
  {j \in Queued(d) : \A i \in Queued(d) : i <= j => JobReady(d.jobs[i])}

MarkSent(d, j) == [d EXCEPT !.jobs[j].status = "sent", !.jobs[j].age = 0]

\* The first publications of a pump may fail (no audio could be prepared, or the
\* broker refused the message): each fails its job and moves on to the next one.
Refused(d) ==
  {F \in SUBSET ReadyRun(d) :
     Cardinality(F) <= MaxPublishFails /\ \A i \in F, j \in ReadyRun(d) \ F : i < j}

SendFirst(d, F) ==
  LET failed == FinishAll(d, F, "failed")
      rest   == ReadyRun(d) \ F
  IN  IF rest = {} THEN failed ELSE MarkSent(failed, Min(rest))

\* What pump_modem_queue may make of d: nothing goes out while a job is in flight,
\* or if nothing was queued before the expiry; otherwise the first ready job that
\* is not refused.
PumpModemQueue(d) ==
  UNION {IF Sent(x) # {} \/ Queued(d) = {} THEN {x} ELSE {SendFirst(x, F) : F \in Refused(x)} :
           x \in {ExpireSentJob(d)}}

\* What a database of S may become when its queue is pumped.
Pumped(S) == UNION {PumpModemQueue(d) : d \in S}

\* The jobs whose command went out while d became dd.
Published(d, dd) == Sent(dd) \ Sent(d)

\* dd is rolled back to d: the rows are as they were, but the ids dd inserted are
\* used up (the sequence of a primary key is not transactional).
RolledBack(d, dd) ==
  [d EXCEPT !.last = dd.last,
            !.jobs = [j \in JobIds |-> IF j \in d.last + 1 .. dd.last
                                         THEN NoJob(dd.jobs[j].cmd) ELSE d.jobs[j]]]

\* One tick of the clock on every running timer.
ElapseTick(d) ==
  [d EXCEPT
    !.jobs = [j \in JobIds |->
       [d.jobs[j] EXCEPT
         !.wait = IF @ > 0 THEN @ - 1 ELSE 0,
         !.age  = IF d.jobs[j].status = "sent" /\ ~Overdue(d.jobs[j]) THEN @ + 1 ELSE @]],
    !.events = [e \in EventIds |->
       [d.events[e] EXCEPT !.rearm = IF @ > 0 THEN @ - 1 ELSE @]]]
=============================================================================
