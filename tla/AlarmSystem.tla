----------------------------- MODULE AlarmSystem -----------------------------
(***************************************************************************)
(* One device and the server around it, with transactions taken one at a   *)
(* time: the worker (mqtt_worker.py) turns telemetry and device events     *)
(* into rule evaluations and job completions and pumps the modem queue     *)
(* every two seconds; the panel and the links (main.py, alarm_ack.py) fire *)
(* tests, silence alarms and wipe the history; the device picks commands   *)
(* up, runs them and answers, late, twice or never.                        *)
(*                                                                         *)
(* A transaction publishes its command before it commits.  A crash or a    *)
(* database error between the two leaves the command on the broker and the *)
(* rows as they were (LoseAfterPublish).                                   *)
(*                                                                         *)
(* That they are taken one at a time is a restriction: the processes of    *)
(* the code share no lock but the pump's, and what two transactions that   *)
(* overlap can do (two jobs in flight, a queue over its limit, two alarms  *)
(* of a rule, a confirmation taken back) is in QueueTransactions.          *)
(***************************************************************************)
EXTENDS Alarms

CONSTANTS
  Duration,        \* duration_seconds of the rule, in ticks
  MaxMishaps,      \* bound: crashes, restarts and redelivered answers
  MaxTests,        \* bound: panel calls and SMS that belong to no alarm
  PanelKinds       \* bound: the alarms the panel fires

ASSUME AlarmSystemAssumption ==
  /\ Duration \in Nat
  /\ MaxMishaps \in Nat /\ MaxTests \in Nat
  /\ PanelKinds \subseteq {"ruleTest", "agenda"}

VARIABLES
  db,       \* the committed database
  bad,      \* the reading the device measures is out of range
  since,    \* Redis: ticks since the condition began to hold, or NotHolding
  gate,     \* Redis: ticks left of set_rearm, 0 when unset or past
  archived, \* the device was deleted from the panel
  inbox,    \* copies of a job's command on their way to the device
  running,  \* copies the device has picked up and not answered
  mishaps   \* how many crashes, restarts and redeliveries there were

vars == <<db, bad, since, gate, archived, inbox, running, mishaps>>

NotHolding == -1

Init ==
  /\ db = EmptyDatabase
  /\ bad = FALSE
  /\ since = NotHolding
  /\ gate = 0
  /\ archived = FALSE
  /\ inbox = [j \in JobIds |-> 0]
  /\ running = [j \in JobIds |-> 0]
  /\ mishaps = 0

-----------------------------------------------------------------------------
(* A transaction that computes d from db: it puts the commands it publishes *)
(* on the way to the device and then commits, or is lost after publishing.  *)

Deliver(d) ==
  inbox' = [j \in JobIds |-> IF j \in Published(db, d) THEN inbox[j] + 1 ELSE inbox[j]]

Commit(d) ==
  /\ d.last <= MaxJobs
  /\ db' = d
  /\ Deliver(d)
  /\ UNCHANGED mishaps

LoseAfterPublish(d) ==
  /\ d.last <= MaxJobs
  /\ Published(db, d) # {}
  /\ mishaps < MaxMishaps
  /\ mishaps' = mishaps + 1
  /\ Deliver(d)
  /\ db' = RolledBack(db, d)

Transact(d) == Commit(d) \/ LoseAfterPublish(d)

-----------------------------------------------------------------------------
(* The worker *)

\* pump_due_modem_jobs, every two seconds, archived devices included.
PumpDue ==
  /\ \E d \in Pumped({db}) : Transact(d)
  /\ UNCHANGED <<bad, since, gate, archived, running>>

\* Telemetry with the reading in range: the condition's clock is reset and the
\* rule's open alarm, unless it waits for a confirmation, is cleared.
MayNormalise ==
  OpenOfRule(db) # {} /\ db.events[OpenAlarmEvent(db)].kind # "ruleTest"

TelemetryInRange ==
  /\ ~bad /\ ~archived
  /\ since' = NotHolding
  /\ \/ /\ MayNormalise
        /\ \E d \in Pumped(NormaliseAlarm(db, OpenAlarmEvent(db))) : Transact(d)
        /\ gate' = IF Hysteresis > 0 THEN Hysteresis ELSE gate
     \/ /\ ~MayNormalise
        /\ \E d \in Pumped({db}) : Transact(d)
        /\ UNCHANGED gate
  /\ UNCHANGED <<bad, archived, running>>

\* Telemetry with the reading out of range while the rule's alarm is open and
\* not due to repeat: nothing but the pump.
TelemetryWhileOpen ==
  /\ bad /\ ~archived
  /\ Blocked(db)
  /\ \E d \in Pumped({db}) : Transact(d)
  /\ UNCHANGED <<bad, since, gate, archived, running>>

\* Telemetry with the reading out of range and no alarm in the way: an alarm due
\* to repeat is closed; then the rearm gate and the duration may still hold the
\* new one back.
HeldBack == gate > 0 \/ (IF since = NotHolding THEN 0 ELSE since) < Duration

TelemetryHeldBack ==
  /\ bad /\ ~archived
  /\ ~Blocked(db)
  /\ HeldBack
  /\ since' = IF gate = 0 /\ since = NotHolding THEN 0 ELSE since
  /\ \E d \in Pumped({RecycleOpenAlarm(db)}) : Transact(d)
  /\ UNCHANGED <<bad, gate, archived, running>>

TelemetryFires ==
  /\ bad /\ ~archived
  /\ ~Blocked(db)
  /\ ~HeldBack
  /\ db.lastEvent < MaxEvents
  /\ since' = IF since = NotHolding THEN 0 ELSE since
  /\ gate' = 0
  /\ \E d \in Pumped(DispatchAlarm(RecycleOpenAlarm(db), "rule")) : Transact(d)
  /\ UNCHANGED <<bad, archived, running>>

\* An answer that carries its command_id.  It may reach the worker twice, as
\* the broker repeats what was not acknowledged.  An archived device's
\* messages are dropped.
AnswerArrives(j) ==
  /\ running[j] > 0
  /\ running' = [running EXCEPT ![j] = @ - 1]
  /\ IF archived
       THEN UNCHANGED <<db, inbox, mishaps>>
       ELSE \E d \in Pumped({CompleteModemJob(db, j)}) : Transact(d)
  /\ UNCHANGED <<bad, since, gate, archived>>

AnswerIsRepeated(j) ==
  /\ running[j] > 0
  /\ ~archived
  /\ mishaps < MaxMishaps
  /\ mishaps' = mishaps + 1
  /\ \E d \in Pumped({CompleteModemJob(db, j)}) :
       d.last <= MaxJobs /\ db' = d /\ Deliver(d)
  /\ UNCHANGED <<bad, since, gate, archived, running>>

\* An SMS with "ok" from a phone of the alarm, relayed by the device.
InboundOk ==
  /\ ~archived
  /\ \E e \in OpenAlarms(db) : ~db.events[e].acked
  /\ \E d \in Pumped({AcknowledgeDevice(db)}) : Transact(d)
  /\ UNCHANGED <<bad, since, gate, archived, running>>

\* The worker restarts without Redis: its timers were only in memory.
ForgetTimers ==
  /\ mishaps < MaxMishaps
  /\ mishaps' = mishaps + 1
  /\ since' = NotHolding
  /\ gate' = 0
  /\ UNCHANGED <<db, bad, archived, inbox, running>>

-----------------------------------------------------------------------------
(* The panel, the links and the mailbox *)

\* device_trigger_alarm; the rule's test is refused while its alarm is open.
TriggerAlarm(kind) ==
  /\ ~archived
  /\ db.lastEvent < MaxEvents
  /\ kind = "ruleTest" => OpenOfRule(db) = {}
  /\ \E d \in DispatchAlarm(db, kind) : Transact(d)
  /\ UNCHANGED <<bad, since, gate, archived, running>>

\* send_device_command for test_call and test_sms
TestsMade == Cardinality({j \in 1..db.last : db.jobs[j].event = NoEvent})

TestModem(cmd) ==
  /\ ~archived
  /\ TestsMade < MaxTests
  /\ \E d \in Pumped({EnqueueModemJobs(db, 1, NewJob(cmd, NoEvent))}) : Transact(d)
  /\ UNCHANGED <<bad, since, gate, archived, running>>

\* The confirmation link works while its own alarm is open, confirmed or not.
AckByLink(e) ==
  /\ IsOpen(db, e)
  /\ db' = AcknowledgeDevice(db)
  /\ UNCHANGED <<bad, since, gate, archived, inbox, running, mishaps>>

\* The panel's silence buttons and an e-mail reply that names the alarm act on
\* the device of any alarm that was not wiped, open or not.
AckByPanelOrReply(e) ==
  /\ e \in EventIds /\ db.events[e].state \notin {"none", "deleted"}
  /\ db' = AcknowledgeDevice(db)
  /\ UNCHANGED <<bad, since, gate, archived, inbox, running, mishaps>>

ClearEvents ==
  /\ db' = WipeEvents(db)
  /\ UNCHANGED <<bad, since, gate, archived, inbox, running, mishaps>>

ArchiveDevice ==
  /\ archived' = TRUE
  /\ UNCHANGED <<db, bad, since, gate, inbox, running, mishaps>>

RestoreDevice ==
  /\ archived' = FALSE
  /\ UNCHANGED <<db, bad, since, gate, inbox, running, mishaps>>

-----------------------------------------------------------------------------
(* The device and the world *)

\* The progress messages publishTestCallProgress sends while a call is set up,
\* and the prefixes the server takes for progress.  They carry no command_id.
CallProgress ==
  {"Using call audio on device", "Downloaded call audio",
   "Rule audio not on device, using fallback", "Preparing CS radio",
   "Dialing, waiting for voice", "Ringing", "Playing audio"}

\* CALL_PROGRESS_PREFIXES, as far as it concerns those messages.
ListedProgress ==
  {"Preparing CS radio", "Dialing, waiting for voice", "Ringing", "Playing audio"}

IsFinalCallEvent(message) == message \notin ListedProgress

\* The device picks an SMS command up.
StartSms(j) ==
  /\ db.jobs[j].cmd = "test_sms"
  /\ inbox[j] > 0
  /\ inbox' = [inbox EXCEPT ![j] = @ - 1]
  /\ running' = [running EXCEPT ![j] = @ + 1]
  /\ UNCHANGED <<db, bad, since, gate, archived, mishaps>>

\* placeCallAndPlayAudio begins: it says which audio it will play, and the
\* worker, if the message reaches it, decides whether the call is over.
StartCall(j) ==
  /\ db.jobs[j].cmd = "test_call"
  /\ inbox[j] > 0
  /\ running' = [running EXCEPT ![j] = @ + 1]
  /\ \/ /\ ~archived
        /\ \E final \in {IsFinalCallEvent(m) : m \in CallProgress} :
             \E d \in Pumped({IF final THEN CompleteUnnamed(db, "test_call") ELSE db}) :
               /\ d.last <= MaxJobs
               /\ db' = d
               /\ inbox' = [i \in JobIds |->
                    inbox[i] + (IF i \in Published(db, d) THEN 1 ELSE 0)
                             - (IF i = j THEN 1 ELSE 0)]
     \/ /\ inbox' = [inbox EXCEPT ![j] = @ - 1]
        /\ UNCHANGED db
  /\ UNCHANGED <<bad, since, gate, archived, mishaps>>

\* A command is lost on the way or refused because its slot is taken, or the
\* device reboots or cannot publish the answer.
LoseCommand(j) ==
  /\ inbox[j] > 0
  /\ inbox' = [inbox EXCEPT ![j] = @ - 1]
  /\ UNCHANGED <<db, bad, since, gate, archived, running, mishaps>>

LoseAnswer(j) ==
  /\ running[j] > 0
  /\ running' = [running EXCEPT ![j] = @ - 1]
  /\ UNCHANGED <<db, bad, since, gate, archived, inbox, mishaps>>

ReadingChanges ==
  /\ bad' = ~bad
  /\ UNCHANGED <<db, since, gate, archived, inbox, running, mishaps>>

Tick ==
  /\ db' = ElapseTick(db)
  /\ gate' = IF gate > 0 THEN gate - 1 ELSE 0
  /\ since' = IF since \in 0..Duration - 1 THEN since + 1 ELSE since
  /\ UNCHANGED <<bad, archived, inbox, running, mishaps>>

-----------------------------------------------------------------------------
Telemetry ==
  TelemetryInRange \/ TelemetryWhileOpen \/ TelemetryHeldBack \/ TelemetryFires

Worker ==
  \/ PumpDue \/ Telemetry \/ InboundOk \/ ForgetTimers
  \/ \E j \in JobIds : AnswerArrives(j) \/ AnswerIsRepeated(j)

Panel ==
  \/ \E kind \in PanelKinds : TriggerAlarm(kind)
  \/ \E cmd \in Commands : TestModem(cmd)
  \/ \E e \in EventIds : AckByLink(e) \/ AckByPanelOrReply(e)
  \/ ClearEvents \/ ArchiveDevice \/ RestoreDevice

DeviceAndWorld ==
  \/ \E j \in JobIds : StartSms(j) \/ StartCall(j) \/ LoseCommand(j) \/ LoseAnswer(j)
  \/ ReadingChanges \/ Tick

Next == Worker \/ Panel \/ DeviceAndWorld

Spec == Init /\ [][Next]_vars

\* The worker's main loop pumps the queue whatever else happens, the clock runs, and a
\* device that is up keeps publishing telemetry. Nobody has to answer a command, confirm
\* an alarm or touch the panel.
FairSpec == Spec /\ WF_vars(PumpDue) /\ WF_vars(Tick) /\ WF_vars(Telemetry)

-----------------------------------------------------------------------------
(* Properties *)

TypeOK ==
  /\ db \in Databases
  /\ bad \in BOOLEAN /\ archived \in BOOLEAN
  /\ since \in Nat \cup {NotHolding} /\ gate \in Nat
  /\ inbox \in [JobIds -> Nat] /\ running \in [JobIds -> Nat]
  /\ mishaps \in Nat

\* Once an alarm is silenced nothing of it waits in the queue again except the
\* notice that it is over: answers and timeouts of calls that were already out
\* do not bring the cascade back (cancel_alarm_jobs, _maybe_escalate_call).
SilencedStaysQuiet ==
  \A j \in Queued(db) :
    db.jobs[j].event # NoEvent /\ ~db.jobs[j].notice => ~Silenced(db, db.jobs[j].event)

\* No command leaves for the device on behalf of an alarm that is silenced, not
\* even one whose transaction is then lost (pump_modem_queue publishes before
\* its caller commits).
CommandsAllowed ==
  \A j \in JobIds :
    inbox'[j] > inbox[j] /\ db'.jobs[j].event # NoEvent /\ ~db'.jobs[j].notice
      => ~Silenced(db', db'.jobs[j].event)

NoCommandForSilenced == [][CommandsAllowed]_vars

\* An open alarm of a rule with hysteresis is still being worked on: a call of
\* it is queued or in flight, or its repetition is scheduled.  Otherwise it
\* would stay open and silent until the reading comes back in range, as it does
\* when the publication of a call is refused (one that failed unsent).
StillPursued ==
  \A e \in OpenOfRule(db) :
    Hysteresis > 0 =>
      \/ db.events[e].rearm # NoRearm
      \/ \E j \in JobIds :
           /\ db.jobs[j].event = e /\ db.jobs[j].cmd = "test_call"
           /\ j \in Active(db) \/ (db.jobs[j].status = "failed" /\ db.jobs[j].age = 0)

\* The phones of a rule are called in order and none is skipped: a later phone
\* only has a job because a call to the one before it ended, answered or timed
\* out (_maybe_escalate_call), never because one was cancelled or refused.
CascadeInOrder ==
  \A j \in JobIds :
    db.jobs[j].phone > 0 =>
      \E i \in 1..j - 1 :
        /\ db.jobs[i].cmd = "test_call"
        /\ db.jobs[i].event = db.jobs[j].event
        /\ db.jobs[i].phone = db.jobs[j].phone - 1
        /\ \/ db.jobs[i].status = "done"
           \/ db.jobs[i].status = "failed" /\ db.jobs[i].age > 0

\* A call job is over when the device has reported its result (the comment on
\* CALL_PROGRESS_PREFIXES), not while the device still has to carry it out.
FinishedByItsResult ==
  \A j \in JobIds : db.jobs[j].status = "done" => inbox[j] = 0 /\ running[j] = 0

\* No job waits in the queue forever, even if the device falls silent: a job in flight
\* times out, and the jobs that wait behind it go, those of an alarm that was wiped or
\* recycled meanwhile included. (At most MaxJobs jobs come, so the queue has to be empty
\* again and again.)
QueueDrains == []<>(Queued(db) = {})

\* While the reading stays out of range the alarm is repeated: the rule fires
\* again after its hysteresis, confirmed or not, even if no call is ever
\* answered.  (The last event of the bounded model cannot be followed.)
AlarmRepeats ==
  \A e \in EventIds \ {MaxEvents} :
    (e \in OpenOfRule(db)) ~>
      (db.lastEvent > e \/ ~bad \/ archived \/ db.events[e].state \in {"deleted", "confirmed"})
=============================================================================
