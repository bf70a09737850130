--------------------------- MODULE DeferredEvents ---------------------------
(***************************************************************************)
(* The device's side of a command: firmware/src/mqtt_io.cpp and the loop() *)
(* of main.cpp.  An SMS command waits in a single slot; its answer and the *)
(* device's reports are published as events, or deferred to a small array  *)
(* when that fails, and flushed from loop() once MQTT is back.             *)
(*                                                                         *)
(* The firmware is one thread, so a call and all it calls is one step.     *)
(* publishDeviceEvent flushes after every success and flushDeferredEvents  *)
(* publishes before it removes, so a flush calls itself until a publish    *)
(* fails; n counts the publishes that succeeded.  Only then do the n       *)
(* frames each remove one event.  A count that goes below zero wraps       *)
(* (size_t): the next removal or search runs off the array.                *)
(***************************************************************************)
EXTENDS Integers, SequencesExt

CONSTANTS
  DeferredEventMax, \* kDeferredEventMax
  StackFrames,      \* nested flushes for which loop()'s stack has room
  SmsResults,       \* what an SMS may end with
  Reports,          \* events that belong to no command
  MaxCommands,      \* bound: SMS commands the server sends
  MaxReports        \* bound: reports of the device

ASSUME DeferredEventsAssumption ==
  /\ DeferredEventMax \in Nat \ {0} /\ StackFrames \in Nat \ {0}
  /\ MaxCommands \in Nat /\ MaxReports \in Nat
  /\ SmsResults \cap Reports = {}

NoCommand == 0

\* text stands for type, severity and message, which decide whether two events
\* are the same; the command they answer does not.
DeviceEvents ==
  [text : SmsResults \cup Reports, command : 0..MaxCommands]

VARIABLES
  at,        \* what loop() does next
  connected, \* state.mqttConnected
  slot,      \* pendingTestSmsCommand and its id, or NoCommand
  running,   \* the SMS command being carried out, or NoCommand
  deferred,  \* deferredEvents
  wrapped,   \* deferredEventCount went below zero
  received,  \* how many commands have arrived
  accepted,  \* how many of them were accepted since the device booted
  ran,       \* how many SMS were tried since the device booted
  reports,   \* how many reports were made
  told       \* the events that ever reached the broker

vars == <<at, connected, slot, running, deferred, wrapped, received, accepted, ran,
          reports, told>>

Init ==
  /\ at = "connect" /\ connected = FALSE
  /\ slot = NoCommand /\ running = NoCommand
  /\ deferred = <<>> /\ wrapped = FALSE
  /\ received = 0 /\ accepted = 0 /\ ran = 0 /\ reports = 0
  /\ told = {}

-----------------------------------------------------------------------------
(* Deferring and flushing: what becomes of at, connected, slot, running,    *)
(* deferred, wrapped, accepted, ran and told.                               *)

\* A crash, or the watchdog, restarts the device: all of this is in RAM.
Reboot ==
  /\ at' = "connect" /\ connected' = FALSE
  /\ slot' = NoCommand /\ running' = NoCommand
  /\ deferred' = <<>> /\ wrapped' = FALSE
  /\ accepted' = 0 /\ ran' = 0

GoOn(next) == at' = next /\ running' = NoCommand /\ UNCHANGED <<slot, accepted, ran>>

\* A publish that fails usually, but not always, means the link is gone.
LinkSuspect == connected' \in BOOLEAN

\* Mutant: the array is never full.
Deferring_Unbounded(q, ev) ==
  IF \E i \in DOMAIN q : q[i].text = ev.text THEN q ELSE Append(q, ev)

\* Mutant: equal events are not merged.
Deferring_NotMerged(q, ev) ==
  IF Len(q) >= DeferredEventMax THEN Append(Tail(q), ev) ELSE Append(q, ev)

\* deferDeviceEvent on a sound array
Deferring(q, ev) ==
  IF \E i \in DOMAIN q : q[i].text = ev.text THEN q
  ELSE IF Len(q) >= DeferredEventMax THEN Append(Tail(q), ev)
  ELSE Append(q, ev)

\* deferDeviceEvent; with a wrapped count the search finds an old copy of the
\* event in the array or runs off it.
Defer(ev, next) ==
  \/ /\ deferred' = IF wrapped THEN deferred ELSE Deferring(deferred, ev)
     /\ UNCHANGED wrapped
     /\ GoOn(next)
  \/ wrapped /\ Reboot

\* flushDeferredEvents, with pub the events published just before: n publishes of
\* the first event succeed and the next one fails, or the stack is exhausted.
Flush(pub, n, next) ==
  /\ told' = told \cup pub \cup
       (IF n > 0 /\ deferred # <<>> THEN {Head(deferred)} ELSE {})
  /\ IF n = StackFrames \/ (wrapped /\ n > 0) \/ n > Len(deferred) + 1
       THEN Reboot
       ELSE /\ deferred' = SubSeq(deferred, n + 1, Len(deferred))
            /\ wrapped' = (wrapped \/ n = Len(deferred) + 1)
            /\ LinkSuspect
            /\ GoOn(next)

NothingDeferred == deferred = <<>> /\ ~wrapped

\* publishDeviceEvent
PublishDeviceEvent(ev, next) ==
  \/ /\ IF connected THEN LinkSuspect ELSE UNCHANGED connected
     /\ Defer(ev, next)
     /\ UNCHANGED told
  \/ /\ connected /\ NothingDeferred
     /\ told' = told \cup {ev}
     /\ GoOn(next)
     /\ UNCHANGED <<connected, deferred, wrapped>>
  \/ /\ connected /\ ~NothingDeferred
     /\ \E n \in 0..StackFrames : Flush({ev}, n, next)

-----------------------------------------------------------------------------
(* loop() *)

\* Mutant: a second command takes the place of the first.
MayAccept_Always == TRUE

MayAccept == slot = NoCommand

\* onMqttMessage for a test_sms command; a second one is refused in its ack.
ReceiveCommand ==
  /\ received < MaxCommands
  /\ received' = received + 1
  /\ IF MayAccept
       THEN slot' = received + 1 /\ accepted' = accepted + 1
       ELSE UNCHANGED <<slot, accepted>>

ReceiveNothing == UNCHANGED <<received, slot, accepted>>

\* connectMqttIfNeeded, which also takes in what the broker has sent.
ConnectMqttIfNeeded ==
  /\ at = "connect"
  /\ at' = "flush"
  /\ LinkSuspect
  /\ (connected' /\ ReceiveCommand) \/ ReceiveNothing
  /\ UNCHANGED <<running, deferred, wrapped, ran, reports, told>>

FlushDeferredEvents ==
  /\ at = "flush"
  /\ IF ~connected \/ NothingDeferred
       THEN /\ GoOn("work")
            /\ UNCHANGED <<connected, deferred, wrapped, told>>
       ELSE \E n \in 0..StackFrames : Flush({}, n, "work")
  /\ UNCHANGED <<received, reports>>

\* The pending SMS leaves its slot before it is tried.
StartSms ==
  /\ at = "work"
  /\ slot # NoCommand
  /\ at' = "answer"
  /\ running' = slot
  /\ slot' = NoCommand
  /\ ran' = ran + 1
  /\ UNCHANGED <<connected, deferred, wrapped, received, accepted, reports, told>>

\* While the SMS is tried the link may come and go and a command may arrive.
WhileSmsRuns ==
  /\ at = "answer"
  /\ LinkSuspect
  /\ (connected' /\ ReceiveCommand) \/ ReceiveNothing
  /\ UNCHANGED <<at, running, deferred, wrapped, ran, reports, told>>

AnswerSms ==
  /\ at = "answer"
  /\ \E result \in SmsResults :
       PublishDeviceEvent([text |-> result, command |-> running], "connect")
  /\ UNCHANGED <<received, reports>>

\* pollModem's recovery report, the progress of a call, a report on audio.
Report ==
  /\ at = "work"
  /\ reports < MaxReports
  /\ reports' = reports + 1
  /\ \E text \in Reports :
       PublishDeviceEvent([text |-> text, command |-> NoCommand], "connect")
  /\ UNCHANGED received

\* No SMS to send, or the modem is not ready for it, and nothing to report.
NothingToDo ==
  /\ at = "work"
  /\ GoOn("connect")
  /\ UNCHANGED <<connected, deferred, wrapped, received, reports, told>>

Next ==
  \/ ConnectMqttIfNeeded \/ FlushDeferredEvents
  \/ StartSms \/ WhileSmsRuns \/ AnswerSms \/ Report \/ NothingToDo

Spec == Init /\ [][Next]_vars

-----------------------------------------------------------------------------
(* Properties *)

TypeOK ==
  /\ at \in {"connect", "flush", "work", "answer"}
  /\ connected \in BOOLEAN /\ wrapped \in BOOLEAN
  /\ slot \in 0..MaxCommands /\ running \in 0..MaxCommands
  /\ deferred \in Seq(DeviceEvents) /\ Len(deferred) <= DeferredEventMax
  /\ received \in Nat /\ accepted \in Nat /\ ran \in Nat /\ reports \in Nat
  /\ told \in SUBSET DeviceEvents

\* The array never holds two events that read the same, also after flushes that called
\* themselves (deferDeviceEvent merges duplicates).  What is sent is another matter:
\* Flush publishes the first event n times.
NoTwoAlike ==
  \A i, j \in DOMAIN deferred : deferred[i].text = deferred[j].text => i = j

\* Every SMS command the device said it accepted is in its slot or was tried: a
\* second command never takes the place of the first (onMqttMessage's refusal).
AcceptedIsTried == accepted = ran + (IF slot = NoCommand THEN 0 ELSE 1)

\* What mqtt_io.cpp:425 says, "Queue instead of dropping": an event that waits leaves
\* only by reaching the broker, as the oldest of a full array, or with its device.
\* The code does not keep it: the n frames of a flush remove n events for one sent.
KeepsWhatWaits ==
  \A i \in DOMAIN deferred :
    \/ \E j \in DOMAIN deferred' : deferred'[j] = deferred[i]
    \/ deferred[i] \in told'
    \/ i = 1 /\ Len(deferred) = DeferredEventMax
    \/ accepted' = 0 /\ ran' = 0 /\ at' = "connect" /\ deferred' = <<>>

QueueInsteadOfDropping == [][KeepsWhatWaits]_vars

\* What mqtt_io.cpp:371 says, "Only the newest copy matters": an SMS result that could
\* not be published waits under the command it answers, if its device did not restart.
\* The code does not keep it: the merge keeps the older copy and its command.
NewestWaits ==
  at = "answer" /\ at' = "connect" /\ accepted' = accepted /\ ~wrapped =>
    \E result \in SmsResults :
      LET ev == [text |-> result, command |-> running]
      IN  ev \in told' \/ \E j \in DOMAIN deferred' : deferred'[j] = ev

NewestCopyKept == [][NewestWaits]_vars
=============================================================================
