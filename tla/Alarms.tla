------------------------------- MODULE Alarms -------------------------------
(***************************************************************************)
(* The life of an alarm on the server: backend/app/alarms.py fires, clears *)
(* and recycles it, backend/app/alarm_ack.py silences it.  As in ModemJobs *)
(* every operator maps a database value to the one its caller commits.     *)
(*                                                                         *)
(* One rule of one device is modelled, and the two tests the panel can     *)
(* fire.  E-mail and Telegram leave no trace in the queue and are left     *)
(* out; what remains of a notification is the jobs it puts on the modem.   *)
(***************************************************************************)
EXTENDS ModemJobs

CONSTANT ClearBySms  \* the rule's clear_actions contain "sms"

ASSUME AlarmsAssumption == ClearBySms \in BOOLEAN

\* fire_rule_alarm gives both kinds the rule_key that open_alarm_event looks for.
OfRule(d, e) == d.events[e].kind \in {"rule", "ruleTest"}

\* The alarms open_alarm_event finds; the most recent one is the answer.
OpenOfRule(d) == {e \in EventIds : IsOpen(d, e) /\ OfRule(d, e)}
OpenAlarmEvent(d) == Max(OpenOfRule(d))

OpenAlarms(d) == {e \in EventIds : IsOpen(d, e)}

\* source == "manual" in the event's payload
IsManual(d, e) == d.events[e].kind \in {"ruleTest", "agenda"}

\* The first half of dispatch_alarm: the alarm row, one SMS job per phone and
\* the first call.
RaiseAlarm(d, kind) ==
  LET e     == d.lastEvent + 1
      row   == [state |-> "open", kind |-> kind, acked |-> FALSE, rearm |-> NoRearm]
      open  == [d EXCEPT !.lastEvent = e, !.events[e] = row]
      texts == EnqueueModemJobs(open, SmsPhones, NewJob("test_sms", e))
      call  == [NewJob("test_call", e) EXCEPT
                  !.cascade = (kind = "agenda" \/ EscalateCalls)]
  IN  EnqueueModemJobs(texts, IF CallPhones > 0 THEN 1 ELSE 0, call)

\* dispatch_alarm goes on with a pump and, if nobody is to be called, schedules
\* the repetition at once.  These are the databases it may end with.
DispatchAlarm(d, kind) ==
  LET sent == Pumped({RaiseAlarm(d, kind)})
  IN  IF CallPhones > 0 THEN sent
                        ELSE {ScheduleAlarmRearm(x, x.lastEvent) : x \in sent}

CloseAlarm(d, e, why) == [d EXCEPT !.events[e].state = why]

\* evaluate_device_rules when the reading is back in range: cancel_alarm_jobs,
\* clear_alarm, and notify_alarm_cleared, which pumps once if it queued an SMS.
\* These are the databases it may lead to.
NormaliseAlarm(d, e) ==
  LET closed == CloseAlarm(CancelAlarmJobs(d, e), e, "normalised")
      notice == [NewJob("test_sms", e) EXCEPT !.notice = TRUE]
  IN  IF ClearBySms /\ SmsPhones > 0
        THEN Pumped({EnqueueModemJobs(closed, SmsPhones, notice)})
        ELSE {closed}

\* Mutant: the repetition that a confirmation asks for is not scheduled.
AcknowledgeDevice_NoRearm(d) ==
  LET targets == {e \in OpenAlarms(d) : ~d.events[e].acked}
      jobs    == {j \in Queued(d) : d.jobs[j].event \in targets}
  IN  FinishAll(
        [d EXCEPT !.events = [e \in EventIds |->
           IF e \in targets THEN [d.events[e] EXCEPT !.acked = TRUE, !.rearm = NoRearm]
                            ELSE d.events[e]]],
        jobs, "cancelled")

\* acknowledge_event on every open alarm of the device, as
\* acknowledge_device_from_event does: an alarm that is closed or already
\* confirmed is left alone, a manual one is closed, and what the silenced alarms
\* still had in the queue is cancelled.
AcknowledgeDevice(d) ==
  LET targets == {e \in OpenAlarms(d) : ~d.events[e].acked}
      events  == [e \in EventIds |->
        IF e \notin targets THEN d.events[e]
        ELSE [d.events[e] EXCEPT
                !.acked = TRUE,
                !.rearm = IF HysteresisOf(d, e) > 0 THEN HysteresisOf(d, e) ELSE NoRearm,
                !.state = IF IsManual(d, e) THEN "confirmed" ELSE "open"]]
      jobs    == {j \in Queued(d) : d.jobs[j].event \in targets /\ ~d.jobs[j].notice}
  IN  FinishAll([d EXCEPT !.events = events], jobs, "cancelled")

\* device_clear_events: the panel wipes every event row; jobs are kept.
WipeEvents(d) ==
  [d EXCEPT !.events = [e \in EventIds |->
      IF d.events[e].state = "none" THEN d.events[e]
                                    ELSE [d.events[e] EXCEPT !.state = "deleted"]]]

\* evaluate_device_rules when the reading is out of range finds the rule's open
\* alarm: it may only be replaced once its rearm_at has passed.
Blocked(d) == OpenOfRule(d) # {} /\ d.events[OpenAlarmEvent(d)].rearm # 0

RecycleOpenAlarm(d) ==
  IF OpenOfRule(d) = {} THEN d ELSE CloseAlarm(d, OpenAlarmEvent(d), "recycled")
=============================================================================
