------------------------ MODULE DeferredEventsProofs ------------------------
(***************************************************************************)
(* Theorems about DeferredEvents for every size of the array, every depth  *)
(* of the stack and every number of commands: however flushes end, what    *)
(* waits fits the array and holds no two events that read the same, and no *)
(* accepted command is lost while the device is up.                        *)
(***************************************************************************)
EXTENDS DeferredEvents, SequenceTheorems, TLAPS

\* An array of events with no two alike.
Sound(q) ==
  /\ q \in Seq(DeviceEvents)
  /\ Len(q) <= DeferredEventMax
  /\ \A i, j \in DOMAIN q : q[i].text = q[j].text => i = j

\* Removing events from the front keeps an array sound.
LEMMA RestSound ==
  ASSUME NEW q, Sound(q), NEW n \in Nat
  PROVE  Sound(SubSeq(q, n + 1, Len(q)))
<1> DEFINE r == SubSeq(q, n + 1, Len(q))
<1>1. q \in Seq(DeviceEvents) /\ Len(q) \in Nat /\ n + 1 \in Nat
  BY LenProperties DEF Sound
<1>2. /\ r \in Seq(DeviceEvents)
      /\ Len(r) = IF n + 1 <= Len(q) THEN Len(q) - n ELSE 0
      /\ \A i \in 1..Len(r) : r[i] = q[n + i]
  <2>1. CASE n + 1 <= Len(q)
    <3>1. /\ n + 1 \in 1..Len(q) /\ Len(q) \in n + 1 .. Len(q)
      BY <1>1, <2>1
    <3> QED
      BY <1>1, <2>1, <3>1, SubSeqProperties
  <2>2. CASE ~(n + 1 <= Len(q))
    <3>1. r = <<>>
      BY <1>1, <2>2
    <3> QED
      BY <2>2, <3>1
  <2> QED
    BY <2>1, <2>2
<1> HIDE DEF r
<1>3. DOMAIN r = 1..Len(r) /\ DOMAIN q = 1..Len(q) /\ Len(r) \in Nat
  BY <1>1, <1>2, LenProperties
<1>4. ASSUME NEW i \in DOMAIN r
      PROVE  n + i \in DOMAIN q /\ r[i] = q[n + i]
  <2>1. i \in 1..Len(r) /\ i \in Nat /\ i >= 1 /\ i <= Len(r)
    BY <1>3
  <2>2. Len(r) = Len(q) - n
    BY <1>1, <1>2, <2>1
  <2>3. n + i \in 1..Len(q)
    BY <1>1, <2>1, <2>2
  <2> QED
    BY <1>2, <1>3, <2>1, <2>3
<1>5. \A i, j \in DOMAIN r : n + i = n + j => i = j
  BY <1>3
<1>6. \A i, j \in DOMAIN r : r[i].text = r[j].text => i = j
  BY <1>4, <1>5 DEF Sound
<1>7. Len(r) <= DeferredEventMax
  BY <1>1, <1>2, DeferredEventsAssumption DEF Sound
<1> QED
  BY <1>2, <1>6, <1>7 DEF Sound, r

\* Adding an event unlike the others where there is room.
LEMMA AppendSound ==
  ASSUME NEW q, Sound(q), Len(q) < DeferredEventMax, NEW ev \in DeviceEvents,
         \A i \in DOMAIN q : q[i].text # ev.text
  PROVE  Sound(Append(q, ev))
<1> DEFINE r == Append(q, ev)
<1>1. q \in Seq(DeviceEvents) /\ Len(q) \in Nat /\ DOMAIN q = 1..Len(q)
  BY LenProperties DEF Sound
<1>2. /\ r \in Seq(DeviceEvents) /\ Len(r) = Len(q) + 1
      /\ \A i \in 1..Len(q) : r[i] = q[i]
      /\ r[Len(q) + 1] = ev
  BY <1>1, AppendProperties
<1> HIDE DEF r
<1>3. DOMAIN r = 1..Len(q) + 1
  BY <1>1, <1>2, LenProperties
<1>4. \A i \in DOMAIN r : i \in DOMAIN q \/ i = Len(q) + 1
  BY <1>1, <1>3
<1>5. \A i, j \in DOMAIN r : r[i].text = r[j].text => i = j
  BY <1>1, <1>2, <1>4 DEF Sound
<1>6. Len(r) <= DeferredEventMax
  BY <1>1, <1>2, DeferredEventsAssumption
<1> QED
  BY <1>2, <1>5, <1>6 DEF Sound, r

LEMMA DeferringSound ==
  ASSUME NEW q, Sound(q), NEW ev \in DeviceEvents
  PROVE  Sound(Deferring(q, ev))
<1>1. q \in Seq(DeviceEvents) /\ Len(q) \in Nat /\ DOMAIN q = 1..Len(q)
  BY LenProperties DEF Sound
<1>2. CASE \E i \in DOMAIN q : q[i].text = ev.text
  BY <1>2 DEF Deferring
<1>3. CASE (\A i \in DOMAIN q : q[i].text # ev.text) /\ Len(q) < DeferredEventMax
  <2>1. ~(Len(q) >= DeferredEventMax)
    BY <1>1, <1>3, DeferredEventsAssumption
  <2>2. Deferring(q, ev) = Append(q, ev)
    BY <1>3, <2>1 DEF Deferring
  <2> QED
    BY <1>3, <2>2, AppendSound
<1>4. CASE (\A i \in DOMAIN q : q[i].text # ev.text) /\ Len(q) >= DeferredEventMax
  <2> DEFINE t == SubSeq(q, 2, Len(q))
  <2>1. Deferring(q, ev) = Append(Tail(q), ev)
    BY <1>4 DEF Deferring
  <2>2. q # <<>> /\ Len(q) >= 1
    BY <1>1, <1>4, DeferredEventsAssumption
  <2>3. Tail(q) \in Seq(DeviceEvents) /\ Len(Tail(q)) = Len(q) - 1
        /\ \A i \in 1..Len(Tail(q)) : Tail(q)[i] = q[i + 1]
    BY <1>1, <2>2, HeadTailProperties
  <2>4. DOMAIN Tail(q) = 1..Len(Tail(q)) /\ Len(Tail(q)) \in Nat
    BY <2>3, LenProperties
  <2>5. \A i \in DOMAIN Tail(q) : i + 1 \in DOMAIN q /\ Tail(q)[i] = q[i + 1]
    BY <1>1, <2>3, <2>4
  <2>6. \A i, j \in DOMAIN Tail(q) : i + 1 = j + 1 => i = j
    BY <2>4
  <2>7. /\ \A i, j \in DOMAIN Tail(q) : Tail(q)[i].text = Tail(q)[j].text => i = j
        /\ \A i \in DOMAIN Tail(q) : Tail(q)[i].text # ev.text
    BY <1>4, <2>5, <2>6 DEF Sound
  <2>8. Len(Tail(q)) < DeferredEventMax
    BY <1>1, <2>3, DeferredEventsAssumption DEF Sound
  <2>9. Sound(Tail(q))
    BY <2>3, <2>7, <2>8, DeferredEventsAssumption DEF Sound
  <2> QED
    BY <2>1, <2>7, <2>8, <2>9, AppendSound
<1> QED
  BY <1>1, <1>2, <1>3, <1>4, DeferredEventsAssumption

-----------------------------------------------------------------------------

\* What is kept between the steps: the types, no two events alike, and the
\* count of commands accepted, tried and waiting.
IInv == TypeOK /\ NoTwoAlike /\ AcceptedIsTried

\* What one part of a step leaves behind when it began soundly.
Kept ==
  /\ at' \in {"connect", "flush", "work", "answer"}
  /\ connected' \in BOOLEAN /\ wrapped' \in BOOLEAN
  /\ slot' \in 0..MaxCommands /\ running' \in 0..MaxCommands
  /\ Sound(deferred')
  /\ accepted' \in Nat /\ ran' \in Nat /\ AcceptedIsTried'

LEMMA SoundIs == IInv => Sound(deferred)
BY DEF IInv, TypeOK, NoTwoAlike, Sound

\* A restart leaves nothing waiting and nothing accepted.
LEMMA RebootKeeps == Reboot => Kept
<1> SUFFICES ASSUME Reboot PROVE Kept
  OBVIOUS
<1>1. Sound(<<>>)
  BY DeferredEventsAssumption DEF Sound
<1>2. /\ at' = "connect" /\ connected' \in BOOLEAN /\ wrapped' \in BOOLEAN
      /\ Sound(deferred')
  BY <1>1 DEF Reboot
<1>3. /\ slot' \in 0..MaxCommands /\ running' \in 0..MaxCommands
      /\ accepted' \in Nat /\ ran' \in Nat
  BY DeferredEventsAssumption DEF Reboot, NoCommand
<1>4. AcceptedIsTried'
  BY DEF Reboot, AcceptedIsTried, NoCommand
<1> QED
  BY <1>2, <1>3, <1>4 DEF Kept

LEMMA GoOnKeeps ==
  ASSUME IInv, NEW next \in {"connect", "work"}, GoOn(next),
         connected' \in BOOLEAN, wrapped' \in BOOLEAN, Sound(deferred')
  PROVE  Kept
BY DeferredEventsAssumption DEF IInv, TypeOK, AcceptedIsTried, GoOn, Kept, NoCommand

LEMMA DeferKeeps ==
  ASSUME IInv, NEW ev \in DeviceEvents, NEW next \in {"connect", "work"},
         connected' \in BOOLEAN, Defer(ev, next)
  PROVE  Kept
<1>1. CASE wrapped /\ Reboot
  BY <1>1, RebootKeeps
<1>2. CASE /\ deferred' = IF wrapped THEN deferred ELSE Deferring(deferred, ev)
           /\ UNCHANGED wrapped
           /\ GoOn(next)
  <2>1. Sound(deferred') /\ wrapped' \in BOOLEAN
    BY <1>2, SoundIs, DeferringSound DEF IInv, TypeOK
  <2> QED
    BY <1>2, <2>1, GoOnKeeps
<1> QED
  BY <1>1, <1>2 DEF Defer

LEMMA FlushKeeps ==
  ASSUME IInv, NEW pub \in SUBSET DeviceEvents, NEW n \in 0..StackFrames,
         NEW next \in {"connect", "work"}, Flush(pub, n, next)
  PROVE  Kept /\ told' \in SUBSET DeviceEvents
<1>1. deferred \in Seq(DeviceEvents) /\ told \in SUBSET DeviceEvents /\ n \in Nat
  BY DeferredEventsAssumption DEF IInv, TypeOK
<1>2. deferred # <<>> => Head(deferred) \in DeviceEvents
  BY <1>1, HeadTailProperties
<1>3. told' \in SUBSET DeviceEvents
  BY <1>1, <1>2 DEF Flush
<1>4. CASE Reboot
  BY <1>3, <1>4, RebootKeeps
<1>5. CASE /\ deferred' = SubSeq(deferred, n + 1, Len(deferred))
           /\ wrapped' = (wrapped \/ n = Len(deferred) + 1)
           /\ LinkSuspect
           /\ GoOn(next)
  <2>1. Sound(deferred')
    BY <1>1, <1>5, SoundIs, RestSound
  <2>2. connected' \in BOOLEAN /\ wrapped' \in BOOLEAN
    BY <1>5 DEF LinkSuspect, IInv, TypeOK
  <2> QED
    BY <1>3, <1>5, <2>1, <2>2, GoOnKeeps
<1> QED
  BY <1>4, <1>5 DEF Flush

\* Whether it reaches the broker, waits or crashes the device.
LEMMA PublishKeeps ==
  ASSUME IInv, NEW ev \in DeviceEvents, PublishDeviceEvent(ev, "connect")
  PROVE  Kept /\ told' \in SUBSET DeviceEvents
<1>1. connected \in BOOLEAN /\ wrapped \in BOOLEAN /\ told \in SUBSET DeviceEvents
  BY DEF IInv, TypeOK
<1>2. CASE /\ IF connected THEN LinkSuspect ELSE UNCHANGED connected
           /\ Defer(ev, "connect")
           /\ UNCHANGED told
  <2>1. connected' \in BOOLEAN
    BY <1>1, <1>2 DEF LinkSuspect
  <2> QED
    BY <1>1, <1>2, <2>1, DeferKeeps
<1>3. CASE /\ told' = told \cup {ev}
           /\ GoOn("connect")
           /\ UNCHANGED <<connected, deferred, wrapped>>
  BY <1>1, <1>3, SoundIs, GoOnKeeps
<1>4. CASE \E n \in 0..StackFrames : Flush({ev}, n, "connect")
  BY <1>4, FlushKeeps
<1> QED
  BY <1>2, <1>3, <1>4 DEF PublishDeviceEvent

LEMMA KeptIsIInv ==
  ASSUME Kept, told' \in SUBSET DeviceEvents, received' \in Nat, reports' \in Nat
  PROVE  IInv'
BY DEF Kept, Sound, IInv, TypeOK, NoTwoAlike

LEMMA InitIInv == Init => IInv
<1> SUFFICES ASSUME Init PROVE IInv
  OBVIOUS
<1>1. deferred \in Seq(DeviceEvents) /\ Len(deferred) = 0 /\ NoTwoAlike
  BY DEF Init, NoTwoAlike
<1>2. /\ at = "connect" /\ connected \in BOOLEAN /\ wrapped \in BOOLEAN
      /\ told \in SUBSET DeviceEvents
  BY DEF Init
<1>3. /\ slot \in 0..MaxCommands /\ running \in 0..MaxCommands
      /\ received \in Nat /\ accepted \in Nat /\ ran \in Nat /\ reports \in Nat
      /\ AcceptedIsTried
  BY DeferredEventsAssumption DEF Init, AcceptedIsTried, NoCommand
<1> QED
  BY <1>1, <1>2, <1>3, DeferredEventsAssumption DEF IInv, TypeOK

\* A command takes the slot only when it is free, and counts once.
LEMMA ReceiveKeeps ==
  ASSUME IInv, (connected' /\ ReceiveCommand) \/ ReceiveNothing, UNCHANGED ran
  PROVE  /\ slot' \in 0..MaxCommands /\ accepted' \in Nat /\ received' \in Nat
         /\ AcceptedIsTried'
<1>1. /\ slot \in 0..MaxCommands /\ accepted \in Nat /\ received \in Nat /\ ran \in Nat
      /\ AcceptedIsTried
  BY DEF IInv, TypeOK
<1>2. CASE ReceiveNothing
  BY <1>1, <1>2 DEF ReceiveNothing, AcceptedIsTried
<1>3. CASE ReceiveCommand
  BY <1>1, <1>3, DeferredEventsAssumption
    DEF ReceiveCommand, MayAccept, AcceptedIsTried, NoCommand
<1> QED
  BY <1>2, <1>3

\* One step for each action.
LEMMA StepIInv == IInv /\ [Next]_vars => IInv'
<1> SUFFICES ASSUME IInv, [Next]_vars PROVE IInv'
  OBVIOUS
<1>1. CASE ConnectMqttIfNeeded
  BY <1>1, ReceiveKeeps
    DEF ConnectMqttIfNeeded, LinkSuspect, IInv, TypeOK, NoTwoAlike
<1>2. CASE FlushDeferredEvents
  <2>1. received' \in Nat /\ reports' \in Nat
    BY <1>2 DEF FlushDeferredEvents, IInv, TypeOK
  <2>2. CASE GoOn("work") /\ UNCHANGED <<connected, deferred, wrapped, told>>
    <3>1. /\ connected' \in BOOLEAN /\ wrapped' \in BOOLEAN /\ Sound(deferred')
          /\ told' \in SUBSET DeviceEvents
      BY <2>2, SoundIs DEF IInv, TypeOK
    <3> QED
      BY <2>1, <2>2, <3>1, GoOnKeeps, KeptIsIInv
  <2>3. CASE \E n \in 0..StackFrames : Flush({}, n, "work")
    BY <2>1, <2>3, FlushKeeps, KeptIsIInv
  <2> QED
    BY <1>2, <2>2, <2>3 DEF FlushDeferredEvents
<1>3. CASE StartSms
  BY <1>3, DeferredEventsAssumption
    DEF StartSms, IInv, TypeOK, NoTwoAlike, AcceptedIsTried, NoCommand
<1>4. CASE WhileSmsRuns
  BY <1>4, ReceiveKeeps DEF WhileSmsRuns, LinkSuspect, IInv, TypeOK, NoTwoAlike
<1>5. CASE AnswerSms
  <2>1. PICK result \in SmsResults :
          PublishDeviceEvent([text |-> result, command |-> running], "connect")
    BY <1>5 DEF AnswerSms
  <2>2. [text |-> result, command |-> running] \in DeviceEvents
    BY DEF IInv, TypeOK, DeviceEvents
  <2>3. received' \in Nat /\ reports' \in Nat
    BY <1>5 DEF AnswerSms, IInv, TypeOK
  <2> QED
    BY <2>1, <2>2, <2>3, PublishKeeps, KeptIsIInv
<1>6. CASE Report
  <2>1. PICK text \in Reports :
          PublishDeviceEvent([text |-> text, command |-> NoCommand], "connect")
    BY <1>6 DEF Report
  <2>2. [text |-> text, command |-> NoCommand] \in DeviceEvents
    BY DeferredEventsAssumption DEF DeviceEvents, NoCommand
  <2>3. received' \in Nat /\ reports' \in Nat
    BY <1>6 DEF Report, IInv, TypeOK
  <2> QED
    BY <2>1, <2>2, <2>3, PublishKeeps, KeptIsIInv
<1>7. CASE NothingToDo
  <2>1. /\ GoOn("connect") /\ UNCHANGED <<connected, deferred, wrapped>>
        /\ received' \in Nat /\ reports' \in Nat /\ told' \in SUBSET DeviceEvents
    BY <1>7 DEF NothingToDo, IInv, TypeOK
  <2>2. connected' \in BOOLEAN /\ wrapped' \in BOOLEAN /\ Sound(deferred')
    BY <2>1, SoundIs DEF IInv, TypeOK
  <2> QED
    BY <2>1, <2>2, GoOnKeeps, KeptIsIInv
<1>8. CASE UNCHANGED vars
  BY <1>8 DEF vars, IInv, TypeOK, NoTwoAlike, AcceptedIsTried
<1> QED
  BY <1>1, <1>2, <1>3, <1>4, <1>5, <1>6, <1>7, <1>8 DEF Next

LEMMA Invariance == Spec => []IInv
BY InitIInv, StepIInv, PTL DEF Spec

\* Every variable keeps its type; the array keeps its size (deferDeviceEvent).
THEOREM TypeCorrect == Spec => []TypeOK
<1>1. IInv => TypeOK
  BY DEF IInv
<1> QED
  BY <1>1, Invariance, PTL

\* No two events that read the same ever wait together (deferDeviceEvent).
THEOREM NoTwoAlikeHolds == Spec => []NoTwoAlike
<1>1. IInv => NoTwoAlike
  BY DEF IInv
<1> QED
  BY <1>1, Invariance, PTL

\* An accepted SMS command is tried or still in its slot, as long as the device
\* is up (onMqttMessage, loop).
THEOREM AcceptedIsTriedHolds == Spec => []AcceptedIsTried
<1>1. IInv => AcceptedIsTried
  BY DEF IInv
<1> QED
  BY <1>1, Invariance, PTL
=============================================================================
