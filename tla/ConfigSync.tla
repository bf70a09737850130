------------------------------ MODULE ConfigSync ------------------------------
(***************************************************************************)
(* The configuration of one device, from the form to the device and back:  *)
(* device_config of main.py with the audio store of call_audio.py and      *)
(* tts.py, the retained message, applyDesiredConfig with syncRuleAudio on  *)
(* the device, and the report the worker stores.                           *)
(*                                                                         *)
(* A configuration is an element of Contents. Those in Spoken have a rule  *)
(* with a call text; it is the same text in all of them, so that one audio *)
(* stands for every one. Those in Refused are saved by the server and      *)
(* refused by the device, which checks more. A version stands for its      *)
(* hash: no two saves share a version (uq_device_configs_device_version).  *)
(*                                                                         *)
(* A save is a request of its own: it reads the newest version when it     *)
(* opens, may spend a minute on the audio, commits, and publishes after    *)
(* the commit. Everything else may happen in between, other saves          *)
(* included. The device stores a configuration as four values one after    *)
(* the other, and may fail or lose power between them; its report travels  *)
(* to the worker on its own.                                               *)
(***************************************************************************)
EXTENDS Integers, Sequences, FiniteSetsExt

CONSTANTS
  Savers,       \* requests that may save at the same time
  Contents, Spoken, Refused, NoContent,
  MaxVersion,   \* bound: versions of one behaviour
  MaxMishaps,   \* bound: kills, restarts, lost files, refused publications, archivings
  MaxNest,      \* bound: messages handled inside one another on the device
  MaxReports    \* bound: reports on their way to the server

ASSUME ConfigAssumption ==
  /\ Spoken \subseteq Contents /\ Refused \subseteq Contents
  /\ NoContent \notin Contents
  /\ MaxVersion \in Nat /\ MaxMishaps \in Nat /\ MaxNest \in Nat
  /\ MaxReports \in Nat

Versions == 1..MaxVersion
Files == {"none", "partial", "whole"}

VARIABLES
  server,      \* the committed rows and the file of the audio
  saving,      \* saving[s]: the save request s is working on
  broker,      \* the retained message, and the messages on their way to the device
  device,      \* the device: what it stored and runs on, audio, report to send
  reports,     \* the reports on their way to the server
  mishaps,     \* how many mishaps there were
  disturbed,   \* history: a save overlapped another or was killed
  flaws        \* history: what went wrong since the last version stored whole

vars == <<server, saving, broker, device, reports, mishaps, disturbed, flaws>>

------------------------------------------------------------------------------
(* Reading the state.                                                       *)

Content(v) == server.configs[v].content
Saved(v)   == v \in Versions /\ Content(v) # NoContent
Speaks(v)  == Saved(v) /\ Content(v) \in Spoken
Refuses(v) == Saved(v) /\ Content(v) \in Refused

\* The newest version, 0 if there is none.
Latest == Max({0} \cup {v \in Versions : Content(v) # NoContent})

Idle == [step |-> "idle", content |-> NoContent, version |-> 0, insert |-> FALSE]

Writing(s) == saving[s].step = "writing"

\* Mutant: the version in the JSON is taken whatever the newest is.
NextVersion_AsTyped(latest, requested) == IF requested = 0 THEN latest + 1 ELSE requested

\* The version a save gets: the one in the JSON if it is newer than the
\* newest the request read, the next one otherwise.
NextVersion(latest, requested) == IF requested <= latest THEN latest + 1 ELSE requested

Mishap == mishaps < MaxMishaps /\ mishaps' = mishaps + 1

------------------------------------------------------------------------------
(* The save.                                                                *)

\* Where a request begins: attach_call_audio prepares the audio of each rule
\* that has a text before anything is stored.
FirstStep(c) == IF c \in Spoken THEN "lookup" ELSE "ready"

\* The form arrives and the newest version is read. A rule without a text
\* needs no audio.
OpenForm(s, c, requested) ==
  LET version == NextVersion(Latest, requested) IN
  /\ saving[s] = Idle
  /\ ~server.archived
  /\ version \in Versions
  /\ saving' = [saving EXCEPT ![s] =
       [step |-> FirstStep(c), content |-> c, version |-> version, insert |-> FALSE]]
  /\ disturbed' = (disturbed \/ \E o \in Savers : saving[o] # Idle)
  /\ UNCHANGED <<server, broker, device, reports, mishaps, flaws>>

\* Mutant: the row alone is trusted.
FindAsset_RowOnly(s) ==
  /\ saving[s].step = "lookup"
  /\ server.asset
  /\ saving' = [saving EXCEPT ![s].step = "ready"]
  /\ UNCHANGED <<server, broker, device, reports, mishaps, disturbed, flaws>>

\* ensure_asset: a row whose file is there is used as it is.
FindAsset(s) ==
  /\ saving[s].step = "lookup"
  /\ server.asset /\ server.file # "none"
  /\ saving' = [saving EXCEPT ![s].step = "ready"]
  /\ UNCHANGED <<server, broker, device, reports, mishaps, disturbed, flaws>>

\* Otherwise the file is synthesised, in place and through a name that every
\* request for this text shares.
StartSynthesis(s) ==
  /\ saving[s].step = "lookup"
  /\ ~(server.asset /\ server.file # "none")
  /\ saving' = [saving EXCEPT ![s].step = "writing", ![s].insert = ~server.asset]
  /\ server' = [server EXCEPT !.file = "partial"]
  /\ UNCHANGED <<broker, device, reports, mishaps, disturbed, flaws>>

\* A failure removes the file and refuses the save. Two syntheses of one text
\* share the intermediate file and the result: either may spoil the other's.
EndSynthesis(s, file, ok) ==
  LET alone == \A o \in Savers \ {s} : ~Writing(o) IN
  /\ Writing(s)
  /\ ok => file # "none"
  /\ alone => file = (IF ok THEN "whole" ELSE "none")
  /\ server' = [server EXCEPT !.file = file]
  /\ saving' = [saving EXCEPT ![s] = IF ok THEN [@ EXCEPT !.step = "insert"] ELSE Idle]
  /\ UNCHANGED <<broker, device, reports, mishaps, disturbed, flaws>>

\* The row of the audio is flushed: an insertion waits for another one of the
\* same text to end, and fails if that one was committed.
InsertAsset(s) ==
  /\ saving[s].step = "insert"
  /\ saving[s].insert => \A o \in Savers \ {s} : ~(saving[o].step = "ready" /\ saving[o].insert)
  /\ saving' = [saving EXCEPT ![s] =
       IF @.insert /\ server.asset THEN Idle ELSE [@ EXCEPT !.step = "ready"]]
  /\ UNCHANGED <<server, broker, device, reports, mishaps, disturbed, flaws>>

\* Mutant: a version that exists is overwritten.
Commit_Overwrites(s) ==
  LET new == saving[s] IN
  /\ new.step = "ready"
  /\ saving' = [saving EXCEPT ![s].step = "stored"]
  /\ server' = [server EXCEPT
       !.configs[new.version] = [content |-> new.content, status |-> "desired"],
       !.desired = new.version,
       !.asset = @ \/ new.insert]
  /\ UNCHANGED <<broker, device, reports, mishaps, disturbed, flaws>>

\* The commit. Two saves that read the same newest version clash here, and
\* the second fails with all it did.
Commit(s) ==
  LET new == saving[s] IN
  /\ new.step = "ready"
  /\ IF Saved(new.version)
     THEN /\ saving' = [saving EXCEPT ![s] = Idle]
          /\ UNCHANGED server
     ELSE /\ saving' = [saving EXCEPT ![s].step = "stored"]
          /\ server' = [server EXCEPT
               !.configs[new.version] = [content |-> new.content, status |-> "desired"],
               !.desired = new.version,
               !.asset = @ \/ new.insert]
  /\ UNCHANGED <<broker, device, reports, mishaps, disturbed, flaws>>

\* A retained message replaces the last one and goes to the device if it is
\* connected. Version 0 is the empty payload, which removes it.
Retain(v) ==
  broker' = [retained |-> v,
             inbox |-> IF device.connected THEN Append(broker.inbox, v) ELSE broker.inbox]

PublishDesired(s) ==
  /\ saving[s].step = "stored"
  /\ Retain(saving[s].version)
  /\ saving' = [saving EXCEPT ![s] = Idle]
  /\ UNCHANGED <<server, device, reports, mishaps, disturbed, flaws>>

\* The publication raises an error; the broker may have had the message.
PublishFails(s) ==
  /\ saving[s].step = "stored"
  /\ Mishap
  /\ Retain(saving[s].version) \/ UNCHANGED broker
  /\ server' = [server EXCEPT !.configs[saving[s].version].status = "publish_failed"]
  /\ saving' = [saving EXCEPT ![s] = Idle]
  /\ UNCHANGED <<device, reports, disturbed, flaws>>

\* The request ends where it is: killed at the timeout of the web server, or
\* refused because another rule's audio fails. What it flushed is rolled back,
\* a file it was writing stays as it is.
KillSave(s) ==
  /\ saving[s] # Idle
  /\ Mishap
  /\ saving' = [saving EXCEPT ![s] = Idle]
  /\ disturbed' = TRUE
  /\ UNCHANGED <<server, broker, device, reports, flaws>>

\* The volume of the audio is wiped.
LoseFile ==
  /\ server.file # "none"
  /\ Mishap
  /\ server' = [server EXCEPT !.file = "none"]
  /\ disturbed' = (disturbed \/ \E s \in Savers : saving[s] # Idle)
  /\ UNCHANGED <<saving, broker, device, reports, flaws>>

\* Deleting a device clears its retained configuration, if the broker answers.
Archive ==
  /\ ~server.archived
  /\ Mishap
  /\ server' = [server EXCEPT !.archived = TRUE]
  /\ Retain(0) \/ UNCHANGED broker
  /\ UNCHANGED <<saving, device, reports, disturbed, flaws>>

\* Restoring it publishes nothing.
Restore ==
  /\ server.archived
  /\ server' = [server EXCEPT !.archived = FALSE]
  /\ UNCHANGED <<saving, broker, device, reports, mishaps, disturbed, flaws>>

------------------------------------------------------------------------------
(* The device. Storing a configuration puts four values into the flash, in  *)
(* the order of Order; the values it runs on follow when all are stored.    *)
(* Then the audio is brought in line, by fetching or deleting the file:     *)
(* waiting for the modem serves the MQTT client, so that a message may be   *)
(* handled inside the handling of another one (applying, the inner first).  *)

Keys == {"cfgVer", "cfgHash", "telemetrySec", "callEn"}
Order == [cfgVer |-> 1, cfgHash |-> 2, telemetrySec |-> 3, callEn |-> 4]

\* The values of version v; the device holds the version it would name.
Values(v) == [key \in Keys |-> v]
Held == device.live["cfgVer"]

NoReport == [due |-> FALSE, version |-> 0, applied |-> FALSE]

\* An empty message has no version, and some configurations are refused.
Rejects(v) == v = 0 \/ Refuses(v)

\* Mutant: the version alone says that it was applied before.
Skips_ByVersion(v) == v = device.live["cfgVer"]

\* Version and hash are those of the last configuration.
Skips(v) == v = device.live["cfgVer"] /\ v = device.live["cfgHash"]

\* What the audio needs: one file, which every spoken configuration shares.
Task(v) == IF Speaks(v) = device.audio THEN "none" ELSE IF device.audio THEN "prune" ELSE "fetch"

\* The next message, and whether it is handled inside the handling of another.
Arriving == Head(broker.inbox)
Nested == IF device.applying = <<>> THEN {} ELSE {"nest"}

Arrives ==
  /\ device.connected /\ broker.inbox # <<>>
  /\ Len(device.applying) < MaxNest
  /\ broker' = [broker EXCEPT !.inbox = Tail(@)]

\* It is one to store.
Stores(v) == ~Rejects(v) /\ ~Skips(v)

Noted(v) == [device EXCEPT !.report.version = v, !.report.applied = FALSE]

\* Mutant: what it runs on is only read at the next start.
Stored_InTheFlash(v) == [Noted(v) EXCEPT !.kept = Values(v)]

Stored(v) == [Noted(v) EXCEPT !.kept = Values(v), !.live = Values(v)]

\* Stored, and nothing left to do.
Done(v) == [Stored(v) EXCEPT !.report.due = TRUE, !.report.applied = TRUE]

\* What the handler does with version v up to where it waits for the modem or
\* returns, if storing succeeds.
Take(v) ==
  IF Rejects(v) THEN [Noted(v) EXCEPT !.report.due = TRUE]
  ELSE IF Skips(v) THEN Noted(v)
  ELSE IF Task(v) = "none" THEN Done(v)
  ELSE [Stored(v) EXCEPT !.applying = <<Task(v)>> \o @]

Receive ==
  /\ Arrives
  /\ device' = Take(Arriving)
  /\ flaws' = IF Stores(Arriving) THEN Nested ELSE flaws \cup Nested
  /\ UNCHANGED <<server, saving, reports, mishaps, disturbed>>

\* The modem is not ready: the audio is left as it is.
ReceiveWithoutModem ==
  /\ Arrives
  /\ Stores(Arriving) /\ Task(Arriving) # "none"
  /\ device' = Done(Arriving)
  /\ flaws' = Nested \cup {"audio"}
  /\ UNCHANGED <<server, saving, reports, mishaps, disturbed>>

\* The first k values of v are in the flash.
Kept(v, k) == [key \in Keys |-> IF Order[key] <= k THEN v ELSE device.kept[key]]

\* A value cannot be stored: the configuration is reported as rejected, and the
\* values before it stay.
StoreFails ==
  /\ Arrives /\ Mishap
  /\ Stores(Arriving)
  /\ \E k \in 0..3 : device' = [Noted(Arriving) EXCEPT !.kept = Kept(Arriving, k),
                                                          !.report.due = TRUE]
  /\ flaws' = flaws \cup Nested \cup {"store"}
  /\ UNCHANGED <<server, saving, reports, disturbed>>

\* What is left after a restart: the values in the flash.
Restarted(kept) ==
  [device EXCEPT !.connected = FALSE, !.kept = kept, !.live = kept, !.applying = <<>>,
                 !.report = NoReport]

\* The power fails while a configuration is stored. Below two values the
\* version is not taken for an applied one; with all four it is, without its audio.
StoreIsCut ==
  /\ Arrives /\ Mishap
  /\ Stores(Arriving)
  /\ \E k \in 1..4 :
       /\ device' = Restarted(Kept(Arriving, k))
       /\ flaws' = CASE k = 1 -> flaws [] k = 4 -> {"audio"} [] OTHER -> flaws \cup {"store"}
  /\ UNCHANGED <<server, saving, reports, disturbed>>

\* The handler is done with the audio and says that it applied what the
\* report is about by now.
FinishApply ==
  /\ device.applying # <<>>
  /\ LET task == Head(device.applying)
         done == [device EXCEPT !.applying = Tail(@), !.report.applied = TRUE, !.report.due = TRUE]
     IN  \/ /\ device' = [done EXCEPT !.audio = (task = "fetch")]
            /\ UNCHANGED <<mishaps, flaws>>
         \/ /\ task = "fetch" /\ Mishap
            /\ device' = done
            /\ flaws' = flaws \cup {"audio"}
  /\ UNCHANGED <<server, saving, broker, reports, disturbed>>

\* The report is sent once and forgotten. (What it said stays in variables that
\* the next message sets before they are read; held and flawed are history.)
Report ==
  /\ device.connected /\ device.applying = <<>> /\ device.report.due
  /\ Len(reports) < MaxReports
  /\ device' = [device EXCEPT !.report = NoReport]
  /\ reports' = Append(reports, [version |-> device.report.version,
                                 applied |-> device.report.applied,
                                 held |-> Held, flawed |-> "store" \in flaws])
  /\ UNCHANGED <<server, saving, broker, mishaps, disturbed, flaws>>

\* The broker has a report twice, perhaps another one in between.
Redeliver ==
  /\ reports # <<>> /\ Len(reports) < MaxReports
  /\ Mishap
  /\ reports' = Append(reports, Head(reports))
  /\ UNCHANGED <<server, saving, broker, device, disturbed, flaws>>

\* What the worker does with a report.
Reported(v, applied) ==
  IF server.archived THEN server
  ELSE [server EXCEPT
          !.reported = IF applied THEN v ELSE @,
          !.configs = [w \in Versions |->
             IF w = v /\ Saved(v)
             THEN [@[w] EXCEPT !.status = IF applied THEN "applied" ELSE "rejected"]
             ELSE @[w]]]

\* The next report arrives, or gets lost.
Note ==
  /\ reports # <<>>
  /\ server' \in {server, Reported(Head(reports).version, Head(reports).applied)}
  /\ reports' = Tail(reports)
  /\ UNCHANGED <<saving, broker, device, mishaps, disturbed, flaws>>

\* Subscribing delivers the retained message.
Connect ==
  /\ ~device.connected /\ device.applying = <<>>
  /\ device' = [device EXCEPT !.connected = TRUE]
  /\ broker' = [broker EXCEPT !.inbox = IF broker.retained = 0 THEN <<>> ELSE <<broker.retained>>]
  /\ UNCHANGED <<server, saving, reports, mishaps, disturbed, flaws>>

Disconnect ==
  /\ device.connected
  /\ device' = [device EXCEPT !.connected = FALSE]
  /\ broker' = [broker EXCEPT !.inbox = <<>>]
  /\ UNCHANGED <<server, saving, reports, mishaps, disturbed, flaws>>

\* The device restarts with the values it stored, and an index of its audio
\* written when it was last in line; what it was doing is not taken up again.
Restart ==
  /\ Mishap
  /\ device' = Restarted(device.kept)
  /\ broker' = [broker EXCEPT !.inbox = <<>>]
  /\ flaws' = flaws \cup (IF device.applying = <<>> THEN {} ELSE {"audio"})
  /\ UNCHANGED <<server, saving, reports, disturbed>>

------------------------------------------------------------------------------

Init ==
  /\ server = [configs |-> [v \in Versions |-> [content |-> NoContent, status |-> "none"]],
               desired |-> 0, reported |-> 0, archived |-> FALSE,
               asset |-> FALSE, file |-> "none"]
  /\ saving = [s \in Savers |-> Idle]
  /\ broker = [retained |-> 0, inbox |-> <<>>]
  /\ device = [connected |-> FALSE, kept |-> Values(0), live |-> Values(0), audio |-> FALSE,
               applying |-> <<>>, report |-> NoReport]
  /\ reports = <<>>
  /\ mishaps = 0 /\ disturbed = FALSE /\ flaws = {}

Save(s) ==
  \/ \E c \in Contents, requested \in 0..MaxVersion : OpenForm(s, c, requested)
  \/ FindAsset(s) \/ StartSynthesis(s)
  \/ \E file \in Files, ok \in BOOLEAN : EndSynthesis(s, file, ok)
  \/ InsertAsset(s) \/ Commit(s)
  \/ PublishDesired(s) \/ PublishFails(s) \/ KillSave(s)

Next ==
  \/ \E s \in Savers : Save(s)
  \/ LoseFile \/ Archive \/ Restore
  \/ Receive \/ ReceiveWithoutModem \/ StoreFails \/ StoreIsCut \/ FinishApply
  \/ Report \/ Redeliver \/ Note
  \/ Connect \/ Disconnect \/ Restart

Spec == Init /\ [][Next]_vars

------------------------------------------------------------------------------
(* Properties.                                                              *)

\* Every part of the state has its type; messages name versions and the
\* handler is inside itself MaxNest times at most.
TypeOK ==
  /\ server.configs \in [Versions -> [content : Contents \cup {NoContent},
        status : {"none", "desired", "publish_failed", "applied", "rejected"}]]
  /\ server.desired \in 0..MaxVersion /\ server.reported \in 0..MaxVersion
  /\ server.archived \in BOOLEAN /\ server.asset \in BOOLEAN /\ server.file \in Files
  /\ saving \in [Savers -> [step : {"idle", "lookup", "writing", "insert", "ready", "stored"},
        content : Contents \cup {NoContent}, version : 0..MaxVersion, insert : BOOLEAN]]
  /\ broker.retained \in 0..MaxVersion /\ broker.inbox \in Seq(0..MaxVersion)
  /\ device \in [connected : BOOLEAN, kept : [Keys -> 0..MaxVersion],
        live : [Keys -> 0..MaxVersion], audio : BOOLEAN, applying : Seq({"fetch", "prune"}),
        report : [due : BOOLEAN, version : 0..MaxVersion, applied : BOOLEAN]]
  /\ Len(device.applying) <= MaxNest
  /\ reports \in Seq([version : 0..MaxVersion, applied : BOOLEAN, held : 0..MaxVersion,
                    flawed : BOOLEAN])
  /\ mishaps \in 0..MaxMishaps /\ disturbed \in BOOLEAN
  /\ flaws \subseteq {"store", "audio", "nest"}

Register == INSTANCE ConfigRegister WITH
  saved <- [v \in Versions |-> Content(v)], held <- Held

\* The contract, whatever requests overlap, are killed, or publish late or not
\* at all: a saved version never changes, and the device only ever holds one
\* that was committed (not one whose save failed after its audio was made).
RefinesRegister == Register!Spec

\* The device goes back to an older version only if two saves overlapped (the
\* first to commit published last) or one was killed: neither a restored
\* device, a lost publication nor a version typed by hand can cause it.
NoStepBack == [][Held' < Held => disturbed]_vars

\* When the server takes note of a version as the one applied, and it is one that
\* the device accepts, the device held it when the report left: a message handled
\* within the handling of another does not change that, nor a report that arrives
\* late or twice. Excepted is a device whose last version could not be stored.
ReportIsTrue ==
  [][\A v \in Versions :
       server'.reported = v /\ server.reported # v /\ ~Refuses(v)
         => Head(reports).held = v \/ Head(reports).flawed]_vars

\* A configuration that speaks is committed only with its audio whole on the
\* disk, also when the volume was wiped before, unless requests overlapped or
\* one was killed while it wrote.
PreparedIsWhole ==
  [][\A s \in Savers :
       saving[s].step = "ready" /\ saving'[s].step = "stored" /\ saving[s].content \in Spoken
         => disturbed \/ server.file = "whole"]_vars

\* Nothing is being saved, and the device is connected and has done what it was sent.
AtRest ==
  /\ \A s \in Savers : saving[s] = Idle
  /\ device.connected /\ broker.inbox = <<>> /\ device.applying = <<>>

\* A device that has done what it was sent runs on the retained configuration, if it
\* accepts that, and has its audio, whatever messages were lost or came late and
\* whenever it restarted: unless storing it failed, or was cut between the hash and the
\* settings, and the audio was skipped, lost or handled within the handling of another.
\* And what is retained is the newest, unless saves overlapped or something failed.
SyncedAtRest ==
  AtRest =>
    LET v == broker.retained IN
    /\ \/ Rejects(v) \/ "store" \in flaws
       \/ /\ device.live = Values(v)
          /\ Speaks(v) => device.audio \/ flaws # {}
    /\ v = Latest \/ disturbed \/ mishaps > 0

\* "The device stores the latest valid configuration locally and reports what it
\* applied" (docs/device/DEVICE_CONFIG_V1.md:6): violated, a configuration refused
\* while the handler waits for the audio of another is reported as applied.
ReportsWhatItApplied == \A v \in Versions : server.configs[v].status = "applied" => ~Refuses(v)

\* The same line says that what is stored is the latest configuration, so that a device
\* which holds the retained one by its version and hash runs on its settings: violated,
\* a restart between the hash and the settings leaves the old ones under the new
\* version, which the device takes for applied from then on.
StoresTheLatest ==
  AtRest /\ Skips(broker.retained) => device.live = Values(broker.retained)

\* "Applying a configuration downloads what is missing and deletes what it no longer
\* asks for" (docs/ops/NOTIFICATIONS.md:249): violated though nothing failed, a
\* deletion begun for the version before ends after the version that asks for the
\* file has found it.
KeepsWhatIsAsked ==
  AtRest /\ Speaks(broker.retained) => device.audio \/ flaws \cap {"audio", "store"} # {}
===============================================================================
