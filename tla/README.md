# Verification of CallOnFail

CallOnFail watches sensors and telephones people. A device (an ESP32 with an
A7672 modem) publishes telemetry over MQTT. A server evaluates rules, keeps
alarms, and sends the device back commands to call or to text the phones of a
rule, one after the other, until somebody confirms. This directory holds TLA+
models of the parts that decide who is called, when, and in what order, of how
the device keeps in touch with the broker and gets its configuration, and of what
the panel shows of it; the TLC configurations that check them; and TLAPS proofs
of what must hold for every value of the constants.

Paths below are relative to the repository: `backend/app/` and `firmware/src/`.

## 1. The system

| Component | State it keeps | Operations | Talks to |
|---|---|---|---|
| Modem queue (`modem_queue.py`) | rows of `device_modem_jobs`: status, command, alarm, `not_before`, `sent_at`, payload (phone, cascade, notice) | enqueue, pump, complete, escalate, cancel, schedule the repetition | called inside the transactions of the worker and the panel; publishes commands |
| Alarm life cycle (`alarms.py`) | rows of `events` (payload: `resolved`, `rearm_at`, ...); Redis `cond:` and `rearm:` keys | evaluate rules, fire, dispatch, clear, notify, recycle | queue; e-mail, Telegram |
| Silencing (`alarm_ack.py`) | `acked` in the payload of the event, tokens | acknowledge by link, panel, e-mail reply, SMS | queue (cancels jobs, repetition) |
| MQTT worker (`mqtt_worker.py`) | none but its transaction | telemetry, device events, status, config reports; pumps every two seconds | all of the above; the broker |
| Web panel (`main.py`) | users, tenants, devices, rules | trigger, silence, test, clear history, delete and restore a device | same functions, from another process |
| Device: commands (`main.cpp`, `mqtt_io.cpp`, `sms_voice.cpp`) | one slot for a call, one for an SMS, one acknowledgement | receive, run, report progress, answer | broker; modem |
| Device: deferred events (`mqtt_io.cpp`) | array of eight events | publish, defer, flush | broker |
| Device: configuration (`ota_config.cpp`) | version and hash applied | apply, report | retained MQTT message |
| Device: network paths (`net_paths.cpp`, `lte_*.cpp`) | health of Ethernet, WiFi, LTE; PDP and CMQTT session | probe, choose a route, fall back | modem, lwIP |
| Device: radio (`modem_at.cpp`) | recovery stage, timers | poll, recover, restart | modem |
| Device: update (`ota_config.cpp`) | two slots, otadata, the running image | ask for the manifest, download, install, start | server, bootloader |
| Configuration, server (`main.py`, `call_audio.py`, `tts.py`) | rows of `device_configs`, `audio_assets`, audio files; the retained message | save, prepare audio, publish, note a report | device, broker, speech synthesiser |
| Sensor windows and charts (`telemetry_series.py`, `init_db.py`, `main.py`) | rows of `telemetry` and `sensor_windows` | backfill, close, reassign; chart, table, CSV, cards | panel |
| Presence (`mqtt_worker.py`, `main.py`, `alarms.py`) | `last_seen_at`, `status`, `discovered.network` of the device's row; the retained status and the will at the broker | note a message, create, delete, restore; say whether it is live, on which path, whether it may update | broker, panel, alarms |

What is hard in it:

* **Concurrency.** The web process, the worker's network thread and the worker's
  main loop run transactions on the same rows under READ COMMITTED. An event's
  payload is one JSON value, written back whole.
* **Publish, then commit.** A command is on the broker before the row that says
  so is committed. A crash between the two leaves a command without a job.
* **Answers late, twice, or never.** QoS 1 repeats; a device reboots; a call
  outlives `CALL_TIMEOUT`. The server completes a job by `command_id` whatever
  the job's status is, or by command name if there is no id.
* **Silence against what is under way.** A confirmation arrives between two calls,
  during one, or while a transaction that sends the next is open.
* **Single slots and bounded arrays.** Sixteen jobs a device, eight deferred
  events, one pending call, one pending SMS, one pending acknowledgement.
* **Timers.** Escalation delay, repetition, condition duration and the rearm gate,
  half of them in Redis and lost with it; `millis()` differences on the device.

What must hold, component by component:

* Queue: one job in flight; never more than the limit; nothing waits forever;
  phones in order, none skipped. (The first two hold only while transactions do not
  overlap; see section 6.)
* Alarms: at most one open alarm of a rule; one that is open is being pursued;
  it repeats while the reading is bad. (The first likewise.)
* Silencing: a silenced alarm sends nothing more but its closing notice.
* Device: accepted commands are carried out; results that cannot be published
  wait, in order, and are not lost. (The last does not hold; see section 6.)
* Configuration: a saved version never changes; the device holds a saved one, goes
  back to an older one only if requests raced, and once nothing is on its way runs on
  the retained one; what it reports is true of when it reported; a configuration that
  speaks has its audio. (The last three with exceptions; see section 6.)
* Sensor windows: a reading belongs to one name and keeps it; it is shown under
  that name wherever it is asked for; a line never bridges an outage.
* Presence: a dead device is not shown live, a healthy one is, on its path, and is sent
  an update when its LAN has internet. (The first with an exception; see section 6.)
* Update: a reset at any moment starts a whole image; only the announced image is
  installed, and only over an older one; the newest one arrives.
* Paths: MQTT ends up on the best path that works, no path that only looks fine
  holds it, a working session is not given up for nothing, and no session is left
  on an interface the device has given up. (Three of these hold with exceptions;
  see section 6.)

`PROJECT.json` lists every component with its status and every hazard at its line.

## 2. The modules

```
ModemJobs ── Alarms ── AlarmSystem          QueueTransactions
DeferredEvents       NetPaths       FirmwareUpdate
ConfigRegister <── ConfigSync       Readings ── MCReadings       Presence ── MCPresence
```

Each module with a state has a module of proofs beside it (`AlarmSystemProofs` for
`AlarmSystem`, and so on). `ConfigSync` implements `ConfigRegister` (`INSTANCE ... WITH`); the
other arrows are `EXTENDS`.

**`ModemJobs`** is `modem_queue.py`. All its functions run inside a transaction
of their caller, so they are operators from a *database value* to the database
value that would be committed: a record of job rows, alarm rows and how many ids
of each are used. A job id also stands for the job's `command_id`. Time is in
ticks and relative: `wait` is what is left of `not_before`, `age` what has passed
since `sent_at`, `rearm` what is left until `rearm_at`. Where the code can take
more than one path for reasons outside the model (how many publications in a row
are refused), the operator has a parameter (`k` in `PumpModemQueue`) and `Pumped`
is the set over all its values.

**`Alarms`** is `alarms.py` and `alarm_ack.py` for one rule of one device:
`DispatchAlarm`, `NormaliseAlarm`, `RecycleOpenAlarm`, `AcknowledgeDevice`,
`WipeEvents`. An alarm's `kind` is what `open_alarm_event` and `acknowledge_event`
tell apart: fired by the worker, fired for the rule from the panel, or the
panel's test without a rule.

**`AlarmSystem`** has the variables and the actions. Each action is one
transaction of the worker or the panel, or one step of the device. Transactions
are taken one at a time, which is a restriction: what two of them that overlap can do
(two jobs in flight, a queue over its limit, two open alarms of a rule, a confirmation
taken back) is out of this module's sight, and none of its properties says otherwise.
It is in `QueueTransactions`, and section 6 says what happens there.

| Code | Action |
|---|---|
| worker loop, `pump_due_modem_jobs` | `PumpDue` |
| telemetry, `evaluate_device_rules` | `TelemetryInRange`, `TelemetryWhileOpen`, `TelemetryHeldBack`, `TelemetryFires` (one per outcome) |
| device event with a result | `AnswerArrives`, `AnswerIsRepeated` |
| relayed SMS "ok" | `InboundOk` |
| restart without Redis | `ForgetTimers` |
| `device_trigger_alarm`, `send_device_command` | `TriggerAlarm`, `TestModem` |
| link, panel or e-mail reply | `AckByLink`, `AckByPanelOrReply` |
| `device_clear_events`, `device_delete`, `device_restore` | `ClearEvents`, `ArchiveDevice`, `RestoreDevice` |
| the device picks a command up, reports progress, answers or fails to | `StartSms`, `StartCall`, `LoseCommand`, `LoseAnswer` |

`Transact(d)` is how a transaction ends: it publishes the commands it newly
marked as sent and then either commits `d` or, a bounded number of times, is lost
after publishing. A lost transaction leaves the rows as they were, but the ids
it used are not used again. `inbox[j]` and `running[j]` count the copies of job
`j`'s command that are on their way and that the device is carrying out; both can
exceed one. A command whose rows were rolled back still reaches the device, and
its answer is then completed by command name.

**`DeferredEvents`** is the device's side of an SMS command. The firmware is one
thread, so a function with all it calls is one step of `loop()`. The one thing
that is not simple about it is that publishing flushes and flushing publishes:
`Flush(pub, n, next)` is what the recursion has done when it ends after `n`
successful publishes. `StackFrames` is how deep the loop task's stack lets it go.

**`NetPaths`** is `net_paths.cpp` with `maintainLteFallback` and
`connectMqttIfNeeded`. `net` is what the device believes, one field per variable
of the code (named at the field); `world` is what is plugged, leased and
reachable. `loop()` is a cycle of seven steps, and the task of the network events
may run between any two:

| Step | Code | Actions |
|---|---|---|
| `resolve` | `serviceBrokerResolve` | `ResolveBroker` |
| `eth` | `pollEthernetPath` | `RecoverEthernet`, `ProbeEthernetOnLte`, `ProbeEthernet`, `GiveUpUnknownBroker` |
| `wifi` | `pollWifiPath` | `ProbeWifi` |
| `paths` | `serviceNetworkPaths` | `SettleLan`, `PreemptLte` |
| `lte` | `maintainLteFallback` | `ReleaseLte`, `ProbeLan`, `DialLte` |
| `connect` | the rest of `connectMqttIfNeeded` | one action; `Prepared` is what happens before any transport is used |
| `report` | publishing, `enforceMqttSilenceWatchdog`, `serviceLteMqttHealth` | `Report`, `DropSilentSession`, `SilenceRestart`, `ReleaseDeadLte` |
| between | `onNetworkEvent` and the world | `CablePlugged`, `EthernetGotIp`, `CableUnplugged`, `WifiGotIp`, `WifiDisconnected`, `WifiForgotten`, `ModemReboots`, ... |

A step whose interval has not run out is skipped (`Skip`). Which losses the world
may cause in a run is the constant `Losses`; `Worlds` is the sets of paths over
which the broker may be reachable.

**`QueueTransactions`** takes the same queue apart. `AlarmSystem` runs one
transaction after the other; here the web processes (`Web`), the worker's thread
of messages (`"message"`) and its loop (`"loop"`) are each inside one, and a step is
a statement of it. The committed rows are `db`; `tx[p]` is the session of `p`: what
it has written (`events`, `jobs`), what it has read of a payload it has changed
(`read`), the rows its pump loaded (`rows`), the rows it has locked (`held`) and
where it is (`at`):

| Transaction | Steps |
|---|---|
| pump | `StartPump`, `Scan` (the snapshot of the query), `Lock` (one row of its `FOR UPDATE`; a row that no longer matches is dropped), `Locked`, `Expire`, `Flush`, `Pump` (publishes), `Commit` |
| answer of the device | `StartAnswer`, `Finish`, `Flush`, then the pump |
| firing, by the worker or the panel | `StartAlarm`, then the pump |
| confirmation, by the panel, SMS or mail | `StartSilence`, `Ack`, `ReadQueue`, `Cancel` (one job), `Cancelled`, then the pump (SMS) or `Commit` |

`Flush` writes what `_note_alarm_job` noted: SQLAlchemy sends the changed payload
at the next query, whole, as it was when it was loaded. `Victim` is the deadlock
detector of the database, `Crash` a killed process.

**`ConfigSync`** is one configuration's way from the form to the device and back.
A request (`saving[s]`) goes through `OpenForm`, `FindAsset` or `StartSynthesis`,
`EndSynthesis` and `InsertAsset`, `Commit`, `PublishDesired` or `PublishFails`.
The device stores a configuration as four values one after the other
(`ota_config.cpp:34-49`): `device.kept` is what is in the flash, `device.live` what it
runs on.

| Code | Action |
|---|---|
| `applyDesiredConfig` up to where it waits for the modem | `Receive` (`Take`); `ReceiveWithoutModem` if the audio cannot be brought in line |
| a write that fails at the k-th value; the power lost after the k-th | `StoreFails`, `StoreIsCut` |
| `syncRuleAudio` and the end of the handler | `FinishApply`; `applying` is the handlers inside one another, as waiting for the modem serves MQTT |
| the report is sent; the broker has it twice; the worker notes it, or it is lost | `Report`, `Redeliver`, `Note`; `reports` is those under way |
| the session and the power | `Connect`, `Disconnect`, `Restart` |

`flaws` is what went wrong since a version was last stored whole, and `disturbed`
whether saves overlapped or one was killed; the properties name them where they make an
exception. `ConfigRegister` is what `docs/device/DEVICE_CONFIG_V1.md` promises of
versions: a saved one is never another configuration, and the device holds a saved one.

**`Readings`** has the telemetry rows and the sensor windows of a device as its
state, and what the panel shows as operators over it: `Chart`, `CsvColumn`,
`TablePage`, `Card`. A sample is its second and the keys it carries; its number is
its place in the sequence, so an average is the set of samples averaged, and a
property can ask which samples are drawn where. Closing and reassigning a window
read and commit in two steps. `MCReadings` gives the bucket table and the symmetry.

**`Presence`** has a clock, the device's session, what the broker keeps (retained
status, a session lost without a `DISCONNECT`), the messages on their way, and the
device's row. A message carries what `fillNetworkJson` writes: whether Ethernet, WiFi and
LTE are up, whether the first two have internet, and the interface in use
(`activeNetworkName`). What the panel concludes (`device_is_live`,
`device_network_summary`, `device_ota_block_reason`) are operators over the row, which
read these flags as the code does. A LAN session's will is retained; the one given to the
modem is not (`lte_mqtt_native.cpp:389-393`). `MCPresence` says which interfaces the
device of a run may find.

**`FirmwareUpdate`** is a release on its way to a device. `site` is the two files the
server gives out, `slots` and `ota` what is in the flash (two images, and the state
of each in otadata), `dev` the running device:

| Code | Action |
|---|---|
| `release-fw.py`, `git pull` on the server | `Release`, `Pull` (one file at a time) |
| `device_command_ota_check` | `Ask` |
| `checkManifest`, with `compareVersions` | `checkManifest`, `Newer` |
| `performOta` | `GetImage` (`Update.begin` gives the other slot up), `Install`, `Mismatch` (of the digest), `Fail` |
| the bootloader, which leaves a new image to be confirmed | `Boot`, in `Install` and `Reset` |
| the core, which confirms it before `setup` | `Begin` |
| the session with the broker | `Connect` |

The bootloader and the core are external: `Started` is the slot ESP-IDF starts,
`GivenUp` what it makes of an image that was not confirmed. Nothing overrides
`verifyRollbackLater`, so the core confirms an image before `setup` looks at it,
`initOtaRollbackGuard` finds none that waits, and `serviceOtaRollbackGuard` returns at its
first line: the guard has no action, as it never acts in this build.

In each module, the definitions named `Something_Word` marked "Mutant" are
plausible mistakes; each property is checked to notice one of them.

## 3. The runs

Bounds: `MaxJobs` and `MaxEvents` bound the rows of one behaviour (a transaction
that would need more is not taken); `MaxPublishFails` refused publications in one
pump; `MaxMishaps` crashes, restarts and repeated deliveries; `MaxTests` panel
tests; `PanelKinds` which alarms the panel fires. A timeout of 1 tick is two
ticks before a job is overdue, so an answer can come before, at and after it.

| Run | Checks | Instance | Distinct states |
|---|---|---|---|
| `AlarmCascade` | `SilencedStaysQuiet`, `StillPursued`, `CascadeInOrder`, `NoCommandForSilenced` | two phones to call, one to text, a closing notice, a panel test and both panel alarms, with delay and duration, in a queue of two: every way of silencing between any two steps, one lost transaction, restart or repeated answer, one refused publication, anywhere | 1.7 M |
| `AlarmRepeat` | `AlarmRepeats`, `QueueDrains` | liveness: two alarms of the rule, with hysteresis and duration, recycled, wiped, normalised, one mishap: a second event follows the first while the reading is bad, and no job waits forever behind one that is in flight | 345 k |
| `QueueTransactions` | `TypeOK`, `PublishedOnce`, `CancelledStaysSilent`, `TransactionsEnd` | one web process and the worker's two threads, one alarm, two phones, one killed process | 65 k |
| `Deferred` | `TypeOK`, `NoTwoAlike`, `AcceptedIsTried` | array of two, stack of five frames, two commands, two reports: full array, merged events, wrapped count, overflow | 9.2 k |
| `PathsEthernet` | `OneSession`, `StaleSessionIsBounced`, `LteKept`, `EthernetComesBack` | no WiFi; Ethernet, LTE or both work; broker given by name; every loss, and an old holdoff may look active again | 154 k |
| `PathsWifi` | `LteTakesOver`, `WifiTakesOver` | liveness: dead LAN that looks fine, dead Ethernet beside a good WiFi, the clock negative once | 126 k |
| `ConfigSync` | `RefinesRegister`, `NoStepBack`, `ReportIsTrue`, `PreparedIsWhole`, `SyncedAtRest` | two requests, two versions, a plain, a spoken and a refused configuration; one mishap: a request killed, a write that fails or is cut at any value, a restart, a report that comes twice, ...; messages nested two deep, two reports under way | 2.6 M |
| `Readings` | `OneOwner`, `HistoryKept`, `ShownToItsOwner`, `OutageBreaksTheLine`, `CardIsNewest`, `PagesShowAll` | one probe, two requests at a time, up to two windows and three samples in five seconds; every range | 758 k |
| `Presence` | `DeadIsNotLive`, `HealthyIsShown` | good Ethernet, or a router without internet, or that beside a good WiFi, or the modem only; shown live for three ticks, reports every two; five ticks, two restarts of the worker or lost statuses | 5.6 M |
| `Firmware` | `ResetIsSafe`, `UpdatesForward`, `NewestArrives` | four releases, the second never connects, three resets or downloads that break off; LAN and broker come and go as often as they like | 12.5 k |
| `CallOverEarly` | `FinishedByItsResult` (violated) | finding 1 | |
| `AckTakenBack` | `EscalationStops` (violated) | finding 2 | |

Why these bounds are enough to be interesting: an alarm's second call, its
SMS or its notice, and a test compete for two places in the queue; a repetition needs two events;
two events that are not
alike fill an array of two and a third displaces one; a count wraps with two
successful publishes of one event. Two transactions that send, or one that sends
and one that cancels, need two jobs; a circle of two that wait for each other needs
an alarm and a job. Two saves that race need two requests and two versions, and a
configuration that is kept from the device, one that is refused beside one with
audio. Two names for one probe need two windows; an outage has to lie among
others, so three samples, and `GapMinSamples = 2` makes the median of two steps
count. A device is taken over, forgotten by the broker, restarted upon and shown dead
within five ticks, and with two mishaps a restart can meet a will that is retained because
the status of the next session was lost. Four releases leave room for one that is pulled
while an older one is fetched, beside the bad one.
For the paths, limits of two are the code's
own values (`kEthProbeFailLimit`, `kWifiProbeFailLimit`, `kLanMqttFailLimit`), so
nothing is scaled down; the world changes as often as it likes; and `MaxMishaps`
bounds only sessions the broker drops and clocks that pass half their range. The
proofs below drop the bounds for the properties they cover, which is all the safety
properties of the passing runs but `SyncedAtRest`. `CascadeInOrder` is the one that profits most: a cascade that
forks by a late answer needs a fourth job beside an SMS, which takes longer than a
run should.

No run disables the deadlock check: the clock and the reading never stop, and
neither does `loop()`; and where a clock is bounded, the panel and the device can
always do something more.

### Fairness

`FairSpec` of `AlarmSystem` assumes weak fairness of three things only. `PumpDue`: the
worker's main loop pumps every two seconds whatever else happens. `Tick`: time passes.
`Telemetry`: a device that is up publishes at its interval (the property excuses
a device that was deleted, whose telemetry is dropped). Nothing is assumed of the
device answering a command, of a person confirming, or of the panel. That is
why `AlarmRepeats` is checked without refused publications: with one it fails
(section 6). `QueueDrains` also held, under the fairness of `PumpDue` and `Tick` alone,
in a run with two phones, an escalation delay, a panel test and a refused publication
(`CallPhones = 2`, `EscalateDelay = 1`, `MaxTests = 1`, `MaxPublishFails = 1`,
`MaxEvents = 1`, `MaxJobs = 4`; 270 k states); the run kept has none of these.

`FairSpec` of `NetPaths` assumes that `loop()` goes on (the task watchdog restarts
a device whose loop does not), that the holdoff and the grace after the start end,
and strong fairness of what waits for an interval of its own: resolving the name,
probing Ethernet, probing WiFi, releasing LTE after the settle time, dialling, and
connecting or noticing that a session is dead. Strong, because the step comes
round again and again but each time may find its interval still running or the
interface just gone; a timer that has run out stays so until the step is taken.
Nothing is assumed of the world: the properties speak of behaviours in which it
settles. `EthernetComesBack` speaks of those in which the device also knows an address of
the broker to probe (`net.known`: after a first resolution or connection, for a broker
given by name): without one it fails (section 6). `SilenceRestart` is not
assumed either, so what is shown does not lean on the device restarting itself.

`FairSpec` of `QueueTransactions` assumes strong fairness of each process inside
its transaction: the database serves those who wait for a row in turn, so one that
can go on again and again does; it also ends one transaction of every circle (that
is `Victim`, a step like the others). Nothing is assumed of the start of a
transaction.

`FairSpec` of `FirmwareUpdate` assumes that a start ends in `loop()` and that `loop()` goes
on: each pass connects to a broker that is there, also between two commands, so one that
keeps coming back is connected to (strong fairness); the command is obeyed, and a download
ends one way or the other (weak fairness). Nothing is assumed of resets or of the panel.

## 4. The proofs

All for every value of the constants, from the assumptions declared with them:
bounds and timeouts are natural numbers, the queue's limit is positive.

* **`AlarmSystemProofs`**: `TypeCorrect`, `SilenceHolds`, `CommandsHold` (an action
  property), `CascadeHolds`, `PursuitHolds`; all with transactions taken one at a time.
* **`QueueTransactionsProofs`**: `TypeCorrect`, `PublishedOnceHolds`,
  `CancelledStaysSilentHolds` and `SendsAloneHolds` (action properties). The last is of no
  run: it is what is left of "one at a time" when transactions overlap.
* **`DeferredEventsProofs`**: `TypeCorrect`, `NoTwoAlikeHolds`, `AcceptedIsTriedHolds`.
* **`NetPathsProofs`**: `TypeCorrect`; `StaleSessionIsBouncedHolds` for a device that
  has been up for less than 25 days (`"uptime" \notin Losses`), `OneSessionHolds` for
  such a device on a site without WiFi, and `LteKeptHolds` (an action property) for
  any device on a site without WiFi.
* **`ConfigSyncProofs`**: `TypeCorrect`; `ContractKept`: `ConfigSync` implements
  `ConfigRegister`; `ReportIsTrueHolds`, `NoStepBackHolds` and `PreparedIsWholeHolds`
  (action properties).
* **`FirmwareUpdateProofs`**: `TypeCorrect`, `ResetIsSafeHolds`, and
  `UpdatesForwardHolds` (an action property).
* **`PresenceProofs`**: `TypeCorrect`, `DeadIsNotLiveHolds`, `HealthyIsShownHolds`, for
  every number of restarts and lost statuses.
* **`ReadingsProofs`**: `OneOwnerHolds`, `HistoryKeptHolds` (an action property),
  `ShownToItsOwnerHolds`, `CardIsNewestHolds`, `PagesShowAllHolds`,
  `OutageBreaksTheLineHolds`.

The assumptions on constants beyond their types are few. `Presence` assumes that a
device sends telemetry more often than it is called dead without (`Interval <
LiveSeconds`), and that traffic outweighs a will for no longer than that
(`OfflineSeconds <= LiveSeconds`), as the values in the code are; `Readings` that
there are finitely many keys.

*The argument for the alarms.* Every action of `AlarmSystem` sets `db` to the
result of a few operators applied one after the other, so nothing is proved about
actions until everything is known about operators. The first sections of
`AlarmSystemProofs` are about those of `ModemJobs` and `Alarms`. They call a
database value `Good` when it has the right type, at most one sent job, no more
active jobs than the limit, and nothing but notices queued for a silenced alarm.
The last is what the theorems need; the second and third are parts of the invariant and
not results, as they hold of transactions taken one at a time only (section 6). They are
there because they need each other's context: a pump marks a job as sent only when none is
in flight, and what it marks must not belong to a silenced alarm, which is only known
because nothing of one is queued.
For each operator a lemma says that it keeps `Good`, and what it may have done to
the sent jobs: `Reaches` (for operators that may expire or complete a job and
queue its successor), `Follows` and `Grows` (what it did to the used ids and to
the silenced alarms). The same is done for firing, normalising, recycling,
silencing and wiping. The delicate step is the escalation of a late
answer: the new job is queued for the alarm of a call that is already over, and
it is `MayEscalate` that rules out a silenced one.

The module then has the inductive invariant `IInv == TypeOK /\ Good(db)`
and one lemma per action. `SilencedStaysQuiet` alone is not inductive: a database of the
wrong type, or one whose ids beyond `last` are in use, could lose it in one step.
`CommandsHold` is an action property because a command that leaves in a
transaction that is then lost is in no state of the database; it follows from
`Good` of the value the transaction computed, whether it was committed or not.

A second invariant, `Whole`, rests on the first. `Ordered` says that the call before
a later call has a smaller id and is over, answered or timed out: a job that is done
or has failed with an age never changes its status again but to "done", and it is
only such a job that `MaybeEscalateCall` follows with the next phone. `Single` says
that the rule has one open alarm, which both ways of firing test for (again: one after the
other). `Pursued` says
that an open alarm that is to be repeated has its repetition scheduled or, while
nobody has confirmed it, a call that is queued, in flight, or was refused unsent. The
delicate steps are the ends of a call: one that has no successor schedules the
repetition, and one that has puts it into the queue, which may be full; a successor
that does not fit fails unsent, as one that is refused does.

*The argument for the interleaved transactions.* Two invariants. `Structure` says
what a session may hold: no row is locked by two transactions, a transaction writes
only rows it has locked or inserted, and a job it has loaded under a lock is as it is
in the table (`LoadedIsCurrent`). `Counted` says of each job how often it was
published: never, if it waits in the queue and no open transaction has sent it, and
once, if one has. A pump publishes only a job that it has locked and that is queued,
in the table and in what it has written itself, so it was never published. `published` counts
what was not rolled back, so a crash takes it back. That a confirmation silences what it cancels follows from the same
lock: the pump that waited for a row drops it if it no longer matches (`Lock`), and what is
loaded and locked stays as it is.

`SendsAlone` needs a third, `Pumping`. `Accounted` says that every job a pump found in its
snapshot is still to be locked, among the rows it has loaded, or has ended in the table
(`Settled`). What has ended stays so, whatever the other transactions commit: a
transaction sends only what is new or queued for all the others (`SentWasQueued`). So a pump
that sends, having loaded no sent job, leaves none behind of those it found.

*The argument for the deferred events.* `IInv` is the three properties together.
`Sound(q)` (an array of the right size with no two events alike) is kept by
removing from the front (`RestSound`) and by deferring (`DeferringSound`), so any
number of nested flushes keeps it; a restart leaves it trivially. `Kept` says
what one part of a step leaves behind; each action adds the variables that part
does not touch.

*The argument for the paths.* `StaleSessionIsBounced` is about a flag that many
operators set and one takes back: `bounceMqttForRouteChange` leaves the socket
alone when MQTT rides the modem. So the invariant has to say that a socket over
Ethernet and MQTT on the modem exclude each other (`OffTheModem`), and the reason
is the order of two calls: `maintainLteFallback` releases LTE in the step before
the one that chooses the transport, unless the session is already to be bounced
(`Alone`, which holds only at that step). That no connection comes to life over an
Ethernet flagged down follows from the default route (`RouteFollows`). Each
operator keeps `Good`, does not dial, and keeps `Alone` between the two steps
(`Keeps`); each step of `loop()` keeps `Good` and, except `DialLte`, does not dial
(`Calm`). The hypothesis on uptime is needed: when the grace after the start comes
back, LTE is not released, and TLC finds the violation if an old holdoff looks
active as well.

On a site without WiFi `Wired` adds that nothing goes over WiFi, that the modem carries
nothing without its context, and that a session on the modem which does not carry
MQTT was set aside for an Ethernet that is trusted, or has been flagged down since.
With it each step is `Settled`: it keeps `Wired`, and if it ends the context of a
working session, the LAN is trusted. `Wired` does not hold with a second path that may
be associated and yet not work, so the theorems exclude it: `LteKept` is broken there
(section 6); for `OneSession` TLC has found no violation on such a site, and it is not
proved for one.

*The argument for the configuration.* Only a commit and a message the device takes
change what the register sees; everything else is a stutter. That a committed version
was free is the guard of `Commit` (the unique key of the row). That the device takes
only saved versions is what the invariant has to add: a request that has stored its
configuration publishes a saved version (`Sound`), so the retained message and every
message on its way is a saved version or empty (`Brokers`), and it stays so because
nothing takes a saved version back (`BrokersGrow`); the same of what is in the flash, of
what the device runs on and of the reports under way (`Knows`, `Letters`).

The action properties need more. `Told`: the report the device is about to send names the
version it holds, or one it refused, unless storing had failed (`Truthful`); a message
handled inside the handling of another overwrites it with its own version, which is the
one then held. And every report under way did when it left (`Honest`), so it does not matter
when, or how often, it arrives. `Calm`, as long as no saves overlapped and none was killed: one
request at a time, its version greater than all that are saved, the messages on their way in
rising order from the version in the flash, which is never older than the one the device
holds, up to the retained one (`Upwards`), and the file partial only while a request writes
it. It is the flash that counts, because a restart after a failed write goes on from there. And
a saved version keeps what it is (`SavedStays`), so a refused one stays refused.

*The argument for the update.* `ResetIsSafe` speaks of the slot the bootloader would
take now. The invariant says what the slots are: the running image is whole, and it is
confirmed and the one to be taken (`Confirmed`), or it is starting, waits for the core's
confirmation, and the other slot holds a whole, confirmed image (`OnTrial`). The other slot
is only written from the loop, when the running image is confirmed. `BootStarts` says what a
restart leaves, whatever otadata says; `SafeStarts` which slot it takes.

*The argument for the presence.* While a device is in a session and the worker has not
restarted, the last message on its way to the worker is its own, or the row already says
what it said (`Told`): a will only comes before it. A worker that restarts after it took that
message may be sent an old will, which changes the status but not the time the device was
seen. Once a session is over, no sign of life is younger than
the moment by which the broker gave it up, unless "online" is retained
(`Fades`). What the page says of the path and of updates then follows from the flags alone.

*The argument for the readings.* A reading belongs to one window because of two windows
of a key one ended before the other began (`Apart`), as long as nobody posted a window
that was closed already. A commit keeps that, although it acts on what an earlier
read found, because a request that found its window closed is about one that stays
closed (`Pending`). `ShownToItsOwner` and `PagesShowAll` are about the operators alone:
the columns of a range are chosen by the same overlap that `InForce` needs
(`windows_for_range`), and the pages are consecutive runs of a numbering of the rows.
`CardIsNewest` also needs the samples to be in the order of their times (`Arrived`):
the card shows the newest row that has the key, and none after one that the name owns
can be of a time before its window.

`OutageBreaksTheLine` compares two ways of finding a gap: `silence_spans` goes over the
sorted stamps and leaves out the steps that are zero, `Outages` looks at rows that lie
next to each other. Without two rows of one second they find the same
(`SilencesAreOutages`), because the rows of a range are an interval (`RowsAreARun`) and
the sorting of an interval is known (`AscendingInterval`); the median itself need not be
known, only that both use it on the same steps. The bucket in which an outage begins
touches it, so it is empty, and buckets are in the order of their rows (`SlotsAscend`),
so it lies between the readings on both sides.

*Only model-checked.* Liveness (`AlarmRepeats`, `QueueDrains`, `EthernetComesBack`,
`LteTakesOver`, `WifiTakesOver`, `TransactionsEnd`, `NewestArrives`) is outside what the prover
can do. `SyncedAtRest` is a safety property and is not proved yet. The median itself and the
sorting in it cannot be (`SortSeq` has no definition the provers can expand); `Ascending`, which
sorts the rows, is defined by counting for that reason.

## 5. Abstractions

* In `AlarmSystem` transactions are atomic, except that one may be lost after
  publishing. `QueueTransactions` has them interleaved, with less in them: one
  device, calls only, no delay and no repetition; normalising, wiping and recycling
  are not in it. So whatever is shown of the alarms' delays, repetition and closing is shown
  for transactions that do not overlap.
* E-mail and Telegram, texts, tokens, roles and tenants are left out: nothing the
  queue or the alarms do depends on them. Who may silence is not modelled, only
  that somebody does.
* Preparing the audio of a call, the broker refusing a message and a missing
  phone are the same thing to the queue: an attempt that fails.
* Phones are positions in the rule's list. The lists are not edited meanwhile.
* A job's `age` stops one tick after its timeout, as nothing reads it beyond.
* In `DeferredEvents`, type, severity and message are one value, since only
  equality of the three is ever tested. A publish on LTE may fail and leave the
  link up; on Ethernet or WiFi it takes the link down; both are allowed always.
* In `NetPaths` timers are nondeterministic: an interval may or may not have run
  out. The count of failed connections over LTE is the choice to give up or not.
  `ethRecoverPending` is derived from link and lease, as the code derives it.
* A step of `loop()` is atomic, so an event does not fall into the middle of a
  probe, where the route is pinned; that is the planned `ProbeRoute`. The guards
  for a call, an update or a borrowed UART are left out: they skip the step, and
  a step may be skipped anyway.
* Not modelled of the paths: a broker that moves to another address, saving a new
  broker (which clears its address), WiFi credentials and the count of failed
  authentications, `pauseWiFiRadio` and `scheduleWifiBackup` (nothing calls them),
  and what ESP-IDF does to the default route by itself.
* `WifiForgotten` is a WiFi given up whose event comes after the radio was turned
  off; `WifiDisconnected` is the same with the event.
* In `ConfigSync` one audio stands for every text, a version stands for its hash,
  and a configuration the server refuses (`validate_config_payload`, more than
  forty audios) is simply not in `Contents`. `ConfigRegister`, and with it
  `RefinesRegister`, is about the label a version is, not about the settings under it: that
  those are the version's own is `SyncedAtRest`. `ReportIsTrue` is about versions the device
  accepts, and version 0 (an empty message, handled inside the handling of another) names no
  version at all. `Connect` may come before the report of what was applied is sent, which the
  code does in the same pass. That a device comes to rest is not claimed.
* In `Readings` a frame is stored in the second it arrives, and a window ends in
  the second of its request. The table of ranges, the limits of rows and the
  threshold of an outage are constants. The text of the CSV is left out, as are
  units and axes.
* In `Presence` the worker takes a message within the tick it is sent in; a tick
  is longer than a message and shorter than a telemetry interval. A device may find its
  interfaces otherwise at every message (`Links`); which of two good ones a LAN session uses is
  not told apart. Signal, addresses and versions are left out.
* In `FirmwareUpdate` an image is whole or not there, and a version has one image, so
  the digest is its number. The panel refuses a device by what it last
  reported (`Presence`); `Ask` by what is so. The hourly `checkManifest(false)` never installs.
* Some modules have a type invariant that no run lists, because a proof covers it
  (`AlarmSystem`, `NetPaths`, `ConfigSync`, `FirmwareUpdate`, `Presence`, and `Readings`
  as `Types`).

## 6. Findings

1. **A call's first progress message is taken for its result** (`CallOverEarly`).
   `placeCallAndPlayAudio` first says which audio it uses; that text is not in
   `CALL_PROGRESS_PREFIXES`, so `complete_modem_job` marks the job done and queues
   the next phone before the modem has dialled (`modem_queue.py:21`).
2. **A confirmation is taken back** (`AckTakenBack`). An event's payload is one
   JSON value. The worker's pump loads the alarm, somebody confirms it, the pump
   notes the end of a call in the payload it has and writes all of it back: `acked`
   is gone, and the next phone is called (`modem_queue.py:314`, `alarm_ack.py:125`).
   `docs/ops/NOTIFICATIONS.md:355` says that confirming stops the escalation.

More the modules show, without a run kept for each. The properties named are in the
modules; a configuration that makes TLC find them violated is given with each. In
`QueueTransactions`, "two of each" is `Web = {"web"}`, `Phones = 2`, `MaxEvents = 2`,
`MaxJobs = 2`, `MaxQueuedJobs = 2`, `MaxCrashes = 0` under `Spec`.

* *Two jobs of a device in flight.* `pump_modem_queue` decides that nothing is in flight
  from the rows its query returns, and locks only those (`modem_queue.py:190-198`). Two
  transactions that each queued a job and have not committed do not see each other's row:
  both find their own job first, mark it sent and publish it. `docs/ops/NOTIFICATIONS.md:85`
  says "una operacion de modem a la vez". `OneSentJob` of `QueueTransactions`, two of each.
  What the lock does give is `SendsAlone`, checked there (925 k states) and proved.
* *More jobs than the limit.* `enqueue_modem_job` counts without a lock
  (`modem_queue.py:162-164`) and inserts; two transactions one short of the limit both do.
  `docs/ops/NOTIFICATIONS.md:87` says "Maximo 16 jobs." `WithinQueueLimit`, the same with
  `MaxQueuedJobs = 1`.
* *Panel and worker both open an alarm of one rule.* Each looks for an open one and fires,
  neither sees the other's (`main.py:1899-1913`); the message at `main.py:1901` says
  that a second one is refused. `OneOpenAlarm`, two of each.
* *A flush repeats the first deferred event and drops the others.*
  `flushDeferredEvents` publishes before it removes, and `publishDeviceEvent`
  flushes after it publishes (`mqtt_io.cpp:394-431`): one event is published again and again
  until a publish fails or the stack is exhausted; then every frame removes one event, so
  later ones leave unsent, or the count goes below zero, or the device restarts with all of
  them. The burst of identical messages followed by a restart that
  `docs/ops/BACKLOG.md:106-112` reports from the field is what the model predicts;
  `mqtt_io.cpp:425` says "Queue instead of dropping". `QueueInsteadOfDropping` of
  `DeferredEvents`, with the constants of `Deferred`.
* *The older of two equal results is kept.* Merging compares the text only and keeps the old
  copy with the old `command_id`, so the newer command's result is never sent; the comment
  says "Only the newest copy matters" (`mqtt_io.cpp:371`). `NewestCopyKept`, the same constants.
* *An Ethernet whose uplink came late is lost while LTE works.* Flagged down before
  the broker's name was resolved, it has no address to be probed with, and the
  resolver works only with a LAN interface connected (`net_paths.cpp:102`, `:340`;
  `docs/device/NETWORK_PATHS.md:202`). `HealthyEthernetIsUsed` of `NetPaths`: `PathsEthernet`
  with `Worlds = {{"lte"}, {"eth", "lte"}}` and `Losses = {}`. Once the device has an
  address, or with a broker given by one, Ethernet comes back (`EthernetComesBack`).
* *A refused configuration is reported as applied.* If it arrives while the handler
  of another waits for its audio, the report of the first carries the version of the
  second (`mqtt_io.cpp:51-83`; `docs/device/DEVICE_CONFIG_V1.md:6-7`). `ReportsWhatItApplied`
  of `ConfigSync`: one request, `MaxVersion = 2`, `MaxMishaps = 0`, `MaxNest = 2`,
  `MaxReports = 1`.
* *A configuration is torn for ever.* Version, hash, telemetry interval and calling flag are
  stored one after the other (`ota_config.cpp:34-49`). A restart, or a failed write, after the
  hash leaves the old settings under the new version, and the retained message is taken for the
  one already applied (`mqtt_io.cpp:66`). `StoresTheLatest`: one request, `MaxVersion = 1`,
  `MaxMishaps = 1`, `MaxReports = 0`. Audio that was lost or not fetched is likewise not
  fetched again until the next version; `SyncedAtRest` makes an exception of both.
* *An audio that is asked for is deleted.* `syncRuleAudio` lists the files its configuration
  does not ask for and deletes them through the modem (`ota_config.cpp:507-521`), serving MQTT
  while it waits. A newer configuration handled meanwhile finds the file there; then the
  deletion ends. Nothing failed, and the file is gone; `docs/ops/NOTIFICATIONS.md:248-249`
  says that only what the configuration no longer asks for is. `KeepsWhatIsAsked`: one
  request, `MaxVersion = 3`, `MaxMishaps = 0`, `MaxReports = 0`.
* *A bad image stays.* The rollback is armed only if the running image is pending verification
  (`ota_config.cpp:78`), and the core has confirmed it by then. An image that
  never reaches the broker stays over any number of resets, although
  `ota_config.cpp:106` and `cof_config.h:196-197` say that it is rolled back. `BadIsLeft` of
  `FirmwareUpdate` under `FairSpec`: `Bad = {2}`, `MaxVersion = 2`, `MaxMishaps = 1`. (The
  core is not in the repository; a build that overrides `verifyRollbackLater` would behave
  otherwise.)
* *A dead device is shown live again by each restart of the worker* when the broker
  still retains "online": after a clean `DISCONNECT`, or when the session was LTE's,
  whose will is not retained (`lte_mqtt_native.cpp:389-393`). The comment at
  `mqtt_worker.py:98-105` says that this was repaired. `Presence` with
  `DeadIsNotLive` without its last disjunct. `device_is_live` (`main.py:372`) and
  `device_recently_seen` (`alarms.py:75`, "mirrors" the former) also disagree about
  a device with recent traffic and a late will.
* *Two samples in one second misplace the silences of a chart*
  (`telemetry_series.py:116-128`). `Readings` with `OutageBreaksTheLine` without
  `NoTwoTogether`.
* *Posting a reassignment of a window that is already closed opens a second name for
  the same samples* (`main.py:1443-1449`). `Readings` with `OneOwner` without
  `~contested` and three windows.
* *One refused publication ends an alarm's repetition.* `pump_modem_queue` fails
  the job and neither escalates nor schedules the repetition; the alarm stays
  open, silent, and blocks a new one (`modem_queue.py:263`;
  `docs/ops/NOTIFICATIONS.md:313`). `AlarmRepeat` with `MaxPublishFails = 1`.
* *MQTT stays on WiFi beside a healthy Ethernet.* After LTE the WiFi is probed
  first; the connection over it is credited to Ethernet, which is also what the
  device reports (`mqtt_io.cpp:1086`; `docs/device/NETWORK_PATHS.md:12`).
  `PathsWifi` with `Worlds = {{"lte"}, {"eth", "wifi"}}`, `Losses = {}` and `EthernetIsMain`.
* *The settle time is not waited for.* The transport is chosen by `lanLooksUsable`
  alone, and the next pass releases LTE (`mqtt_io.cpp:956`; `cof_config.h:118`).
  `PathsEthernet` with `SettledFirst`.
* *A stale `mqttConnected` ends a working LTE session.* `maintainLteFallback` runs
  before the pending bounce and takes MQTT for being on the LAN when a WiFi nobody
  has probed is associated (`main.cpp:265`; `mqtt_io.cpp:21-25`). `PathsEthernet`
  with `WifiConfigured = TRUE` breaks `LteKept`.

Not a disagreement with any document, but worth knowing: after 25 days of uptime
`millis()` is negative as a signed number, `maintainLteFallback` does nothing for
25 days (`main.cpp:261`), and an outage of the LAN ends only when the silence
watchdog restarts the device.

## 7. Plan

Done: all the modules of section 2, and a proof of every safety property the passing
runs check but `SyncedAtRest`.

Next, in this order:

1. A proof of `SyncedAtRest`; the paths on a site with WiFi: `OneSession` with an
   invariant that does not rest on `Wired`, and `LteKept` with its exception stated.
2. `CommandSlots`: the device's call slot, its acknowledgements and the UART gate,
   composed with the queue in place of the loose device of `AlarmSystem`.
3. `SerialModem`: an abstract single server (a job is queued, out, over), shown to
   be implemented by `AlarmSystem` by refinement, checked and then proved.
4. Normalising, recycling and wiping in `QueueTransactions`.
5. `ProbeRoute`: the pinned default route against the task of the network events.
6. `RadioRecovery`, `BrokerResolve`.

Not planned: pages and templates, the schematic generator, sensor and display
drivers, speech synthesis, the text of AT dialogues, deployment.
