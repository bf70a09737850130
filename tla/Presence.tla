------------------------------- MODULE Presence -------------------------------
(***************************************************************************)
(* Whether a device is there, as the panel says it: the MQTT session of    *)
(* the device with its last will, the retained status at the broker, the   *)
(* row the worker keeps (persist_message, get_or_create_device,            *)
(* store_network_status), and what main.py concludes from the row.         *)
(*                                                                         *)
(* A message is a telemetry frame or a status; it carries the device's     *)
(* network, except the will. The will of a LAN session is retained; the    *)
(* one the modem is given has no such flag. The worker takes its messages  *)
(* within the second, in order; one that restarts loses those on their way *)
(* and is sent the retained status.                                        *)
(***************************************************************************)
EXTENDS Integers, Sequences

CONSTANTS
  AutoProvision,    \* MQTT_AUTO_PROVISION
  LiveSeconds,      \* DEVICE_LIVE_SECONDS
  OfflineSeconds,   \* how recent traffic must be to outweigh a will
  Interval,         \* of telemetry, at most
  KeepAlive,        \* after which the broker gives a silent session up
  Links,            \* bound: how the device may find its interfaces when it publishes
  MaxTime, MaxMishaps, MaxInbox   \* bounds

\* An interface of the LAN is down, up with no internet, or up with internet
\* (ethernetConnected and ethInternetUp, and so for WiFi); lte is lteDataUp.
InterfaceStates ==
  [ethernet : {"down", "dead", "good"}, wifi : {"down", "dead", "good"}, lte : BOOLEAN]

ASSUME PresenceAssumption ==
  /\ AutoProvision \in BOOLEAN
  /\ {OfflineSeconds, Interval, KeepAlive, MaxTime, MaxMishaps, MaxInbox} \subseteq Nat
  /\ Links \subseteq InterfaceStates
  /\ LiveSeconds \in Nat /\ Interval < LiveSeconds /\ OfflineSeconds <= LiveSeconds

VARIABLES
  clock,
  device,    \* the device: powered, its session, when it published last and (history)
             \* of which network, and when it left its last session
  broker,    \* the retained status, and a session that ended without a DISCONNECT
  inbox,     \* messages on their way to the worker
  row,       \* the row of the device
  worker,    \* (history) since the device published last, the worker was up, or it
             \* restarted, having taken that message or having missed it
  mishaps    \* how many restarts of the worker and lost publications there were

vars == <<clock, device, broker, inbox, row, worker, mishaps>>

Paths == {"lan", "lte"}
Never == -1   \* last_seen_at is null

LanUp(l) == l.ethernet # "down" \/ l.wifi # "down"
LanHasInternet(l) == l.ethernet = "good" \/ l.wifi = "good"
NoLinks == [ethernet |-> "down", wifi |-> "down", lte |-> FALSE]

\* The interface that the device says it uses.
activeNetworkName(path, l) ==
  IF path = "lte" /\ l.lte THEN "lte"
  ELSE IF l.ethernet = "good" THEN "ethernet"
  ELSE IF l.wifi = "good" THEN "wifi"
  ELSE IF l.lte THEN "lte"
  ELSE IF l.ethernet = "dead" THEN "ethernet"
  ELSE IF l.wifi = "dead" THEN "wifi"
  ELSE "none"

\* fillNetworkJson
Network(path, l) == [active |-> activeNetworkName(path, l), links |-> l]
NoNetwork == [active |-> "none", links |-> NoLinks]

Message(kind, network) == [kind |-> kind, network |-> network]
Will == Message("offline", NoNetwork)
NoMessage == Message("none", NoNetwork)

Deliver(messages) == Len(inbox \o messages) <= MaxInbox /\ inbox' = inbox \o messages

Mishap == mishaps < MaxMishaps /\ mishaps' = mishaps + 1

------------------------------------------------------------------------------
(* The device and the broker.                                               *)

\* The broker publishes the will of the session that ended.
Bereaved == IF broker.ended = "lan" THEN Will ELSE broker.retained
WillSent == IF broker.ended = "none" THEN <<>> ELSE <<Will>>

\* A connection over the LAN proves an interface good: Ethernet, when that is up.
Credited(l) ==
  IF l.ethernet # "down" THEN [l EXCEPT !.ethernet = "good"] ELSE [l EXCEPT !.wifi = "good"]

\* MQTT rides the modem when its data is up and the LAN has no internet, or Ethernet
\* is held off.
MayConnect(path, l) ==
  IF path = "lte" THEN l.lte ELSE LanUp(l) /\ (l.lte => LanHasInternet(l))

\* A session begins with a retained status and a frame. It takes over the one
\* of the same client that the broker still keeps, whose will goes out first.
Connect(path) ==
  /\ device.powered /\ device.session = "none"
  /\ \E l \in Links :
       LET network == Network(path, IF path = "lte" THEN l ELSE Credited(l)) IN
       /\ MayConnect(path, l)
       /\ device' = [device EXCEPT !.session = path, !.last = clock, !.said = network]
       /\ \/ /\ broker' = [retained |-> Message("online", network), ended |-> "none", since |-> 0]
             /\ Deliver(WillSent \o <<Message("online", network), Message("telemetry", network)>>)
             /\ UNCHANGED mishaps
          \/ /\ Mishap   \* the status is not published
             /\ broker' = [retained |-> Bereaved, ended |-> "none", since |-> 0]
             /\ Deliver(WillSent \o <<Message("telemetry", network)>>)
  /\ worker' = "up"
  /\ UNCHANGED <<clock, row>>

\* A frame when it is due, or before; on a LAN the status every five minutes. A socket
\* over the LAN may outlive its interface, a session of the modem not its data.
Publish(kind) ==
  /\ device.session # "none" /\ device.last < clock
  /\ kind = "online" => device.session = "lan"
  /\ \E l \in Links :
       LET network == Network(device.session, l) IN
       /\ device.session = "lte" => l.lte
       /\ device' = [device EXCEPT !.last = clock, !.said = network]
       /\ Deliver(<<Message(kind, network)>>)
       /\ broker' = IF kind = "online" THEN [broker EXCEPT !.retained = Message(kind, network)]
                    ELSE broker
  /\ worker' = "up"
  /\ UNCHANGED <<clock, row, mishaps>>

\* The session is closed for another path, and the broker is told.
Disconnect ==
  /\ device.session # "none"
  /\ device' = [device EXCEPT !.session = "none", !.left = clock]
  /\ UNCHANGED <<clock, broker, inbox, row, worker, mishaps>>

\* The session or the power is lost, and the broker is not told.
Lose(powered) ==
  /\ device.powered
  /\ device' = [device EXCEPT !.session = "none", !.powered = powered,
                              !.left = IF device.session = "none" THEN @ ELSE clock]
  /\ broker' = IF device.session = "none" THEN broker
               ELSE [broker EXCEPT !.ended = device.session, !.since = clock]
  /\ UNCHANGED <<clock, inbox, row, worker, mishaps>>

PowerOn ==
  /\ ~device.powered
  /\ device' = [device EXCEPT !.powered = TRUE]
  /\ UNCHANGED <<clock, broker, inbox, row, worker, mishaps>>

WillFires ==
  /\ broker.ended # "none"
  /\ broker' = [broker EXCEPT !.retained = Bereaved, !.ended = "none", !.since = 0]
  /\ Deliver(WillSent)
  /\ UNCHANGED <<clock, device, row, worker, mishaps>>

------------------------------------------------------------------------------
(* The worker and the panel.                                                *)

NoRow == [status |-> "none", seen |-> Never, archived |-> FALSE, network |-> NoNetwork]

\* The network of a message that tells it; a will has none.
store_network_status(r, m) == IF m = Will THEN r ELSE [r EXCEPT !.network = m.network]

\* A device without a row gets one, unless that is turned off.
get_or_create_device(r) == r # NoRow \/ AutoProvision

\* Mutant: every message counts as a sign of life.
Persisted_SeenAlways(r, m) ==
  LET seen == [r EXCEPT !.seen = clock] IN
  IF ~get_or_create_device(r) THEN r
  ELSE IF r.archived THEN seen
  ELSE store_network_status([seen EXCEPT !.status = IF m = Will THEN "offline" ELSE "online"], m)

\* What a message leaves in the row; of a deleted device only the time counts.
Persisted(r, m) ==
  LET seen == IF m = Will THEN r ELSE [r EXCEPT !.seen = clock] IN
  IF ~get_or_create_device(r) THEN r
  ELSE IF r.archived THEN seen
  ELSE store_network_status([seen EXCEPT !.status = IF m = Will THEN "offline" ELSE "online"], m)

Handle ==
  /\ inbox # <<>>
  /\ row' = Persisted(row, Head(inbox))
  /\ inbox' = Tail(inbox)
  /\ UNCHANGED <<clock, device, broker, worker, mishaps>>

\* Subscribing again delivers what is retained.
RestartWorker ==
  /\ Mishap
  /\ inbox' = IF broker.retained = NoMessage THEN <<>> ELSE <<broker.retained>>
  /\ worker' = IF worker = "up" THEN (IF inbox = <<>> THEN "restarted" ELSE "missed") ELSE worker
  /\ UNCHANGED <<clock, device, broker, row>>

Create ==
  /\ row = NoRow
  /\ row' = [row EXCEPT !.status = "new"]
  /\ UNCHANGED <<clock, device, broker, inbox, worker, mishaps>>

Archive ==
  /\ row # NoRow /\ ~row.archived
  /\ row' = [row EXCEPT !.archived = TRUE, !.status = "archived"]
  /\ UNCHANGED <<clock, device, broker, inbox, worker, mishaps>>

Restore ==
  /\ row.archived
  /\ row' = [row EXCEPT !.archived = FALSE, !.status = IF @ = "archived" THEN "new" ELSE @]
  /\ UNCHANGED <<clock, device, broker, inbox, worker, mishaps>>

\* Nothing that is due waits for the next second.
Tick ==
  /\ clock < MaxTime
  /\ inbox = <<>>
  /\ broker.ended # "none" => clock < broker.since + KeepAlive
  /\ device.session # "none" => clock < device.last + Interval
  /\ clock' = clock + 1
  /\ UNCHANGED <<device, broker, inbox, row, worker, mishaps>>

Init ==
  /\ clock = 0 /\ mishaps = 0 /\ inbox = <<>> /\ worker = "up"
  /\ device = [powered |-> FALSE, session |-> "none", last |-> Never, said |-> NoNetwork, left |-> Never]
  /\ broker = [retained |-> NoMessage, ended |-> "none", since |-> 0]
  /\ row = NoRow

Next ==
  \/ \E path \in Paths : Connect(path)
  \/ \E kind \in {"telemetry", "online"} : Publish(kind)
  \/ Disconnect \/ PowerOn \/ WillFires \/ \E powered \in BOOLEAN : Lose(powered)
  \/ Handle \/ RestartWorker \/ Create \/ Archive \/ Restore \/ Tick

Spec == Init /\ [][Next]_vars

------------------------------------------------------------------------------
(* What is concluded from the row.                                          *)

is_fresh(t, age) == t # Never /\ clock - t < age

\* Mutant: an "offline" status wins over fresh traffic.
device_is_live_WillWins(r) ==
  ~r.archived /\ r.status # "offline" /\ is_fresh(r.seen, LiveSeconds)

device_is_live(r) ==
  /\ ~r.archived
  /\ is_fresh(r.seen, IF r.status = "offline" THEN OfflineSeconds ELSE LiveSeconds)

device_recently_seen(r) == r.status # "offline" /\ is_fresh(r.seen, LiveSeconds)

\* The path on the badge; a LAN that is up without being used is not one.
device_network_summary(r) ==
  IF ~device_is_live(r) THEN "none"
  ELSE IF r.network.active # "none" THEN r.network.active
  ELSE IF LanUp(r.network.links) \/ ~r.network.links.lte THEN "none"
  ELSE "lte"

device_ota_block_reason(r) ==
  LET l == r.network.links
  IN IF LanUp(l) THEN ~LanHasInternet(l) ELSE l.lte \/ r.network.active = "lte"

\* What the page of the device polls.
device_live_payload(r) ==
  [live |-> device_is_live(r), network |-> device_network_summary(r), blocked |-> device_ota_block_reason(r)]

\* The panel sends ota_check.
OtaIsSent(r) == device_is_live(r) /\ ~device_ota_block_reason(r)

Networks ==
  [active : {"ethernet", "wifi", "lte", "none"}, links : InterfaceStates]

\* The row, the messages and the sessions are what they are.
TypeOK ==
  /\ clock \in 0..MaxTime /\ mishaps \in 0..MaxMishaps /\ worker \in {"up", "restarted", "missed"}
  /\ device \in [powered : BOOLEAN, session : Paths \cup {"none"},
                 last : {Never} \cup 0..clock, said : Networks, left : {Never} \cup 0..clock]
  /\ broker.retained.kind \in {"none", "online", "offline"} /\ broker.since \in 0..clock
  /\ row \in [status : {"none", "new", "online", "offline", "archived"}, seen : {Never} \cup 0..clock,
              archived : BOOLEAN, network : Networks]

\* "Liveness is only refreshed by messages that prove the device is up": a device
\* that left its session is shown live no longer than LiveSeconds after the broker
\* gave it up, however often the worker restarts or the device was taken over,
\* unless the broker retains that it is online.
DeadIsNotLive ==
  device_is_live(row) =>
    \/ device.session # "none"
    \/ device.left # Never /\ clock - device.left < LiveSeconds + KeepAlive
    \/ broker.retained.kind = "online"

\* What the page says of a device on path, whose interfaces were l when it reported:
\* MQTT over the modem is shown as LTE, over a LAN with internet as an interface that
\* has it; and an update is sent if an interface of the LAN has internet, or if
\* nothing shows that none has ("Only definitive evidence blocks").
TellsWhatIs(said, path, l) ==
  /\ path = "lte" => said.network = "lte"
  /\ path = "lan" /\ LanHasInternet(l) => said.network \in {"ethernet", "wifi"} /\ l[said.network] = "good"
  /\ said.blocked <=> ~LanHasInternet(l) /\ (LanUp(l) \/ l.lte)

\* A device that is connected and has reported since it was created or restored is
\* shown live, although wills of earlier sessions came late or come again: after a
\* restart of the worker a will that the broker retains may hide it, but not before
\* OfflineSeconds have passed since it published, unless that message was lost. And as
\* long as the worker is up its path and whether it may update are what it last said.
HealthyIsShown ==
  device.session # "none" /\ inbox = <<>> /\ row.seen # Never /\ row.status \notin {"new", "archived"} =>
    /\ \/ worker = "missed"
       \/ worker = "restarted" /\ row.status = "offline" /\ ~is_fresh(device.last, OfflineSeconds)
       \/ device_is_live(row)
    /\ worker = "up" => TellsWhatIs(device_live_payload(row), device.session, device.said.links)
===============================================================================
