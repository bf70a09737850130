------------------------------- MODULE NetPaths -------------------------------
(***************************************************************************)
(* How the device reaches the MQTT broker: Ethernet, then WiFi, then LTE.  *)
(* firmware/src/net_paths.cpp, connectMqttIfNeeded of mqtt_io.cpp and      *)
(* maintainLteFallback of main.cpp.                                        *)
(*                                                                         *)
(* Two tasks share the state: loop(), which runs the steps of LoopSteps in *)
(* order and forever, and the task of the network events, which may run    *)
(* between any two of them.  The world says what is plugged, leased and    *)
(* reachable; the device learns of it by an event, by a probe or by an     *)
(* MQTT connection that works or fails.  Timers are not counted: a step    *)
(* whose interval has not run out is skipped, and fairness says that it is *)
(* not skipped forever.                                                    *)
(***************************************************************************)
EXTENDS Integers

CONSTANTS
  Worlds,             \* bound: the sets of paths that may reach the broker
  Losses,             \* bound: what else may go wrong in one behaviour
  WifiConfigured,     \* state.wifiConfigured: the site has a WiFi network
  HostIsLiteral,      \* mqttHost is an address and needs no DNS
  EthProbeFailLimit,  \* kEthProbeFailLimit
  WifiProbeFailLimit, \* kWifiProbeFailLimit
  LanMqttFailLimit,   \* kLanMqttFailLimit
  MaxMishaps          \* bound: sessions the broker drops, and times that millis()
                      \* passes half its range

ASSUME NetPathsAssumption ==
  /\ Worlds \subseteq SUBSET {"eth", "wifi", "lte"}
  /\ Losses \subseteq {"unplug", "silence", "lease", "forget", "wifi", "reset", "reboot", "wrap",
                     "uptime"}
  /\ WifiConfigured \in BOOLEAN /\ HostIsLiteral \in BOOLEAN
  /\ EthProbeFailLimit \in Nat \ {0} /\ WifiProbeFailLimit \in Nat \ {0}
  /\ LanMqttFailLimit \in Nat \ {0}
  /\ MaxMishaps \in Nat

VARIABLES
  net,    \* what the device believes
  world,  \* what is so
  at      \* the step of loop() that runs next

vars == <<net, world, at>>

Lan       == {"eth", "wifi"}
Routes    == Lan \cup {"none"}
LoopSteps == {"resolve", "eth", "wifi", "paths", "lte", "connect", "report"}

Nets ==
  [eth : BOOLEAN, ethUp : BOOLEAN,       \* ethernetConnected, ethInternetUp
   wifi : BOOLEAN, wifiUp : BOOLEAN,     \* wifiConnected, wifiInternetUp
   ethFails : 0..(EthProbeFailLimit - 1),\* ethProbeFails
   wifiFails : 0..(WifiProbeFailLimit - 1),
   lanFails : 0..LanMqttFailLimit,       \* lanMqttFailCount
   holdoff : {"none", "active", "over"}, \* ethernetHoldoffUntilMs
   known : BOOLEAN,                      \* cachedMqttIp is set
   latch : BOOLEAN,                      \* lanReachableLatch
   route : Routes,                       \* the default route of lwIP
   bounce : BOOLEAN,                     \* pendingMqttBounce
   preempt : BOOLEAN,                    \* ltePreemptSinceMs is set
   mqtt : BOOLEAN,                       \* mqttConnected
   session : Routes,                     \* interface of the PubSubClient socket
   lteData : BOOLEAN, lteMqtt : BOOLEAN, \* lteDataUp, lteMqttTransport
   cmqtt : BOOLEAN]                      \* cmqttIsConnected

\* ETH.linkUp, ETH.localIP, the paths over which the broker answers, and whether
\* millis(), read as a signed number, is below kLteBootGraceMs.
World == [link : BOOLEAN, lease : BOOLEAN, uplink : Worlds, grace : BOOLEAN,
          mishaps : 0..MaxMishaps]

LanConnected(n)   == n.eth \/ n.wifi
LanHasInternet(n) == (n.eth /\ n.ethUp) \/ (n.wifi /\ n.wifiUp)

\* Just started: nothing plugged in has been noticed yet.
Started ==
  [eth |-> FALSE, ethUp |-> FALSE, wifi |-> FALSE, wifiUp |-> FALSE,
   ethFails |-> 0, wifiFails |-> 0, lanFails |-> 0, holdoff |-> "none",
   known |-> FALSE, latch |-> FALSE, route |-> "none", bounce |-> FALSE,
   preempt |-> FALSE, mqtt |-> FALSE, session |-> "none",
   lteData |-> FALSE, lteMqtt |-> FALSE, cmqtt |-> FALSE]

\* A packet that leaves through interface i reaches the broker.
Passes(n, w, i) ==
  /\ i \in w.uplink
  /\ i = "eth" => w.link /\ w.lease
  /\ i = "wifi" => n.wifi

\* applyPreferredRoute(Auto): a route is replaced, never removed.
ApplyPreferredRoute(n) ==
  [n EXCEPT !.route = IF n.eth /\ n.ethUp THEN "eth" ELSE IF n.wifi THEN "wifi" ELSE @]

RequestMqttBounce(n) == [n EXCEPT !.bounce = TRUE]

\* probeMqttOnInterface: the route is pinned to the interface for the probe, and
\* Ethernet is only asked for its lease, not for being flagged connected.
HasAddress(n, w, i) == IF i = "eth" THEN w.lease ELSE n.wifi
Probed(n, w, i) ==
  IF HasAddress(n, w, i) THEN ApplyPreferredRoute([n EXCEPT !.route = i]) ELSE n
\* Mutant: Ethernet must be flagged connected to be probed.
Reachable_FlaggedOnly(n, w, i) == n.known /\ (i = "eth" => n.eth) /\ Passes(n, w, i)
Reachable(n, w, i) == n.known /\ Passes(n, w, i)

\* Mutant: the session over Ethernet is left open.
MarkEthernetDown_NoBounce(n) ==
  ApplyPreferredRoute([n EXCEPT !.eth = FALSE, !.ethUp = FALSE, !.ethFails = 0,
                                !.holdoff = "active"])
MarkEthernetDown(n) ==
  LET down == [n EXCEPT !.holdoff = "active", !.ethUp = FALSE, !.ethFails = 0]
  IN IF n.eth
     THEN RequestMqttBounce(ApplyPreferredRoute([down EXCEPT !.eth = FALSE]))
     ELSE down

\* A fresh address is trusted at once, but inside the holdoff only after a probe.
MarkEthernetUp(n, w) ==
  LET probed == IF n.holdoff = "active" THEN Probed(n, w, "eth") ELSE n
      up     == ApplyPreferredRoute(
                  [probed EXCEPT !.eth = TRUE, !.ethUp = TRUE, !.ethFails = 0, !.lanFails = 0,
                                 !.holdoff = IF @ = "active" THEN "none" ELSE @])
  IN CASE n.holdoff = "active" /\ ~Reachable(n, w, "eth") -> probed
       [] n.eth -> up
       [] OTHER -> RequestMqttBounce(up)

\* Whoever is connected is blamed, Ethernet first, whatever carried the session.
NoteLanMqttFailure(n) ==
  LET failed == [n EXCEPT !.lanFails = @ + 1]
      wifiBad == [n EXCEPT !.wifiUp = FALSE, !.wifiFails = 0]
  IN CASE n.lteMqtt -> n
       [] ~n.lteMqtt /\ n.eth ->
            IF n.ethUp \/ failed.lanFails >= LanMqttFailLimit
            THEN MarkEthernetDown(failed) ELSE failed
       [] ~n.lteMqtt /\ ~n.eth /\ n.wifi ->
            IF n.wifiUp THEN RequestMqttBounce(wifiBad) ELSE wifiBad
       [] OTHER -> n

\* mqttConnected is left as it was: the next step of the loop finds out.
StopLtePdp(n) == [n EXCEPT !.lteData = FALSE, !.lteMqtt = FALSE, !.cmqtt = FALSE]

-------------------------------------------------------------------------------
(* The pass of loop(), one step at a time. *)

Following ==
  [resolve |-> "eth", eth |-> "wifi", wifi |-> "paths", paths |-> "lte",
   lte |-> "connect", connect |-> "report", report |-> "resolve"]

Step(s) == at = s /\ at' = Following[s] /\ UNCHANGED world

\* The interval of the step has not run out, or it has nothing to do.
Skip(s) == Step(s) /\ UNCHANGED net

\* serviceBrokerResolve: without a LAN interface no name is resolved.
ResolveBroker ==
  /\ Step("resolve")
  /\ HostIsLiteral \/ (LanConnected(net) /\ Passes(net, world, net.route))
  /\ net' = [net EXCEPT !.known = TRUE]

\* pollEthernetPath with Ethernet flagged down but plugged in and leased.
RecoverEthernet ==
  /\ Step("eth") /\ ~net.eth /\ world.link /\ world.lease
  /\ LET probed == Probed(net, world, "eth")
     IN net' = IF Reachable(net, world, "eth") THEN MarkEthernetUp(probed, world) ELSE probed

\* ... connected while MQTT rides LTE: one probe decides, either way.
ProbeEthernetOnLte ==
  /\ Step("eth") /\ net.eth /\ net.lteMqtt /\ net.holdoff # "active"
  /\ LET probed == Probed(net, world, "eth")
     IN net' = IF Reachable(net, world, "eth")
               THEN ApplyPreferredRoute([probed EXCEPT !.ethFails = 0, !.ethUp = TRUE])
               ELSE [probed EXCEPT !.ethUp = FALSE]

\* ... connected and on the LAN.  The probe restored the route before ethUp is set.
ProbeEthernet ==
  /\ Step("eth") /\ net.eth /\ ~net.lteMqtt /\ net.known
  /\ LET probed == Probed(net, world, "eth")
         well   == [probed EXCEPT !.ethFails = 0, !.ethUp = TRUE]
     IN net' = CASE Reachable(net, world, "eth") ->
                      IF net.ethUp THEN well ELSE RequestMqttBounce(well)
                 [] OTHER ->
                      IF net.ethFails + 1 >= EthProbeFailLimit
                      THEN MarkEthernetDown(probed)
                      ELSE [probed EXCEPT !.ethFails = @ + 1]

\* ... with no address to probe and no MQTT some time after the lease.
GiveUpUnknownBroker ==
  /\ Step("eth") /\ net.eth /\ ~net.lteMqtt /\ ~net.known /\ ~net.mqtt
  /\ net' = MarkEthernetDown(net)

PollEthernetPath ==
  RecoverEthernet \/ ProbeEthernetOnLte \/ ProbeEthernet \/ GiveUpUnknownBroker \/ Skip("eth")

\* Mutant: a WiFi that was dropped is never trusted again.
ProbeWifi_NotPromoted ==
  /\ Step("wifi") /\ net.wifi /\ net.known
  /\ net' = [Probed(net, world, "wifi") EXCEPT !.wifiUp = @ /\ Reachable(net, world, "wifi")]

ProbeWifi ==
  /\ Step("wifi") /\ net.wifi /\ ~(net.eth /\ net.ethUp) /\ net.known
  /\ LET probed == Probed(net, world, "wifi")
         bad    == [probed EXCEPT !.wifiFails = 0, !.wifiUp = FALSE]
     IN net' = CASE Reachable(net, world, "wifi") ->
                      [probed EXCEPT !.wifiFails = 0, !.wifiUp = TRUE]
                 [] OTHER ->
                      IF net.wifiFails + 1 < WifiProbeFailLimit
                      THEN [probed EXCEPT !.wifiFails = @ + 1]
                      ELSE IF net.lteMqtt THEN bad ELSE RequestMqttBounce(bad)

PollWifiPath == ProbeWifi \/ Skip("wifi")

\* serviceNetworkPaths: the settle time starts, goes on or is forgotten ...
SettleLan ==
  /\ Step("paths")
  /\ net' = [net EXCEPT !.preempt = net.lteMqtt /\ LanHasInternet(net)]

\* ... or has run out.
PreemptLte ==
  /\ Step("paths") /\ net.preempt /\ net.lteMqtt /\ LanHasInternet(net)
  /\ net' = RequestMqttBounce(ApplyPreferredRoute(StopLtePdp([net EXCEPT !.preempt = FALSE])))

ServiceNetworkPaths == SettleLan \/ PreemptLte

-------------------------------------------------------------------------------
(* maintainLteFallback, the first call of connectMqttIfNeeded. *)

FallbackStep == Step("lte") /\ ~world.grace

\* Mutant: MQTT over LTE beside a bare lease counts as MQTT over the LAN.
LanMqttOk_AnyTransport(n) == n.mqtt /\ LanConnected(n)
LanMqttOk(n) == n.mqtt /\ ~n.lteMqtt /\ LanConnected(n)

ReleaseLte == FallbackStep /\ LanMqttOk(net) /\ net' = StopLtePdp(net)

\* lanPathReachable when its interval has run out: Ethernet, then WiFi.
LanProbed(n, w) ==
  LET eth  == IF n.eth THEN Probed(n, w, "eth") ELSE n
      ethOk == n.eth /\ Reachable(n, w, "eth")
      both == IF n.wifi /\ ~ethOk THEN Probed(eth, w, "wifi") ELSE eth
  IN [both EXCEPT !.latch = ethOk \/ (n.wifi /\ Reachable(n, w, "wifi"))]

MayProbeLan(n) == LanConnected(n) /\ ~LanHasInternet(n) /\ n.known

\* Mutant: a lease is taken for a way to the broker.
CanUseLan_Leased(n) == LanConnected(n)
CanUseLan(n) == LanConnected(n) /\ (LanHasInternet(n) \/ (n.known /\ n.latch))

ProbeLan ==
  /\ FallbackStep /\ ~LanMqttOk(net) /\ MayProbeLan(net)
  /\ net' = LanProbed(net, world)

\* ensureLtePdp: the modem registers and the context is ready to be dialled.
DialLte ==
  /\ FallbackStep /\ ~LanMqttOk(net) /\ ~net.lteData /\ "lte" \in world.uplink
  /\ \E n \in {net} \cup (IF MayProbeLan(net) THEN {LanProbed(net, world)} ELSE {}) :
       ~CanUseLan(n) /\ net' = [n EXCEPT !.lteData = TRUE]

MaintainLteFallback ==
  ReleaseLte \/ ProbeLan \/ DialLte \/ ((world.grace \/ ~LanMqttOk(net)) /\ Skip("lte"))

-------------------------------------------------------------------------------
(* The rest of connectMqttIfNeeded. *)

\* bounceMqttForRouteChange: the session of the modem is left alone.
Bounced(n) ==
  CASE ~n.bounce -> n
    [] n.bounce /\ n.lteMqtt -> [n EXCEPT !.bounce = FALSE]
    [] OTHER -> [n EXCEPT !.bounce = FALSE, !.mqtt = FALSE, !.session = "none"]

LanLooksUsable(n) == LanConnected(n) /\ n.holdoff # "active" /\ LanHasInternet(n)

\* Mutant: the transport is chosen before the bounce, which then spares the socket.
Prepared_TransportFirst(n, w) ==
  LET d == IF n.eth /\ ~w.link THEN MarkEthernetDown(n) ELSE n
  IN Bounced([d EXCEPT !.lteMqtt = d.lteData /\ ~LanLooksUsable(d)])

\* The link bit, a pending bounce and the choice of the transport.
Prepared(n, w) ==
  LET b == Bounced(IF n.eth /\ ~w.link THEN MarkEthernetDown(n) ELSE n)
  IN [b EXCEPT !.lteMqtt = b.lteData /\ ~LanLooksUsable(b)]

NetworkConnected(n) == LanConnected(n) \/ n.lteData

NoNetwork(n) == ~NetworkConnected(n) /\ net' = n

\* connectMqttNativeIfNeeded
PumpCmqtt(n) == n.lteMqtt /\ n.cmqtt /\ net' = [n EXCEPT !.mqtt = TRUE]

LoseCmqtt(n) ==
  /\ n.lteMqtt /\ n.cmqtt /\ "lte" \notin world.uplink
  /\ net' = [n EXCEPT !.mqtt = FALSE, !.cmqtt = FALSE]

ConnectCmqtt(n) ==
  /\ n.lteMqtt /\ ~n.cmqtt
  /\ LET failed == [n EXCEPT !.mqtt = FALSE]
     IN IF "lte" \in world.uplink
        THEN net' = [n EXCEPT !.mqtt = TRUE, !.cmqtt = TRUE]
        ELSE net' \in {failed, StopLtePdp(failed)}   \* kLteMqttConnectFailLimit

\* PubSubClient over the LAN
OnLan(n) == NetworkConnected(n) /\ ~n.lteMqtt

PumpLan(n) == OnLan(n) /\ n.session # "none" /\ net' = [n EXCEPT !.mqtt = TRUE]

LoseLan(n) ==
  /\ OnLan(n) /\ n.session # "none" /\ ~Passes(n, world, n.session)
  /\ LET lost == [n EXCEPT !.mqtt = FALSE, !.session = "none"]
     IN net' = IF n.eth THEN MarkEthernetDown(lost) ELSE lost

\* A connection leaves by the default route; its success is credited to Ethernet
\* when that is connected, to WiFi otherwise.
ConnectLan(n) ==
  /\ OnLan(n) /\ n.session = "none"
  /\ net' = IF Passes(n, world, n.route)
            THEN [n EXCEPT !.mqtt = TRUE, !.session = n.route, !.known = TRUE, !.lanFails = 0,
                           !.ethUp = @ \/ n.eth, !.wifiUp = @ \/ ~n.eth]
            ELSE NoteLanMqttFailure([n EXCEPT !.mqtt = FALSE])

AwaitReconnect(n) ==
  /\ \/ n.lteMqtt /\ ~n.cmqtt
     \/ OnLan(n) /\ n.session = "none"
  /\ net' = [n EXCEPT !.mqtt = FALSE]

ConnectMqttIfNeeded ==
  /\ Step("connect")
  /\ LET n == Prepared(net, world)
     IN \/ NoNetwork(n) \/ PumpCmqtt(n) \/ LoseCmqtt(n) \/ ConnectCmqtt(n)
        \/ PumpLan(n) \/ LoseLan(n) \/ ConnectLan(n) \/ AwaitReconnect(n)

-------------------------------------------------------------------------------
(* The rest of the pass. *)

\* publishMqttJson.  A socket accepts what is written to it for a while after the
\* path died; one that is gone, or gives up, is blamed on the LAN.
Published(n, w) ==
  LET lost == [n EXCEPT !.mqtt = FALSE, !.session = "none"]
      sent == [n EXCEPT !.lanFails = 0]
  IN CASE ~n.mqtt -> {n}
       [] n.mqtt /\ n.lteMqtt ->
            IF ~n.cmqtt THEN {[n EXCEPT !.mqtt = FALSE]}
            ELSE IF "lte" \in w.uplink THEN {sent} ELSE {n}
       [] OTHER ->
            (IF n.session # "none" THEN {sent} ELSE {})
            \cup (IF Passes(n, w, n.session) THEN {} ELSE {NoteLanMqttFailure(lost)})

Report == Step("report") /\ net' \in Published(net, world)

\* enforceMqttSilenceWatchdog: a session that died quietly, and the restart after
\* kMqttSilenceRestartMs without MQTT, in which a session that works is used.
DropSilentSession ==
  /\ Step("report") /\ ~net.lteMqtt /\ net.session # "none" /\ ~Passes(net, world, net.session)
  /\ net' = [net EXCEPT !.mqtt = FALSE, !.session = "none"]

Silent ==
  /\ net.cmqtt => "lte" \notin world.uplink
  /\ net.session # "none" => ~Passes(net, world, net.session)

SilenceRestart ==
  /\ at = "report" /\ Silent
  /\ net' = Started /\ at' = "resolve"
  /\ world' = [world EXCEPT !.link = FALSE, !.lease = FALSE, !.grace = TRUE]

\* serviceLteMqttHealth; the status report it asks for follows in the same pass.
ReleaseDeadLte ==
  /\ Step("report") /\ net.lteMqtt /\ net.cmqtt /\ "lte" \notin world.uplink
  /\ net' \in Published(StopLtePdp(net), world)

FinishPass == Report \/ DropSilentSession \/ SilenceRestart \/ ReleaseDeadLte \/ Skip("report")

Loop ==
  \/ ResolveBroker \/ (~HostIsLiteral /\ Skip("resolve"))
  \/ PollEthernetPath
  \/ PollWifiPath
  \/ ServiceNetworkPaths
  \/ MaintainLteFallback
  \/ ConnectMqttIfNeeded
  \/ FinishPass

-------------------------------------------------------------------------------
(* The world, and onNetworkEvent between two steps of the loop. *)

Event == UNCHANGED at
Loss(l) == Event /\ l \in Losses

\* ARDUINO_EVENT_ETH_CONNECTED, or a replug that raised no event.
CablePlugged ==
  /\ Event /\ ~world.link
  /\ world' = [world EXCEPT !.link = TRUE]
  /\ \/ net' = IF world.lease THEN MarkEthernetUp(net, world') ELSE net
     \/ "silence" \in Losses /\ UNCHANGED net

EthernetGotIp ==
  /\ Event /\ world.link /\ ~world.lease
  /\ world' = [world EXCEPT !.lease = TRUE]
  /\ net' = MarkEthernetUp(net, world')

\* ARDUINO_EVENT_ETH_DISCONNECTED, or a loss that only the link bit shows.
CableUnplugged ==
  /\ Loss("unplug") /\ world.link
  /\ \E lease \in {FALSE, world.lease} : world' = [world EXCEPT !.link = FALSE, !.lease = lease]
  /\ \/ net' = MarkEthernetDown(net)
     \/ "silence" \in Losses /\ UNCHANGED net

\* No handler listens to ARDUINO_EVENT_ETH_LOST_IP.
LeaseExpires ==
  /\ Loss("lease") /\ world.lease
  /\ world' = [world EXCEPT !.lease = FALSE]
  /\ UNCHANGED net

WifiGotIp ==
  /\ Event /\ WifiConfigured /\ ~net.wifi
  /\ LET up == [net EXCEPT !.wifi = TRUE, !.wifiFails = 0]
     IN net' = IF net.eth THEN up ELSE RequestMqttBounce(ApplyPreferredRoute(up))
  /\ UNCHANGED world

\* forgetWifiRadio
WifiForgotten ==
  /\ Loss("forget") /\ net.wifi
  /\ net' = [net EXCEPT !.wifi = FALSE, !.wifiUp = FALSE, !.wifiFails = 0]
  /\ UNCHANGED world

WifiDisconnected ==
  /\ Loss("wifi") /\ net.wifi
  /\ net' = [net EXCEPT !.wifi = FALSE, !.wifiUp = FALSE, !.wifiFails = 0,
                        !.bounce = @ \/ ~net.eth]
  /\ UNCHANGED world

UplinkChanges ==
  /\ Event /\ \E u \in Worlds \ {world.uplink} : world' = [world EXCEPT !.uplink = u]
  /\ UNCHANGED net

\* The broker closes a session.
SessionReset ==
  /\ Loss("reset") /\ world.mishaps < MaxMishaps
  /\ \/ net.session # "none" /\ net' = [net EXCEPT !.session = "none"]
     \/ net.cmqtt /\ net' = [net EXCEPT !.cmqtt = FALSE]
  /\ world' = [world EXCEPT !.mishaps = @ + 1]

\* noteModemRebootDetected, after the radio went away.
ModemReboots ==
  /\ Loss("reboot") /\ net.lteData /\ "lte" \notin world.uplink
  /\ net' = StopLtePdp(net)
  /\ UNCHANGED world

\* kEthernetHoldoffMs have passed.
HoldoffEnds ==
  /\ Event /\ net.holdoff = "active"
  /\ net' = [net EXCEPT !.holdoff = "over"]
  /\ UNCHANGED world

\* A holdoff is never cleared by its end: 25 days later millis() makes it look
\* active again.
HoldoffWraps ==
  /\ Loss("wrap") /\ net.holdoff = "over" /\ world.mishaps < MaxMishaps
  /\ net' = [net EXCEPT !.holdoff = "active"]
  /\ world' = [world EXCEPT !.mishaps = @ + 1]

\* kLteBootGraceMs have passed, or millis() wrapped.
GraceEnds ==
  /\ Event /\ world.grace
  /\ world' = [world EXCEPT !.grace = FALSE]
  /\ UNCHANGED net

\* 25 days after the start the signed millis() is negative.
GraceReturns ==
  /\ Loss("uptime") /\ ~world.grace /\ world.mishaps < MaxMishaps
  /\ world' = [world EXCEPT !.grace = TRUE, !.mishaps = @ + 1]
  /\ UNCHANGED net

Environment ==
  \/ CablePlugged \/ EthernetGotIp \/ CableUnplugged \/ LeaseExpires
  \/ WifiGotIp \/ WifiForgotten \/ WifiDisconnected
  \/ UplinkChanges \/ SessionReset \/ ModemReboots \/ HoldoffEnds \/ HoldoffWraps
  \/ GraceEnds \/ GraceReturns

Init ==
  /\ net = Started /\ at = "resolve"
  /\ \E u \in Worlds :
       world = [link |-> FALSE, lease |-> FALSE, uplink |-> u, grace |-> TRUE, mishaps |-> 0]

Next == Loop \/ Environment

Spec == Init /\ [][Next]_vars

\* loop() never stops; a step that is entered again and again with an interval to
\* wait for does not find it running forever; a dead session is noticed.  Nothing
\* is assumed of the world.
ProbesEthernet == RecoverEthernet \/ ProbeEthernetOnLte \/ ProbeEthernet
Connects ==
  /\ Step("connect")
  /\ LET n == Prepared(net, world)
     IN ConnectLan(n) \/ ConnectCmqtt(n) \/ LoseLan(n) \/ LoseCmqtt(n)

Fairness ==
  /\ WF_vars(Loop) /\ WF_vars(HoldoffEnds) /\ WF_vars(GraceEnds)
  /\ SF_vars(ResolveBroker) /\ SF_vars(ProbesEthernet) /\ SF_vars(ProbeWifi)
  /\ SF_vars(PreemptLte) /\ SF_vars(DialLte) /\ SF_vars(Connects)

FairSpec == Spec /\ Fairness

-------------------------------------------------------------------------------
\* The state has its shape and every counter keeps below its limit.
TypeOK == net \in Nets /\ world \in World /\ at \in LoopSteps

\* A session over an Ethernet that is flagged down is about to be dropped:
\* markEthernetDown asked for the bounce, and nothing takes the request back
\* without dropping the session.  Otherwise the device would believe in a socket
\* over a dead interface until its keepalive runs out.
StaleSessionIsBounced == net.session = "eth" /\ ~net.eth => net.bounce

\* On a site without WiFi the device never holds a socket over the LAN and a
\* session on the modem that carries MQTT: both use the same client id, and the
\* broker drops one for the other.  bounceMqttForRouteChange must run before
\* connectMqttIfNeeded chooses the transport.
OneSession == net.lteMqtt /\ net.cmqtt => net.session = "none"

\* A working session over LTE is only given up for a LAN path that is trusted to
\* reach the broker.  The comment of bounceMqttForRouteChange names the two callers
\* that may stop the context, both for a LAN that proved usable.
DropsLte == net.cmqtt /\ "lte" \in world.uplink /\ ~net'.lteData
LteKept  == [][DropsLte => LanHasInternet(net)]_vars

\* MQTT over LTE is only given up for a path that was good for kPathPreemptSettleMs.
\* cof_config.h says so and the code does not keep it: no run checks it, the README
\* (section 6) says how to see it fail.
SettledFirst == [][DropsLte => net.preempt]_vars

\* Once the device has an address to probe (cachedMqttIp: at once for a broker given by
\* address, after a first resolution or connection for one given by name), an Ethernet
\* that stays plugged, leased and connected to the broker ends up carrying MQTT,
\* whatever happened before, and LTE is released for good.
EthernetGood == world.link /\ world.lease /\ "eth" \in world.uplink
OnEthernet   == net.mqtt /\ net.session = "eth" /\ ~net.lteData
EthernetComesBack == <>[](EthernetGood /\ net.known) => <>[]OnEthernet

\* What NETWORK_PATHS.md:202 says without that condition: from LTE the device switches
\* to an Ethernet that is healthy again.  The code does not keep it for a broker given
\* by name: flagged down before the name was resolved, Ethernet is never probed again.
HealthyEthernetIsUsed == <>[]EthernetGood => <>[]OnEthernet

\* The same with a WiFi beside it, which may be good as well: Ethernet is the main
\* network and WiFi the fallback.  Not kept either (README, section 6).
EthernetIsMain == <>[](EthernetGood /\ net.wifi) => <>[]OnEthernet

\* A router without uplink keeps the link, the leases and the WiFi association;
\* MQTT still moves to LTE and stays there.
LanLooksFine == world.link /\ world.lease /\ (WifiConfigured => net.wifi)
OnLte        == net.mqtt /\ net.lteMqtt /\ net.cmqtt
LteTakesOver == <>[](LanLooksFine /\ world.uplink = {"lte"}) => <>[]OnLte

\* A dead Ethernet that still looks fine does not keep MQTT from a good WiFi.
OnWifi == net.mqtt /\ net.session = "wifi" /\ ~net.lteData
WifiTakesOver == <>[](LanLooksFine /\ world.uplink = {"wifi"}) => <>[]OnWifi
===============================================================================
