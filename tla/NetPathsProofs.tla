---------------------------- MODULE NetPathsProofs ----------------------------
(***************************************************************************)
(* A session over an Ethernet that is flagged down is about to be dropped, *)
(* for every site, every set of losses and every limit.                    *)
(*                                                                         *)
(* Good says why of one value of net: with Ethernet flagged down and WiFi  *)
(* connected, the default route does not lead to Ethernet, so no new       *)
(* connection comes to live on it; a socket over Ethernet and MQTT on the  *)
(* modem exclude each other, so a bounce is never spent on the modem while *)
(* such a socket is open; and Ethernet is flagged down before its failures *)
(* pass their limit.  When the transport is chosen, such a socket is Alone *)
(* or about to be dropped: maintainLteFallback, which runs just before,    *)
(* has released LTE.  It could not if the grace after the start came back, *)
(* as it does after 25 days: Young excludes that.                          *)
(*                                                                         *)
(* Each operator is shown to keep Good, then each step of loop().          *)
(*                                                                         *)
(* Wired adds what holds of a site without WiFi: no session and no route   *)
(* leads there, and a session on the modem that is not the transport was   *)
(* set aside for a trusted Ethernet.  With Good it excludes two sessions   *)
(* at once, and LTE is given up for an Ethernet that is trusted.           *)
(***************************************************************************)
EXTENDS NetPaths, TLAPS

\* The signed millis() of maintainLteFallback never goes negative again.
Young == "uptime" \notin Losses

StaleBounced(n)    == Young /\ n.session = "eth" /\ ~n.eth => n.bounce
RouteFollows(n)    == n.route = "eth" /\ ~n.eth => ~n.wifi
FailuresCounted(n) == n.eth => n.lanFails < LanMqttFailLimit
OffTheModem(n)     == Young /\ n.session = "eth" => n.mqtt /\ ~n.lteMqtt
Alone(n)           == Young /\ n.session = "eth" /\ ~n.bounce => ~n.lteData

Good(n) ==
  n \in Nets /\ StaleBounced(n) /\ RouteFollows(n) /\ FailuresCounted(n) /\ OffTheModem(n)

Inv ==
  /\ Good(net) /\ world \in World /\ at \in LoopSteps
  /\ Young /\ world.grace => ~net.lteData
  /\ at = "connect" => Alone(net)

\* Shorthand of the lemmas: an operator, or a step of loop(), took n to m.
Keeps(m, n) == Good(m) /\ (Alone(n) => Alone(m)) /\ (m.lteData => n.lteData)
Calm(m, n)  == Good(m) /\ (m.lteData => n.lteData)

-------------------------------------------------------------------------------
\* What ApplyPreferredRoute touches is the route, and it leads where Good wants it.
LEMMA ApplyRoute ==
  ASSUME NEW n \in Nets
  PROVE  LET m == ApplyPreferredRoute(n)
         IN /\ m \in Nets /\ RouteFollows(m)
            /\ m.eth = n.eth /\ m.session = n.session /\ m.bounce = n.bounce
            /\ m.lanFails = n.lanFails
            /\ m.mqtt = n.mqtt /\ m.lteMqtt = n.lteMqtt /\ m.lteData = n.lteData
<1> DEFINE r == IF n.eth /\ n.ethUp THEN "eth" ELSE IF n.wifi THEN "wifi" ELSE n.route
           m == [n EXCEPT !.route = r]
<1>1. r \in Routes /\ (r = "eth" /\ ~n.eth => ~n.wifi)
  BY DEF Nets, Routes, Lan
<1>2. m \in Nets /\ m.route = r /\ m.eth = n.eth /\ m.wifi = n.wifi
      /\ m.session = n.session /\ m.bounce = n.bounce /\ m.lanFails = n.lanFails
      /\ m.mqtt = n.mqtt /\ m.lteMqtt = n.lteMqtt /\ m.lteData = n.lteData
  <2> HIDE DEF r
  <2> QED
    BY <1>1 DEF Nets
<1> QED
  BY <1>1, <1>2 DEF ApplyPreferredRoute, RouteFollows

LEMMA ApplyGood ==
  ASSUME NEW n \in Nets, StaleBounced(n), FailuresCounted(n), OffTheModem(n)
  PROVE  Keeps(ApplyPreferredRoute(n), n)
  BY ApplyRoute DEF Keeps, Good, StaleBounced, FailuresCounted, OffTheModem, Alone

LEMMA ProbedGood ==
  ASSUME NEW n, Good(n), NEW w, NEW i \in Lan
  PROVE  Keeps(Probed(n, w, i), n)
<1> DEFINE pinned == [n EXCEPT !.route = i]
<1>1. /\ pinned \in Nets /\ StaleBounced(pinned) /\ FailuresCounted(pinned)
      /\ OffTheModem(pinned) /\ (Alone(n) => Alone(pinned)) /\ pinned.lteData = n.lteData
  BY DEF Good, Nets, StaleBounced, FailuresCounted, OffTheModem, Alone, Routes, Lan
<1>2. Keeps(ApplyPreferredRoute(pinned), pinned)
  BY <1>1, ApplyGood
<1> QED
  BY <1>1, <1>2 DEF Probed, Keeps

LEMMA BounceGood ==
  ASSUME NEW n, Good(n)
  PROVE  Keeps(RequestMqttBounce(n), n)
  BY DEF RequestMqttBounce, Keeps, Good, Nets, StaleBounced, RouteFollows, FailuresCounted,
         OffTheModem, Alone

LEMMA DownGood ==
  ASSUME NEW n \in Nets, OffTheModem(n), n.eth \/ Good(n)
  PROVE  Keeps(MarkEthernetDown(n), n)
<1> DEFINE down == [n EXCEPT !.holdoff = "active", !.ethUp = FALSE, !.ethFails = 0]
           off  == [down EXCEPT !.eth = FALSE]
           gone == ApplyPreferredRoute(off)
<1>1. 0 \in 0..(EthProbeFailLimit - 1)
  BY NetPathsAssumption
<1>2. down \in Nets
  BY <1>1 DEF Nets
<1>3. CASE ~n.eth
  <2>1. StaleBounced(down) /\ RouteFollows(down) /\ FailuresCounted(down) /\ OffTheModem(down)
    BY <1>3 DEF Good, Nets, StaleBounced, RouteFollows, FailuresCounted, OffTheModem
  <2>2. (Alone(n) => Alone(down)) /\ down.lteData = n.lteData
    BY DEF Alone, Nets
  <2> QED
    BY <1>2, <1>3, <2>1, <2>2 DEF MarkEthernetDown, Good, Keeps
<1>4. CASE n.eth
  <2>1. off \in Nets /\ ~off.eth /\ OffTheModem(off) /\ off.lteData = n.lteData
    BY <1>2 DEF Nets, OffTheModem
  <2>2. gone \in Nets /\ RouteFollows(gone) /\ ~gone.eth /\ OffTheModem(gone)
      /\ gone.lteData = n.lteData
    <3> HIDE DEF off
    <3> QED
      BY <2>1, ApplyRoute DEF OffTheModem
  <2>3. Keeps(RequestMqttBounce(gone), n)
    <3> HIDE DEF gone
    <3> QED
      BY <2>2 DEF RequestMqttBounce, Keeps, Good, Nets, StaleBounced, RouteFollows,
                  FailuresCounted, OffTheModem, Alone
  <2> QED
    BY <1>4, <2>3 DEF MarkEthernetDown
<1> QED
  BY <1>3, <1>4 DEF Nets

LEMMA UpGood ==
  ASSUME NEW n, Good(n), NEW w
  PROVE  Keeps(MarkEthernetUp(n, w), n)
<1> DEFINE probed == IF n.holdoff = "active" THEN Probed(n, w, "eth") ELSE n
           on     == [probed EXCEPT !.eth = TRUE, !.ethUp = TRUE, !.ethFails = 0, !.lanFails = 0,
                                    !.holdoff = IF @ = "active" THEN "none" ELSE @]
           routed == ApplyPreferredRoute(on)
<1>1. 0 \in 0..(EthProbeFailLimit - 1) /\ 0 \in 0..LanMqttFailLimit /\ 0 < LanMqttFailLimit
  BY NetPathsAssumption
<1>2. Keeps(probed, n)
  BY ProbedGood DEF Lan, Keeps
<1>3. /\ on \in Nets /\ StaleBounced(on) /\ FailuresCounted(on)
      /\ OffTheModem(on) /\ (Alone(n) => Alone(on)) /\ (on.lteData => n.lteData)
  <2> HIDE DEF probed
  <2> QED
    BY <1>1, <1>2 DEF Keeps, Good, Nets, StaleBounced, FailuresCounted, OffTheModem, Alone
<1>4. Keeps(routed, n) /\ Keeps(RequestMqttBounce(routed), n)
  <2> HIDE DEF on
  <2> QED
    BY <1>3, ApplyGood, BounceGood DEF Keeps
<1> HIDE DEF probed, on
<1> QED
  BY <1>2, <1>4 DEF MarkEthernetUp, probed, on

LEMMA NoteGood ==
  ASSUME NEW n, Good(n)
  PROVE  Keeps(NoteLanMqttFailure(n), n)
<1> DEFINE failed  == [n EXCEPT !.lanFails = @ + 1]
           wifiBad == [n EXCEPT !.wifiUp = FALSE, !.wifiFails = 0]
<1>1. CASE n.eth
  <2>1. failed \in Nets /\ failed.eth /\ OffTheModem(failed) /\ (Alone(n) => Alone(failed))
      /\ failed.lteData = n.lteData
    BY <1>1, NetPathsAssumption DEF Good, Nets, FailuresCounted, OffTheModem, Alone
  <2>2. Keeps(MarkEthernetDown(failed), n)
    <3> HIDE DEF failed
    <3> QED
      BY <2>1, DownGood DEF Keeps
  <2>3. failed.lanFails < LanMqttFailLimit => Keeps(failed, n)
    BY <1>1, <2>1 DEF Keeps, Good, Nets, StaleBounced, RouteFollows, FailuresCounted
  <2>4. failed.lanFails \in Nat /\ LanMqttFailLimit \in Nat
    BY <2>1, NetPathsAssumption DEF Nets
  <2> HIDE DEF failed
  <2>5. ~(failed.lanFails >= LanMqttFailLimit) => Keeps(failed, n)
    BY <2>3, <2>4
  <2> QED
    BY <1>1, <2>2, <2>5 DEF NoteLanMqttFailure, failed, Keeps
<1>2. CASE ~n.eth
  <2>1. 0 \in 0..(WifiProbeFailLimit - 1)
    BY NetPathsAssumption
  <2>2. Keeps(wifiBad, n)
    BY <1>2, <2>1 DEF Keeps, Good, Nets, StaleBounced, RouteFollows, FailuresCounted,
                      OffTheModem, Alone
  <2>3. Keeps(RequestMqttBounce(wifiBad), n)
    <3> HIDE DEF wifiBad
    <3> QED
      BY <2>2, BounceGood DEF Keeps
  <2> HIDE DEF wifiBad
  <2> QED
    BY <1>2, <2>2, <2>3 DEF NoteLanMqttFailure, wifiBad, Keeps
<1> QED
  BY <1>1, <1>2

LEMMA StopGood ==
  ASSUME NEW n, Good(n)
  PROVE  Good(StopLtePdp(n)) /\ Alone(StopLtePdp(n)) /\ ~StopLtePdp(n).lteData
  BY DEF StopLtePdp, Good, Nets, StaleBounced, RouteFollows, FailuresCounted, OffTheModem, Alone

LEMMA LostGood ==
  ASSUME NEW n, Good(n)
  PROVE  Calm([n EXCEPT !.mqtt = FALSE, !.session = "none"], n)
  BY DEF Calm, Good, Nets, StaleBounced, RouteFollows, FailuresCounted, OffTheModem, Routes, Lan

LEMMA ProbeKeeps ==
  ASSUME NEW n \in Nets, NEW w, NEW i \in Lan
  PROVE  LET m == Probed(n, w, i)
         IN m \in Nets /\ m.session = n.session /\ m.bounce = n.bounce
<1> DEFINE pinned == [n EXCEPT !.route = i]
<1>1. pinned \in Nets /\ pinned.session = n.session /\ pinned.bounce = n.bounce
  BY DEF Nets, Routes, Lan
<1> HIDE DEF pinned
<1> QED
  BY <1>1, ApplyRoute DEF Probed, pinned

-------------------------------------------------------------------------------
(* The steps of loop(). *)

LEMMA LanProbedGood ==
  ASSUME NEW n, Good(n), NEW w
  PROVE  Calm(LanProbed(n, w), n)
<1> DEFINE eth   == IF n.eth THEN Probed(n, w, "eth") ELSE n
           ethOk == n.eth /\ Reachable(n, w, "eth")
           both  == IF n.wifi /\ ~ethOk THEN Probed(eth, w, "wifi") ELSE eth
           ok    == ethOk \/ (n.wifi /\ Reachable(n, w, "wifi"))
<1>1. Calm(eth, n)
  BY ProbedGood DEF Calm, Lan, Keeps
<1>2. Calm(both, n)
  <2> HIDE DEF eth, ethOk
  <2> QED
    BY <1>1, ProbedGood DEF Calm, Lan, Keeps
<1>3. ok \in BOOLEAN
  BY DEF Calm, Good, Nets
<1>4. Calm([both EXCEPT !.latch = ok], n)
  <2> HIDE DEF both, ok
  <2> QED
    BY <1>2, <1>3 DEF Calm, Good, Nets, StaleBounced, RouteFollows, FailuresCounted, OffTheModem
<1> QED
  BY <1>4 DEF Calm, LanProbed

\* A session over Ethernet that comes out of Prepared has its Ethernet, and with
\* MQTT on the LAN some LAN interface is there to carry it.
LEMMA PreparedGood ==
  ASSUME NEW n, Good(n), Alone(n), NEW w
  PROVE  LET m == Prepared(n, w)
         IN Calm(m, n) /\ (m.lteMqtt \/ m.eth \/ m.wifi \/ ~m.lteData)
<1> DEFINE d == IF n.eth /\ ~w.link THEN MarkEthernetDown(n) ELSE n
           b == Bounced(d)
           lte == b.lteData /\ ~LanLooksUsable(b)
<1>1. Good(d) /\ Alone(d) /\ (d.lteData => n.lteData)
  BY DownGood DEF Keeps, Good
<1>2. /\ b \in Nets /\ RouteFollows(b) /\ FailuresCounted(b) /\ b.lteData = d.lteData
      /\ Young /\ b.session = "eth" => b.mqtt /\ b.eth /\ ~b.lteData
  <2> HIDE DEF d
  <2>1. CASE ~d.bounce
    BY <1>1, <2>1 DEF Bounced, Good, StaleBounced, OffTheModem, Alone
  <2>2. CASE d.bounce /\ d.lteMqtt
    BY <1>1, <2>2 DEF Bounced, Good, Nets, RouteFollows, FailuresCounted, OffTheModem
  <2>3. CASE d.bounce /\ ~d.lteMqtt
    <3>1. Bounced(d) = [d EXCEPT !.bounce = FALSE, !.mqtt = FALSE, !.session = "none"]
      BY <2>3 DEF Bounced
    <3> QED
      BY <1>1, <3>1 DEF Good, Nets, RouteFollows, FailuresCounted, Routes, Lan
  <2> QED
    BY <1>1, <2>1, <2>2, <2>3 DEF Good, Nets
<1>3. lte \in BOOLEAN /\ (lte => b.lteData) /\ (b.lteData /\ ~lte => b.eth \/ b.wifi)
  <2> HIDE DEF b
  <2> QED
    BY <1>2 DEF Nets, LanLooksUsable, LanConnected
<1> DEFINE m == [b EXCEPT !.lteMqtt = lte]
<1>4. Calm(m, n) /\ (m.lteMqtt \/ m.eth \/ m.wifi \/ ~m.lteData)
  <2> HIDE DEF d, b, lte
  <2> QED
    BY <1>1, <1>2, <1>3 DEF Calm, Good, Nets, StaleBounced, RouteFollows, FailuresCounted, OffTheModem
<1> QED
  BY <1>4 DEF Prepared

LEMMA PublishedGood ==
  ASSUME NEW n, Good(n), NEW w, NEW m \in Published(n, w)
  PROVE  Calm(m, n)
<1> DEFINE lost == [n EXCEPT !.mqtt = FALSE, !.session = "none"]
           sent == [n EXCEPT !.lanFails = 0]
           down == [n EXCEPT !.mqtt = FALSE]
<1>1. Calm(lost, n)
  BY LostGood DEF Calm
<1>2. Calm(sent, n)
  BY NetPathsAssumption
     DEF Calm, Good, Nets, StaleBounced, RouteFollows, FailuresCounted, OffTheModem
<1>3. n.lteMqtt => Calm(down, n)
  BY DEF Calm, Good, Nets, StaleBounced, RouteFollows, FailuresCounted, OffTheModem
<1>4. Calm(NoteLanMqttFailure(lost), n)
  <2> HIDE DEF lost
  <2> QED
    BY <1>1, NoteGood DEF Calm, Keeps
<1>5. m \in {n, sent, NoteLanMqttFailure(lost)} \/ (n.lteMqtt /\ m = down)
  BY DEF Calm, Published
<1> HIDE DEF lost, sent, down
<1> QED
  BY <1>2, <1>3, <1>4, <1>5 DEF Calm

LEMMA StartedGood == Good(Started) /\ ~Started.lteData
<1>1. Started \in Nets
  BY NetPathsAssumption DEF Started, Nets, Routes, Lan
<1>2. Started.session = "none" /\ Started.route = "none" /\ ~Started.eth /\ ~Started.lteData
  BY DEF Started
<1> QED
  BY <1>1, <1>2 DEF Good, StaleBounced, RouteFollows, FailuresCounted, OffTheModem

LEMMA PollEthernetGood ==
  ASSUME Good(net), PollEthernetPath
  PROVE  Calm(net', net)
<1> DEFINE probed == Probed(net, world, "eth")
<1>1. Calm(probed, net)
  BY ProbedGood DEF Calm, Lan, Keeps
<1>2. 0 \in 0..(EthProbeFailLimit - 1)
  BY NetPathsAssumption
<1>3. CASE RecoverEthernet
  <2> HIDE DEF probed
  <2>1. Calm(MarkEthernetUp(probed, world), net)
    BY <1>1, UpGood DEF Calm, Keeps
  <2> QED
    BY <1>1, <1>3, <2>1 DEF Calm, RecoverEthernet, probed
<1>4. CASE ProbeEthernetOnLte
  <2> DEFINE well == [probed EXCEPT !.ethFails = 0, !.ethUp = TRUE]
             bad  == [probed EXCEPT !.ethUp = FALSE]
  <2> HIDE DEF probed
  <2>1. Calm(well, net) /\ Calm(bad, net)
    BY <1>1, <1>2 DEF Calm, Good, Nets, StaleBounced, RouteFollows, FailuresCounted, OffTheModem
  <2> HIDE DEF well
  <2>2. Calm(ApplyPreferredRoute(well), net)
    BY <2>1, ApplyGood DEF Calm, Good, Keeps
  <2> QED
    BY <1>4, <2>1, <2>2 DEF Calm, ProbeEthernetOnLte, probed, well
<1>5. CASE ProbeEthernet
  <2> DEFINE well  == [probed EXCEPT !.ethFails = 0, !.ethUp = TRUE]
             worse == [probed EXCEPT !.ethFails = @ + 1]
  <2>1. probed.ethFails = net.ethFails
    BY DEF Calm, Probed, ApplyPreferredRoute, Good, Nets
  <2> HIDE DEF probed
  <2>2. Calm(well, net)
    BY <1>1, <1>2 DEF Calm, Good, Nets, StaleBounced, RouteFollows, FailuresCounted, OffTheModem
  <2>3. Calm(RequestMqttBounce(well), net)
    BY <2>2, BounceGood DEF Calm, Keeps
  <2>4. Calm(MarkEthernetDown(probed), net)
    BY <1>1, DownGood DEF Calm, Keeps, Good
  <2>5. ~(net.ethFails + 1 >= EthProbeFailLimit) => Calm(worse, net)
    <3>1. ~(net.ethFails + 1 >= EthProbeFailLimit)
            => probed.ethFails + 1 \in 0..(EthProbeFailLimit - 1)
      BY <1>1, <2>1, NetPathsAssumption DEF Calm, Good, Nets
    <3> QED
      BY <1>1, <3>1 DEF Calm, Good, Nets, StaleBounced, RouteFollows, FailuresCounted, OffTheModem
  <2> HIDE DEF well, worse
  <2> QED
    BY <1>5, <2>2, <2>3, <2>4, <2>5 DEF Calm, ProbeEthernet, probed, well, worse
<1>6. CASE GiveUpUnknownBroker
  BY <1>6, DownGood DEF Calm, GiveUpUnknownBroker, Keeps, Good
<1> QED
  BY <1>3, <1>4, <1>5, <1>6 DEF Calm, PollEthernetPath, Skip

LEMMA PollWifiGood ==
  ASSUME Good(net), PollWifiPath
  PROVE  Calm(net', net)
<1> DEFINE probed == Probed(net, world, "wifi")
           bad    == [probed EXCEPT !.wifiFails = 0, !.wifiUp = FALSE]
           well   == [probed EXCEPT !.wifiFails = 0, !.wifiUp = TRUE]
           worse  == [probed EXCEPT !.wifiFails = @ + 1]
<1>1. Calm(probed, net)
  BY ProbedGood DEF Calm, Lan, Keeps
<1>2. 0 \in 0..(WifiProbeFailLimit - 1)
  BY NetPathsAssumption
<1>3. probed.wifiFails = net.wifiFails
  BY DEF Calm, Probed, ApplyPreferredRoute, Good, Nets
<1> HIDE DEF probed
<1>4. Calm(bad, net) /\ Calm(well, net)
  BY <1>1, <1>2 DEF Calm, Good, Nets, StaleBounced, RouteFollows, FailuresCounted, OffTheModem
<1>5. net.wifiFails + 1 < WifiProbeFailLimit => Calm(worse, net)
  <2>1. net.wifiFails + 1 < WifiProbeFailLimit
          => probed.wifiFails + 1 \in 0..(WifiProbeFailLimit - 1)
    BY <1>1, <1>3, NetPathsAssumption DEF Calm, Good, Nets
  <2> QED
    BY <1>1, <2>1 DEF Calm, Good, Nets, StaleBounced, RouteFollows, FailuresCounted, OffTheModem
<1>6. Calm(RequestMqttBounce(bad), net)
  <2> HIDE DEF bad
  <2> QED
    BY <1>4, BounceGood DEF Calm, Keeps
<1> HIDE DEF bad, well, worse
<1> QED
  BY <1>4, <1>5, <1>6 DEF Calm, PollWifiPath, ProbeWifi, Skip, probed, bad, well, worse

LEMMA ServiceGood ==
  ASSUME Good(net), ServiceNetworkPaths
  PROVE  Calm(net', net)
<1>1. CASE SettleLan
  BY <1>1 DEF Calm, SettleLan, LanHasInternet, Good, Nets, StaleBounced, RouteFollows,
              FailuresCounted, OffTheModem
<1>2. CASE PreemptLte
  <2> DEFINE begun   == [net EXCEPT !.preempt = FALSE]
             stopped == StopLtePdp(begun)
             routed  == ApplyPreferredRoute(stopped)
  <2>1. Calm(begun, net)
    BY DEF Calm, Good, Nets, StaleBounced, RouteFollows, FailuresCounted, OffTheModem
  <2>2. Calm(stopped, net)
    <3> HIDE DEF begun
    <3> QED
      BY <2>1, StopGood DEF Calm
  <2>3. Calm(routed, net)
    <3> HIDE DEF stopped
    <3> QED
      BY <2>2, ApplyGood DEF Calm, Good, Keeps
  <2>4. Calm(RequestMqttBounce(routed), net)
    <3> HIDE DEF routed
    <3> QED
      BY <2>3, BounceGood DEF Calm, Keeps
  <2> QED
    BY <1>2, <2>4 DEF Calm, PreemptLte
<1> QED
  BY <1>1, <1>2 DEF Calm, ServiceNetworkPaths

\* A session over a connected Ethernet has LTE released before the next step.
LEMMA FallbackGood ==
  ASSUME Good(net), Young /\ world.grace => ~net.lteData, MaintainLteFallback
  PROVE  Good(net') /\ Alone(net') /\ (Young /\ world.grace => ~net'.lteData)
<1>1. CASE ReleaseLte
  BY <1>1, StopGood DEF ReleaseLte
<1>2. CASE world.grace /\ Skip("lte")
  BY <1>2 DEF Skip, Alone
<1> SUFFICES ASSUME ~LanMqttOk(net), ProbeLan \/ DialLte \/ Skip("lte")
             PROVE  Good(net') /\ Alone(net') /\ (Young /\ world.grace => ~net'.lteData)
  BY <1>1, <1>2 DEF MaintainLteFallback, ProbeLan, DialLte
<1>3. Young /\ net.session = "eth" => net.bounce
  BY DEF LanMqttOk, LanConnected, Good, Nets, StaleBounced, OffTheModem
<1>4. Calm(LanProbed(net, world), net)
  BY LanProbedGood
<1>5. /\ LanProbed(net, world).session = net.session
      /\ LanProbed(net, world).bounce = net.bounce
  <2> DEFINE eth   == IF net.eth THEN Probed(net, world, "eth") ELSE net
             ethOk == net.eth /\ Reachable(net, world, "eth")
             both  == IF net.wifi /\ ~ethOk THEN Probed(eth, world, "wifi") ELSE eth
             ok    == ethOk \/ (net.wifi /\ Reachable(net, world, "wifi"))
  <2>1. eth \in Nets /\ eth.session = net.session /\ eth.bounce = net.bounce
    BY ProbeKeeps DEF Good, Lan
  <2>2. both \in Nets /\ both.session = net.session /\ both.bounce = net.bounce
    <3> HIDE DEF eth, ethOk
    <3> QED
      BY <2>1, ProbeKeeps DEF Lan
  <2>3. /\ [both EXCEPT !.latch = ok].session = net.session
        /\ [both EXCEPT !.latch = ok].bounce = net.bounce
    <3> HIDE DEF both, ok
    <3> QED
      BY <2>2 DEF Nets
  <2> QED
    BY <2>3 DEF LanProbed
<1>6. CASE ProbeLan
  BY <1>3, <1>4, <1>5, <1>6 DEF Calm, ProbeLan, FallbackStep, Alone
<1>7. CASE DialLte
  <2>1. PICK n \in {net, LanProbed(net, world)} : net' = [n EXCEPT !.lteData = TRUE]
    BY <1>7 DEF DialLte
  <2>2. Good(n) /\ (Young /\ n.session = "eth" => n.bounce)
    BY <1>3, <1>4, <1>5, <2>1 DEF Calm
  <2>3. ~world.grace
    BY <1>7 DEF DialLte, FallbackStep
  <2> QED
    BY <2>1, <2>2, <2>3 DEF Good, Nets, StaleBounced, RouteFollows, FailuresCounted, OffTheModem, Alone
<1>8. CASE Skip("lte")
  BY <1>3, <1>8 DEF Skip, Alone
<1> QED
  BY <1>6, <1>7, <1>8

LEMMA ConnectGood ==
  ASSUME Good(net), Alone(net), ConnectMqttIfNeeded
  PROVE  Calm(net', net)
<1> DEFINE n == Prepared(net, world)
           lost   == [n EXCEPT !.mqtt = FALSE, !.session = "none"]
           failed == [n EXCEPT !.mqtt = FALSE]
<1>1. Calm(n, net) /\ (n.lteMqtt \/ n.eth \/ n.wifi \/ ~n.lteData)
  BY PreparedGood DEF Calm
<1>2. NoNetwork(n) \/ PumpCmqtt(n) \/ LoseCmqtt(n) \/ ConnectCmqtt(n)
      \/ PumpLan(n) \/ LoseLan(n) \/ ConnectLan(n) \/ AwaitReconnect(n)
  BY DEF Calm, ConnectMqttIfNeeded
<1> HIDE DEF n
<1>3. Calm(lost, net)
  BY <1>1, LostGood DEF Calm
<1>4. (Young => n.session # "eth") => Calm(failed, net)
  BY <1>1 DEF Calm, Good, Nets, StaleBounced, RouteFollows, FailuresCounted, OffTheModem
<1>5. Young /\ n.lteMqtt => n.session # "eth"
  BY <1>1 DEF Calm, Good, OffTheModem
<1>6. CASE NoNetwork(n)
  BY <1>1, <1>6 DEF Calm, NoNetwork
<1>7. CASE PumpCmqtt(n)
  BY <1>1, <1>7 DEF Calm, PumpCmqtt, Good, Nets, StaleBounced, RouteFollows, FailuresCounted,
                    OffTheModem
<1>8. CASE LoseCmqtt(n)
  BY <1>1, <1>5, <1>8 DEF Calm, LoseCmqtt, Good, Nets, StaleBounced, RouteFollows, FailuresCounted,
                          OffTheModem
<1>9. CASE ConnectCmqtt(n)
  <2>1. Calm(failed, net) /\ Calm(StopLtePdp(failed), net)
    <3> HIDE DEF failed
    <3> QED
      BY <1>4, <1>5, <1>9, StopGood DEF Calm, ConnectCmqtt
  <2>2. Calm([n EXCEPT !.mqtt = TRUE, !.cmqtt = TRUE], net)
    BY <1>1, <1>5 DEF Calm, Good, Nets, StaleBounced, RouteFollows, FailuresCounted, OffTheModem
  <2> QED
    BY <1>9, <2>1, <2>2 DEF Calm, ConnectCmqtt
<1>10. CASE PumpLan(n)
  BY <1>1, <1>10 DEF Calm, PumpLan, OnLan, Good, Nets, StaleBounced, RouteFollows, FailuresCounted,
                     OffTheModem
<1>11. CASE LoseLan(n)
  <2>1. Calm(MarkEthernetDown(lost), net)
    <3> HIDE DEF lost
    <3> QED
      BY <1>3, DownGood DEF Calm, Good, Keeps
  <2> QED
    BY <1>3, <1>11, <2>1 DEF Calm, LoseLan
<1>12. CASE ConnectLan(n)
  <2>1. Calm(NoteLanMqttFailure(failed), net)
    <3>1. n.session # "eth"
      BY <1>12 DEF Calm, ConnectLan
    <3> HIDE DEF failed
    <3> QED
      BY <1>4, <3>1, NoteGood DEF Calm, Keeps
  <2>2. ~n.lteMqtt /\ (n.route = "eth" => n.eth)
    BY <1>1, <1>12 DEF Calm, ConnectLan, OnLan, NetworkConnected, LanConnected, Good, RouteFollows, Nets
  <2> DEFINE e == n.ethUp \/ n.eth
             w == n.wifiUp \/ ~n.eth
             made == [n EXCEPT !.mqtt = TRUE, !.session = n.route, !.known = TRUE,
                               !.lanFails = 0, !.ethUp = e, !.wifiUp = w]
  <2>3. e \in BOOLEAN /\ w \in BOOLEAN /\ n.route \in Routes
    BY <1>1 DEF Calm, Good, Nets
  <2>4. 0 \in 0..LanMqttFailLimit /\ 0 < LanMqttFailLimit
    BY NetPathsAssumption
  <2>5. Calm(made, net)
    <3> HIDE DEF e, w
    <3>1. made \in Nets
      BY <1>1, <2>3, <2>4 DEF Calm, Good, Nets
    <3> QED
      BY <1>1, <2>2, <2>4, <3>1
         DEF Calm, Good, Nets, StaleBounced, RouteFollows, FailuresCounted, OffTheModem
  <2> QED
    BY <1>12, <2>1, <2>5 DEF Calm, ConnectLan
<1>13. CASE AwaitReconnect(n)
  BY <1>4, <1>5, <1>13 DEF Calm, AwaitReconnect
<1> QED
  BY <1>2, <1>6, <1>7, <1>8, <1>9, <1>10, <1>11, <1>12, <1>13 DEF Calm

LEMMA FinishGood ==
  ASSUME Good(net), FinishPass
  PROVE  Calm(net', net)
<1>1. CASE Report
  BY <1>1, PublishedGood DEF Calm, Report
<1>2. CASE DropSilentSession
  BY <1>2 DEF Calm, DropSilentSession, Good, Nets, StaleBounced, RouteFollows, FailuresCounted,
              OffTheModem, Routes, Lan
<1>3. CASE ReleaseDeadLte
  BY <1>3, StopGood, PublishedGood DEF Calm, ReleaseDeadLte
<1>4. CASE SilenceRestart
  BY <1>4, StartedGood DEF Calm, SilenceRestart
<1> QED
  BY <1>1, <1>2, <1>3, <1>4 DEF Calm, FinishPass, Skip

-------------------------------------------------------------------------------
(* The events between two steps. *)

LEMMA WifiGood ==
  ASSUME Good(net), WifiGotIp \/ WifiForgotten \/ WifiDisconnected
  PROVE  Keeps(net', net)
<1> DEFINE up   == [net EXCEPT !.wifi = TRUE, !.wifiFails = 0]
           gone == [net EXCEPT !.wifi = FALSE, !.wifiUp = FALSE, !.wifiFails = 0]
           b    == net.bounce \/ ~net.eth
<1>1. 0 \in 0..(WifiProbeFailLimit - 1)
  BY NetPathsAssumption
<1>2. CASE WifiGotIp
  <2>1. /\ up \in Nets /\ StaleBounced(up) /\ FailuresCounted(up) /\ OffTheModem(up)
        /\ (Alone(net) => Alone(up)) /\ (net.eth => RouteFollows(up)) /\ up.lteData = net.lteData
    BY <1>1 DEF Good, Nets, StaleBounced, FailuresCounted, OffTheModem, Alone, RouteFollows
  <2> HIDE DEF up
  <2>2. Keeps(RequestMqttBounce(ApplyPreferredRoute(up)), net)
    BY <2>1, ApplyGood, BounceGood DEF Keeps
  <2>3. net.eth => Keeps(up, net)
    BY <2>1 DEF Keeps, Good
  <2> QED
    BY <1>2, <2>2, <2>3 DEF WifiGotIp, up
<1>3. CASE WifiForgotten
  <2>1. Keeps(gone, net)
    BY <1>1 DEF Keeps, Good, Nets, StaleBounced, FailuresCounted, OffTheModem, Alone, RouteFollows
  <2> QED
    BY <1>3, <2>1 DEF WifiForgotten
<1>4. CASE WifiDisconnected
  <2>1. b \in BOOLEAN /\ (net.bounce => b)
    BY DEF Good, Nets
  <2>2. Keeps([gone EXCEPT !.bounce = b], net)
    <3> HIDE DEF b
    <3> QED
      BY <1>1, <2>1
         DEF Keeps, Good, Nets, StaleBounced, FailuresCounted, OffTheModem, Alone, RouteFollows
  <2>3. net' = [gone EXCEPT !.bounce = b]
    BY <1>4 DEF WifiDisconnected, Good, Nets
  <2> QED
    BY <2>2, <2>3
<1> QED
  BY <1>2, <1>3, <1>4

LEMMA EventGood ==
  ASSUME Good(net), world \in World, Environment
  PROVE  Keeps(net', net) /\ world' \in World /\ at' = at /\ (Young /\ world'.grace => world.grace)
<1>1. Keeps(net, net)
  BY DEF Keeps
<1>2. Keeps(MarkEthernetDown(net), net) /\ \A w : Keeps(MarkEthernetUp(net, w), net)
  BY DownGood, UpGood DEF Good
<1>3. CASE CablePlugged
  BY <1>1, <1>2, <1>3 DEF CablePlugged, Event, World
<1>4. CASE EthernetGotIp
  BY <1>2, <1>4 DEF EthernetGotIp, Event, World
<1>5. CASE CableUnplugged
  BY <1>1, <1>2, <1>5 DEF CableUnplugged, Loss, Event, World
<1>6. CASE LeaseExpires
  BY <1>1, <1>6 DEF LeaseExpires, Loss, Event, World
<1>7. CASE WifiGotIp \/ WifiForgotten \/ WifiDisconnected
  BY <1>7, WifiGood DEF WifiGotIp, WifiForgotten, WifiDisconnected, Loss, Event
<1>8. CASE UplinkChanges
  BY <1>1, <1>8 DEF UplinkChanges, Event, World
<1>9. CASE SessionReset
  <2>1. world' \in World
    BY <1>9, NetPathsAssumption DEF SessionReset, World
  <2>2. Keeps([net EXCEPT !.session = "none"], net)
    BY DEF Keeps, Good, Nets, StaleBounced, FailuresCounted, OffTheModem, Alone, RouteFollows,
           Routes, Lan
  <2>3. Keeps([net EXCEPT !.cmqtt = FALSE], net)
    BY DEF Keeps, Good, Nets, StaleBounced, FailuresCounted, OffTheModem, Alone, RouteFollows
  <2> QED
    BY <1>9, <2>1, <2>2, <2>3 DEF SessionReset, World, Loss, Event
<1>10. CASE ModemReboots
  BY <1>10, StopGood DEF ModemReboots, Loss, Event, Keeps
<1>11. CASE HoldoffEnds
  BY <1>11 DEF HoldoffEnds, Event, Keeps, Good, Nets, StaleBounced, FailuresCounted,
               OffTheModem, Alone, RouteFollows
<1>12. CASE HoldoffWraps
  <2>1. world' \in World
    BY <1>12, NetPathsAssumption DEF HoldoffWraps, World
  <2>2. Keeps([net EXCEPT !.holdoff = "active"], net)
    BY DEF Keeps, Good, Nets, StaleBounced, FailuresCounted, OffTheModem, Alone, RouteFollows
  <2> QED
    BY <1>12, <2>1, <2>2 DEF HoldoffWraps, Loss, Event
<1>13. CASE GraceEnds
  BY <1>1, <1>13 DEF GraceEnds, Event, World
<1>14. CASE GraceReturns
  <2>1. world' \in World
    <3>1. world.mishaps + 1 \in 0..MaxMishaps
      BY <1>14, NetPathsAssumption DEF GraceReturns, World
    <3> QED
      BY <1>14, <3>1 DEF GraceReturns, World
  <2> QED
    BY <1>1, <1>14, <2>1 DEF GraceReturns, Loss, Event, Young
<1> QED
  BY <1>3, <1>4, <1>5, <1>6, <1>7, <1>8, <1>9, <1>10, <1>11, <1>12, <1>13, <1>14
  DEF Environment

-------------------------------------------------------------------------------
LEMMA InitInv == Init => Inv
<1> SUFFICES ASSUME Init
             PROVE  Inv
  OBVIOUS
<1>1. net = Started /\ at = "resolve"
  BY DEF Init
<1>2. world \in World
  BY NetPathsAssumption DEF Init, World
<1> QED
  BY <1>1, <1>2, StartedGood DEF Inv, LoopSteps

LEMMA LoopInv == Inv /\ Loop => Inv'
<1> SUFFICES ASSUME Inv, Loop
             PROVE  Inv'
  OBVIOUS
<1> USE DEF Step, Following, LoopSteps
<1>1. Good(net) /\ world \in World /\ (Young /\ world.grace => ~net.lteData)
  BY DEF Inv
<1>2. CASE ResolveBroker
  <2>1. Calm([net EXCEPT !.known = TRUE], net)
    BY <1>1 DEF Calm, Good, Nets, StaleBounced, RouteFollows, FailuresCounted, OffTheModem
  <2> QED
    BY <1>1, <1>2, <2>1 DEF ResolveBroker, Calm, Inv
<1>3. CASE Skip("resolve")
  BY <1>1, <1>3 DEF Skip, Inv
<1>4. CASE PollEthernetPath
  <2>1. Step("eth")
    BY <1>4 DEF PollEthernetPath, RecoverEthernet, ProbeEthernetOnLte, ProbeEthernet,
                GiveUpUnknownBroker, Skip
  <2> QED
    BY <1>1, <1>4, <2>1, PollEthernetGood DEF Calm, Inv
<1>5. CASE PollWifiPath
  <2>1. Step("wifi")
    BY <1>5 DEF PollWifiPath, ProbeWifi, Skip
  <2> QED
    BY <1>1, <1>5, <2>1, PollWifiGood DEF Calm, Inv
<1>6. CASE ServiceNetworkPaths
  <2>1. Step("paths")
    BY <1>6 DEF ServiceNetworkPaths, SettleLan, PreemptLte
  <2> QED
    BY <1>1, <1>6, <2>1, ServiceGood DEF Calm, Inv
<1>7. CASE MaintainLteFallback
  <2>1. Step("lte")
    BY <1>7 DEF MaintainLteFallback, ReleaseLte, ProbeLan, DialLte, FallbackStep, Skip
  <2> QED
    BY <1>1, <1>7, <2>1, FallbackGood DEF Inv
<1>8. CASE ConnectMqttIfNeeded
  <2>1. Step("connect")
    BY <1>8 DEF ConnectMqttIfNeeded
  <2>2. Alone(net)
    BY <2>1 DEF Inv
  <2> QED
    BY <1>1, <1>8, <2>1, <2>2, ConnectGood DEF Calm, Inv
<1>9. CASE FinishPass
  <2>1. Calm(net', net)
    BY <1>1, <1>9, FinishGood
  <2>2. CASE SilenceRestart
    <3>1. world' \in World
      BY <1>1, <2>2 DEF SilenceRestart, World
    <3> QED
      BY <2>1, <2>2, <3>1, StartedGood DEF SilenceRestart, Calm, Inv
  <2>3. CASE Step("report")
    BY <1>1, <2>1, <2>3 DEF Calm, Inv
  <2> QED
    BY <1>9, <2>2, <2>3 DEF FinishPass, Report, DropSilentSession, ReleaseDeadLte, Skip
<1> QED
  BY <1>2, <1>3, <1>4, <1>5, <1>6, <1>7, <1>8, <1>9 DEF Loop

LEMMA StepInv == Inv /\ [Next]_vars => Inv'
<1> SUFFICES ASSUME Inv, [Next]_vars
             PROVE  Inv'
  OBVIOUS
<1>1. CASE Loop
  BY <1>1, LoopInv
<1>2. CASE Environment
  <2>1. Keeps(net', net) /\ world' \in World /\ at' = at /\ (Young /\ world'.grace => world.grace)
    BY <1>2, EventGood DEF Inv
  <2> QED
    BY <2>1 DEF Inv, Keeps
<1>3. CASE UNCHANGED vars
  BY <1>3 DEF vars, Inv, Good, StaleBounced, RouteFollows, FailuresCounted, OffTheModem, Alone
<1> QED
  BY <1>1, <1>2, <1>3 DEF Next

\* The state keeps its shape and every counter stays below its limit: Ethernet is
\* flagged down by the failed connection or probe that would reach it.
THEOREM TypeCorrect == Spec => []TypeOK
<1>1. Inv => TypeOK
  BY DEF Inv, Good, TypeOK
<1> QED
  BY <1>1, InitInv, StepInv, PTL DEF Spec

\* A session over an Ethernet that is flagged down is about to be dropped, as long
\* as the device has been up for less than 25 days.
THEOREM StaleSessionIsBouncedHolds ==
  "uptime" \notin Losses => (Spec => []StaleSessionIsBounced)
<1> SUFFICES ASSUME Young
             PROVE  Spec => []StaleSessionIsBounced
  BY DEF Young
<1>1. Inv => StaleSessionIsBounced
  BY DEF Inv, Good, StaleBounced, StaleSessionIsBounced
<1> QED
  BY <1>1, InitInv, StepInv, PTL DEF Spec
-------------------------------------------------------------------------------
(* A site without WiFi: where the session lives, and why LTE is given up. *)

\* Nothing goes over WiFi, the modem carries nothing without its context, and a
\* session on the modem that does not carry MQTT was set aside for an Ethernet that
\* is trusted, or has been flagged down since.
Wired(n) ==
  /\ ~n.wifi /\ n.route # "wifi" /\ n.session # "wifi"
  /\ n.cmqtt \/ n.lteMqtt => n.lteData
  /\ n.cmqtt /\ ~n.lteMqtt /\ n.eth => n.ethUp

LEMMA ApplyWired ==
  ASSUME NEW n \in Nets, Wired(n)
  PROVE  Wired(ApplyPreferredRoute(n))
<1> DEFINE r == IF n.eth /\ n.ethUp THEN "eth" ELSE IF n.wifi THEN "wifi" ELSE n.route
<1>1. r # "wifi"
  BY DEF Wired
<1>2. Wired([n EXCEPT !.route = r])
  <2> HIDE DEF r
  <2> QED
    BY <1>1 DEF Wired, Nets
<1> QED
  BY <1>2 DEF ApplyPreferredRoute

LEMMA ProbedWired ==
  ASSUME NEW n \in Nets, Wired(n), NEW w
  PROVE  Wired(Probed(n, w, "eth")) /\ Wired(Probed(n, w, "wifi"))
<1> DEFINE pinned == [n EXCEPT !.route = "eth"]
<1>1. pinned \in Nets /\ Wired(pinned)
  BY DEF Nets, Routes, Lan, Wired
<1>2. Wired(ApplyPreferredRoute(pinned))
  BY <1>1, ApplyWired
<1>3. Probed(n, w, "wifi") = n
  BY DEF Probed, HasAddress, Wired
<1> QED
  BY <1>2, <1>3 DEF Probed

LEMMA BounceWired ==
  ASSUME NEW n \in Nets, Wired(n)
  PROVE  Wired(RequestMqttBounce(n))
  BY DEF RequestMqttBounce, Nets, Wired

LEMMA DownWired ==
  ASSUME NEW n \in Nets, n.eth \/ Wired(n), Wired([n EXCEPT !.eth = FALSE])
  PROVE  Wired(MarkEthernetDown(n))
<1> DEFINE down == [n EXCEPT !.holdoff = "active", !.ethUp = FALSE, !.ethFails = 0]
           off  == [down EXCEPT !.eth = FALSE]
           gone == ApplyPreferredRoute(off)
<1>1. 0 \in 0..(EthProbeFailLimit - 1)
  BY NetPathsAssumption
<1>2. down \in Nets /\ off \in Nets /\ Wired(off) /\ (~n.eth => Wired(down))
  BY <1>1 DEF Nets, Wired
<1>3. gone \in Nets /\ Wired(gone)
  <2> HIDE DEF off
  <2> QED
    BY <1>2, ApplyWired, ApplyRoute
<1>4. Wired(RequestMqttBounce(gone))
  <2> HIDE DEF gone
  <2> QED
    BY <1>3, BounceWired
<1> QED
  BY <1>2, <1>4 DEF MarkEthernetDown, Nets

LEMMA UpWired ==
  ASSUME NEW n, Good(n), Wired(n), NEW w
  PROVE  Wired(MarkEthernetUp(n, w))
<1> DEFINE probed == IF n.holdoff = "active" THEN Probed(n, w, "eth") ELSE n
           on     == [probed EXCEPT !.eth = TRUE, !.ethUp = TRUE, !.ethFails = 0, !.lanFails = 0,
                                    !.holdoff = IF @ = "active" THEN "none" ELSE @]
           routed == ApplyPreferredRoute(on)
<1>1. 0 \in 0..(EthProbeFailLimit - 1) /\ 0 \in 0..LanMqttFailLimit
  BY NetPathsAssumption
<1>2. probed \in Nets /\ Wired(probed)
  BY ProbedGood, ProbedWired DEF Lan, Keeps, Good
<1>3. on \in Nets /\ Wired(on)
  <2> HIDE DEF probed
  <2> QED
    BY <1>1, <1>2 DEF Nets, Wired
<1>4. Wired(routed) /\ Wired(RequestMqttBounce(routed))
  <2>1. routed \in Nets /\ Wired(routed)
    <3> HIDE DEF on
    <3> QED
      BY <1>3, ApplyWired, ApplyRoute
  <2> HIDE DEF routed
  <2> QED
    BY <2>1, BounceWired
<1> HIDE DEF probed, on
<1> QED
  BY <1>2, <1>4 DEF MarkEthernetUp, probed, on

LEMMA NoteWired ==
  ASSUME NEW n, Good(n), Wired(n)
  PROVE  Wired(NoteLanMqttFailure(n))
<1> DEFINE failed == [n EXCEPT !.lanFails = @ + 1]
<1>1. CASE n.eth
  <2>1. failed \in Nets /\ Wired(failed) /\ Wired([failed EXCEPT !.eth = FALSE])
    BY <1>1, NetPathsAssumption DEF Good, Nets, FailuresCounted, Wired
  <2>2. Wired(MarkEthernetDown(failed))
    <3> HIDE DEF failed
    <3> QED
      BY <2>1, DownWired
  <2> HIDE DEF failed
  <2> QED
    BY <1>1, <2>1, <2>2 DEF NoteLanMqttFailure, failed
<1>2. CASE ~n.eth
  BY <1>2 DEF NoteLanMqttFailure, Wired
<1> QED
  BY <1>1, <1>2

LEMMA StopWired ==
  ASSUME NEW n \in Nets, Wired(n)
  PROVE  Wired(StopLtePdp(n)) /\ ~StopLtePdp(n).lteData
  BY DEF StopLtePdp, Nets, Wired

LEMMA LanProbedWired ==
  ASSUME NEW n, Good(n), Wired(n), NEW w
  PROVE  Wired(LanProbed(n, w)) /\ LanProbed(n, w).cmqtt = n.cmqtt
<1> DEFINE eth   == IF n.eth THEN Probed(n, w, "eth") ELSE n
           ok    == n.eth /\ Reachable(n, w, "eth")
<1>1. eth \in Nets /\ Wired(eth)
  BY ProbeKeeps, ProbedWired DEF Good, Lan
<1>2. LanProbed(n, w) = [eth EXCEPT !.latch = ok]
  BY DEF LanProbed, Wired
<1>3. eth.cmqtt = n.cmqtt
  BY DEF Probed, ApplyPreferredRoute, Good, Nets
<1> HIDE DEF eth
<1> QED
  BY <1>1, <1>2, <1>3 DEF Wired, Nets

\* Preparing a connection neither stops the context nor opens a session, and the
\* modem is set aside for a trusted Ethernet alone.
LEMMA PreparedWired ==
  ASSUME NEW n, Good(n), Wired(n), NEW w
  PROVE  LET m == Prepared(n, w)
         IN Wired(m) /\ m.lteData = n.lteData /\ m.cmqtt = n.cmqtt
<1> DEFINE d == IF n.eth /\ ~w.link THEN MarkEthernetDown(n) ELSE n
           b == Bounced(d)
           lte == b.lteData /\ ~LanLooksUsable(b)
<1>1. d \in Nets /\ Wired(d) /\ d.lteData = n.lteData /\ d.cmqtt = n.cmqtt
  <2>1. Good(d)
    BY DownGood DEF Keeps, Good
  <2>2. Wired([n EXCEPT !.eth = FALSE])
    BY DEF Wired, Good, Nets
  <2>3. d.lteData = n.lteData /\ d.cmqtt = n.cmqtt
    BY DEF MarkEthernetDown, RequestMqttBounce, ApplyPreferredRoute, Good, Nets
  <2> QED
    BY <2>1, <2>2, <2>3, DownWired DEF Good
<1>2. b \in Nets /\ Wired(b) /\ b.lteData = d.lteData /\ b.cmqtt = d.cmqtt
  <2> HIDE DEF d
  <2> QED
    BY <1>1 DEF Bounced, Nets, Wired, Routes, Lan
<1>3. lte \in BOOLEAN /\ (lte => b.lteData) /\ (b.lteData /\ ~lte => b.eth /\ b.ethUp)
  <2> HIDE DEF b
  <2> QED
    BY <1>2 DEF Nets, Wired, LanLooksUsable, LanHasInternet
<1>4. LET m == [b EXCEPT !.lteMqtt = lte]
      IN Wired(m) /\ m.lteData = n.lteData /\ m.cmqtt = n.cmqtt
  <2> HIDE DEF d, b, lte
  <2> QED
    BY <1>1, <1>2, <1>3 DEF Nets, Wired
<1> QED
  BY <1>4 DEF Prepared
\* Shorthand of the lemmas: a step keeps the site without WiFi, and gives up a
\* working session over LTE only for a trusted LAN.
Settled == Wired(net') /\ (DropsLte => LanHasInternet(net))

LEMMA SameContext ==
  ASSUME Wired(net), Wired(net'), net.cmqtt => net'.lteData
  PROVE  Settled
  BY DEF Settled, DropsLte

LEMMA PollEthernetWired ==
  ASSUME Good(net), Wired(net), PollEthernetPath
  PROVE  Wired(net') /\ net'.lteData = net.lteData
<1> DEFINE probed == Probed(net, world, "eth")
           well   == [probed EXCEPT !.ethFails = 0, !.ethUp = TRUE]
           bad    == [probed EXCEPT !.ethUp = FALSE]
           worse  == [probed EXCEPT !.ethFails = @ + 1]
<1>1. Good(probed) /\ Wired(probed)
  BY ProbedGood, ProbedWired DEF Lan, Keeps, Good
<1>2. /\ probed.eth = net.eth /\ probed.lteMqtt = net.lteMqtt /\ probed.cmqtt = net.cmqtt
      /\ probed.lteData = net.lteData
  BY DEF Probed, ApplyPreferredRoute, Good, Nets
<1>3. 0 \in 0..(EthProbeFailLimit - 1)
  BY NetPathsAssumption
<1>4. \A n : Good(n) => /\ MarkEthernetUp(n, world).lteData = n.lteData
                        /\ MarkEthernetDown(n).lteData = n.lteData
  BY DEF MarkEthernetUp, MarkEthernetDown, RequestMqttBounce, Probed, ApplyPreferredRoute,
         Good, Nets
<1> HIDE DEF probed
<1>5. /\ well \in Nets /\ Wired(well) /\ well.lteData = net.lteData
      /\ (net.lteMqtt => Wired(bad)) /\ bad.lteData = net.lteData
      /\ Wired(worse) /\ worse.lteData = net.lteData
      /\ Wired([probed EXCEPT !.eth = FALSE]) /\ Wired([net EXCEPT !.eth = FALSE])
  BY <1>1, <1>2, <1>3 DEF Good, Nets, Wired
<1>6. CASE RecoverEthernet
  BY <1>1, <1>2, <1>4, <1>6, UpWired DEF RecoverEthernet, probed
<1>7. CASE ProbeEthernetOnLte
  <2>1. Wired(ApplyPreferredRoute(well)) /\ ApplyPreferredRoute(well).lteData = net.lteData
    <3> HIDE DEF well
    <3> QED
      BY <1>5, ApplyWired, ApplyRoute
  <2> QED
    BY <1>5, <1>7, <2>1 DEF ProbeEthernetOnLte, probed
<1>8. CASE ProbeEthernet
  <2>1. Wired(RequestMqttBounce(well)) /\ RequestMqttBounce(well).lteData = net.lteData
    <3> HIDE DEF well
    <3> QED
      BY <1>5, BounceWired DEF RequestMqttBounce, Nets
  <2>2. Wired(MarkEthernetDown(probed)) /\ MarkEthernetDown(probed).lteData = net.lteData
    BY <1>1, <1>2, <1>4, <1>5, DownWired DEF Good
  <2> QED
    BY <1>5, <1>8, <2>1, <2>2 DEF ProbeEthernet, probed
<1>9. CASE GiveUpUnknownBroker
  BY <1>4, <1>5, <1>9, DownWired DEF GiveUpUnknownBroker, Good
<1> QED
  BY <1>6, <1>7, <1>8, <1>9 DEF PollEthernetPath, Skip

LEMMA ServiceWired ==
  ASSUME Good(net), Wired(net), ServiceNetworkPaths
  PROVE  Settled
<1>1. CASE SettleLan
  <2>1. Wired(net') /\ net'.lteData = net.lteData
    BY <1>1 DEF SettleLan, Good, Nets, Wired
  <2> QED
    BY <2>1, SameContext DEF Wired
<1>2. CASE PreemptLte
  <2> DEFINE begun == [net EXCEPT !.preempt = FALSE]
             stopped == StopLtePdp(begun)
             routed == ApplyPreferredRoute(stopped)
  <2>1. begun \in Nets /\ Wired(begun)
    BY DEF Good, Nets, Wired
  <2>2. stopped \in Nets /\ Wired(stopped)
    <3> HIDE DEF begun
    <3> QED
      BY <2>1, StopWired DEF StopLtePdp, Nets
  <2>3. routed \in Nets /\ Wired(routed)
    <3> HIDE DEF stopped
    <3> QED
      BY <2>2, ApplyWired, ApplyRoute
  <2>4. Wired(RequestMqttBounce(routed))
    <3> HIDE DEF routed
    <3> QED
      BY <2>3, BounceWired
  <2> QED
    BY <1>2, <2>4 DEF PreemptLte, Settled
<1> QED
  BY <1>1, <1>2 DEF ServiceNetworkPaths

LEMMA FallbackWired ==
  ASSUME Good(net), Wired(net), MaintainLteFallback
  PROVE  Settled
<1>1. CASE ReleaseLte
  <2>1. net.cmqtt => LanHasInternet(net)
    BY <1>1 DEF ReleaseLte, LanMqttOk, LanConnected, LanHasInternet, Wired
  <2>2. Wired(net')
    BY <1>1, StopWired DEF ReleaseLte, Good
  <2> QED
    BY <2>1, <2>2 DEF Settled, DropsLte
<1>2. Good(LanProbed(net, world)) /\ Wired(LanProbed(net, world))
      /\ LanProbed(net, world).cmqtt = net.cmqtt
  BY LanProbedGood, LanProbedWired DEF Calm
<1>3. CASE ProbeLan
  BY <1>2, <1>3, SameContext DEF ProbeLan, Wired
<1>4. CASE DialLte
  <2>1. PICK n \in {net, LanProbed(net, world)} : net' = [n EXCEPT !.lteData = TRUE]
    BY <1>4 DEF DialLte
  <2>2. n \in Nets /\ Wired(n)
    BY <1>2, <2>1 DEF Good
  <2>3. Wired(net') /\ net'.lteData
    BY <2>1, <2>2 DEF Nets, Wired
  <2> QED
    BY <2>3, SameContext
<1>5. CASE Skip("lte")
  BY <1>5, SameContext DEF Skip, Wired
<1> QED
  BY <1>1, <1>3, <1>4, <1>5 DEF MaintainLteFallback

LEMMA ConnectWired ==
  ASSUME Good(net), Alone(net), Wired(net), ConnectMqttIfNeeded
  PROVE  Settled
<1> DEFINE n == Prepared(net, world)
           lost   == [n EXCEPT !.mqtt = FALSE, !.session = "none"]
           failed == [n EXCEPT !.mqtt = FALSE]
           heard  == [n EXCEPT !.mqtt = TRUE]
           joined == [n EXCEPT !.mqtt = TRUE, !.cmqtt = TRUE]
           silent == [n EXCEPT !.mqtt = FALSE, !.cmqtt = FALSE]
           e == n.ethUp \/ n.eth
           w == n.wifiUp \/ ~n.eth
           made   == [n EXCEPT !.mqtt = TRUE, !.session = n.route, !.known = TRUE, !.lanFails = 0,
                               !.ethUp = e, !.wifiUp = w]
<1>1. Good(n) /\ Wired(n) /\ n.cmqtt = net.cmqtt
  BY PreparedGood, PreparedWired DEF Calm
<1>2. NoNetwork(n) \/ PumpCmqtt(n) \/ LoseCmqtt(n) \/ ConnectCmqtt(n)
      \/ PumpLan(n) \/ LoseLan(n) \/ ConnectLan(n) \/ AwaitReconnect(n)
  BY DEF ConnectMqttIfNeeded
<1> HIDE DEF n
<1>3. /\ lost \in Nets /\ Wired(lost) /\ lost.lteData = n.lteData
      /\ failed \in Nets /\ Wired(failed) /\ failed.lteData = n.lteData
      /\ (n.lteMqtt => Wired(joined)) /\ joined.lteData = n.lteData
      /\ Wired(heard) /\ heard.lteData = n.lteData
      /\ Wired(silent) /\ silent.lteData = n.lteData
  <2>1. n \in Nets
    BY <1>1 DEF Good
  <2> HIDE DEF made
  <2>2. lost \in Nets /\ Wired(lost) /\ lost.lteData = n.lteData
    BY <1>1, <2>1 DEF Nets, Routes, Lan, Wired
  <2>3. failed \in Nets /\ Wired(failed) /\ failed.lteData = n.lteData
    BY <1>1, <2>1 DEF Nets, Wired
  <2>4. (n.lteMqtt => Wired(joined)) /\ joined.lteData = n.lteData
    BY <1>1, <2>1 DEF Nets, Wired
  <2>5. Wired(heard) /\ heard.lteData = n.lteData
    BY <1>1, <2>1 DEF Nets, Wired
  <2>6. Wired(silent) /\ silent.lteData = n.lteData
    BY <1>1, <2>1 DEF Nets, Wired
  <2> QED
    BY <2>2, <2>3, <2>4, <2>5, <2>6
<1>4. CASE NoNetwork(n)
  BY <1>1, <1>4, SameContext DEF NoNetwork, Wired
<1>5. CASE PumpCmqtt(n) \/ PumpLan(n)
  BY <1>1, <1>3, <1>5, SameContext DEF PumpCmqtt, PumpLan, Wired
<1>6. CASE LoseCmqtt(n)
  BY <1>1, <1>3, <1>6, SameContext DEF LoseCmqtt, Wired
<1>7. CASE ConnectCmqtt(n)
  <2>1. ~net.cmqtt
    BY <1>1, <1>7 DEF ConnectCmqtt
  <2>2. Wired(StopLtePdp(failed))
    <3> HIDE DEF failed
    <3> QED
      BY <1>3, StopWired
  <2> QED
    BY <1>3, <1>7, <2>1, <2>2 DEF ConnectCmqtt, Settled, DropsLte
<1>8. CASE LoseLan(n)
  <2>1. Good(lost)
    BY <1>1, LostGood DEF Calm
  <2>2. Wired([lost EXCEPT !.eth = FALSE])
    BY <1>1, <1>3 DEF Nets, Wired
  <2>3. Wired(MarkEthernetDown(lost))
    <3> HIDE DEF lost
    <3> QED
      BY <1>3, <2>2, DownWired
  <2>4. MarkEthernetDown(lost).lteData = lost.lteData
    <3> HIDE DEF lost
    <3> QED
      BY <1>3 DEF MarkEthernetDown, RequestMqttBounce, ApplyPreferredRoute, Nets
  <2>5. Wired(net') /\ net'.lteData = n.lteData
    BY <1>3, <1>8, <2>3, <2>4 DEF LoseLan
  <2> QED
    BY <1>1, <2>5, SameContext DEF Wired
<1>9. CASE ConnectLan(n)
  <2>1. n.session = "none"
    BY <1>9 DEF ConnectLan
  <2>2. Good(failed)
    BY <1>1, <2>1 DEF Good, Nets, StaleBounced, RouteFollows, FailuresCounted, OffTheModem
  <2>3. Wired(NoteLanMqttFailure(failed))
    <3> HIDE DEF failed
    <3> QED
      BY <1>3, <2>2, NoteWired
  <2>4. NoteLanMqttFailure(failed).lteData = failed.lteData
    <3> HIDE DEF failed
    <3> QED
      BY <1>3 DEF NoteLanMqttFailure, MarkEthernetDown, RequestMqttBounce, ApplyPreferredRoute,
                  Nets
  <2>5. Wired(made) /\ made.lteData = n.lteData
    <3>1. n.eth => e
      OBVIOUS
    <3> HIDE DEF e, w
    <3> QED
      BY <1>1, <3>1 DEF Good, Nets, Wired
  <2>6. Wired(net') /\ net'.lteData = n.lteData
    BY <1>3, <1>9, <2>3, <2>4, <2>5 DEF ConnectLan
  <2> QED
    BY <1>1, <2>6, SameContext DEF Wired
<1>10. CASE AwaitReconnect(n)
  BY <1>1, <1>3, <1>10, SameContext DEF AwaitReconnect, Wired
<1> QED
  BY <1>2, <1>4, <1>5, <1>6, <1>7, <1>8, <1>9, <1>10

LEMMA PublishedWired ==
  ASSUME NEW n, Good(n), Wired(n), NEW w, NEW m \in Published(n, w)
  PROVE  Wired(m) /\ m.lteData = n.lteData
<1> DEFINE lost == [n EXCEPT !.mqtt = FALSE, !.session = "none"]
           sent == [n EXCEPT !.lanFails = 0]
           down == [n EXCEPT !.mqtt = FALSE]
<1>1. /\ Wired(lost) /\ lost.lteData = n.lteData /\ Wired(sent) /\ sent.lteData = n.lteData
      /\ Wired(down) /\ down.lteData = n.lteData
  BY DEF Good, Nets, Wired
<1>2. Good(lost)
  BY LostGood DEF Calm
<1>3. Wired(NoteLanMqttFailure(lost)) /\ NoteLanMqttFailure(lost).lteData = lost.lteData
  <2> HIDE DEF lost
  <2> QED
    BY <1>1, <1>2, NoteWired
       DEF NoteLanMqttFailure, MarkEthernetDown, RequestMqttBounce, ApplyPreferredRoute, Good, Nets
<1>4. m \in {n, sent, down, NoteLanMqttFailure(lost)}
  BY DEF Published
<1> HIDE DEF lost, sent, down
<1> QED
  BY <1>1, <1>3, <1>4

LEMMA FinishWired ==
  ASSUME Good(net), Wired(net), FinishPass
  PROVE  Settled
<1>1. CASE Report
  BY <1>1, PublishedWired, SameContext DEF Report, Wired
<1>2. CASE DropSilentSession
  <2>1. Wired(net') /\ net'.lteData = net.lteData
    BY <1>2 DEF DropSilentSession, Good, Nets, Wired
  <2> QED
    BY <2>1, SameContext DEF Wired
<1>3. CASE ReleaseDeadLte
  <2>1. Good(StopLtePdp(net)) /\ Wired(StopLtePdp(net))
    BY StopGood, StopWired DEF Good
  <2> QED
    BY <1>3, <2>1, PublishedWired DEF ReleaseDeadLte, Settled, DropsLte
<1>4. CASE SilenceRestart
  BY <1>4 DEF SilenceRestart, Silent, Settled, DropsLte, Started, Wired
<1>5. CASE Skip("report")
  BY <1>5, SameContext DEF Skip, Wired
<1> QED
  BY <1>1, <1>2, <1>3, <1>4, <1>5 DEF FinishPass

\* ConnectLan restores the credit of Ethernet, an event never touches the context
\* but for ModemReboots, and that one comes after the radio went away.
LEMMA EventWired ==
  ASSUME ~WifiConfigured, Good(net), Wired(net), Environment
  PROVE  Settled
<1>1. Wired([net EXCEPT !.eth = FALSE])
  BY DEF Good, Nets, Wired
<1>2. Wired(MarkEthernetDown(net)) /\ \A w : Wired(MarkEthernetUp(net, w))
  BY <1>1, DownWired, UpWired DEF Good
<1>3. /\ MarkEthernetDown(net).lteData = net.lteData
      /\ \A w : MarkEthernetUp(net, w).lteData = net.lteData
  BY DEF MarkEthernetUp, MarkEthernetDown, RequestMqttBounce, Probed, ApplyPreferredRoute,
         Good, Nets
<1>4. CASE CablePlugged \/ EthernetGotIp \/ CableUnplugged
  <2>1. Wired(net') /\ net'.lteData = net.lteData
    BY <1>2, <1>3, <1>4 DEF CablePlugged, EthernetGotIp, CableUnplugged
  <2> QED
    BY <2>1, SameContext DEF Wired
<1>5. CASE LeaseExpires \/ UplinkChanges \/ GraceEnds \/ GraceReturns
  BY <1>5, SameContext DEF LeaseExpires, UplinkChanges, GraceEnds, GraceReturns, Wired
<1>6. ~(WifiGotIp \/ WifiForgotten \/ WifiDisconnected)
  BY DEF WifiGotIp, WifiForgotten, WifiDisconnected, Wired
<1>7. CASE SessionReset \/ HoldoffEnds \/ HoldoffWraps
  <2>1. Wired(net') /\ net'.lteData = net.lteData
    BY <1>7 DEF SessionReset, HoldoffEnds, HoldoffWraps, Good, Nets, Wired
  <2> QED
    BY <2>1, SameContext DEF Wired
<1>8. CASE ModemReboots
  BY <1>8, StopWired DEF ModemReboots, Settled, DropsLte, Good
<1> QED
  BY <1>4, <1>5, <1>6, <1>7, <1>8 DEF Environment

LEMMA StepWired ==
  ASSUME ~WifiConfigured, Inv, Wired(net), [Next]_vars
  PROVE  Settled
<1>1. Good(net)
  BY DEF Inv
<1>2. CASE ResolveBroker
  <2>1. Wired(net') /\ net'.lteData = net.lteData
    BY <1>1, <1>2 DEF ResolveBroker, Good, Nets, Wired
  <2> QED
    BY <2>1, SameContext DEF Wired
<1>3. CASE PollEthernetPath
  BY <1>1, <1>3, PollEthernetWired, SameContext DEF Wired
<1>4. CASE PollWifiPath \/ Skip("resolve") \/ UNCHANGED vars
  BY <1>4, SameContext DEF PollWifiPath, ProbeWifi, Skip, Wired, vars
<1>5. CASE ServiceNetworkPaths
  BY <1>1, <1>5, ServiceWired
<1>6. CASE MaintainLteFallback
  BY <1>1, <1>6, FallbackWired
<1>7. CASE ConnectMqttIfNeeded
  BY <1>1, <1>7, ConnectWired DEF ConnectMqttIfNeeded, Step, Inv
<1>8. CASE FinishPass
  BY <1>1, <1>8, FinishWired
<1>9. CASE Environment
  BY <1>1, <1>9, EventWired
<1> QED
  BY <1>2, <1>3, <1>4, <1>5, <1>6, <1>7, <1>8, <1>9 DEF Next, Loop

\* On a site without WiFi, before 25 days of uptime, a socket over the LAN and MQTT on
\* the modem are never held together, whatever the broker, the cable and the leases do.
THEOREM OneSessionHolds ==
  ~WifiConfigured /\ "uptime" \notin Losses => (Spec => []OneSession)
<1> SUFFICES ASSUME ~WifiConfigured, Young
             PROVE  Spec => []OneSession
  BY DEF Young
<1>1. Init => Wired(net)
  BY DEF Init, Started, Wired
<1>2. Inv /\ Wired(net) /\ [Next]_vars => Wired(net)'
  BY StepWired DEF Settled, Wired
<1>3. Inv /\ Wired(net) => OneSession
  BY DEF Inv, Good, Nets, Routes, Lan, OffTheModem, Wired, OneSession
<1> QED
  BY <1>1, <1>2, <1>3, InitInv, StepInv, PTL DEF Spec

\* On a site without WiFi a working session over LTE is only given up for an Ethernet
\* that is trusted to reach the broker, however long the device has been up.
THEOREM LteKeptHolds == ~WifiConfigured => (Spec => LteKept)
<1> SUFFICES ASSUME ~WifiConfigured
             PROVE  Spec => LteKept
  OBVIOUS
<1>1. Init => Wired(net)
  BY DEF Init, Started, Wired
<1>2. Inv /\ Wired(net) /\ [Next]_vars => Wired(net)'
  BY StepWired DEF Settled, Wired
<1>3. Inv /\ Wired(net) /\ [Next]_vars => [DropsLte => LanHasInternet(net)]_vars
  BY StepWired DEF Settled
<1> QED
  BY <1>1, <1>2, <1>3, InitInv, StepInv, PTL DEF Spec, LteKept
===============================================================================
