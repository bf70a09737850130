----------------------------- MODULE PresenceProofs -----------------------------
(***************************************************************************)
(* Theorems about Presence for all times, intervals and bounds.            *)
(*                                                                         *)
(* What the panel says follows from two facts that each step keeps. While  *)
(* a device is in a session and the worker is up, the last message on its  *)
(* way is the device's own, or the row already says what it said (Told): a *)
(* will only comes before it; and a worker that restarts after it may be   *)
(* sent an old will, but cannot forget when the device was seen. And once  *)
(* a session is over no sign of life is younger than the moment the broker *)
(* gave it up, unless it retains "online" (Fades).                         *)
(***************************************************************************)
EXTENDS Presence, TLAPS

Signs == {Message(kind, n) : kind \in {"telemetry", "online"}, n \in Networks}
Messages == Signs \cup {Will}

Latest(s) == s[Len(s)]

OnlyWills(s) == \A i \in 1..Len(s) : s[i] = Will

LEMMA Empty ==
  ASSUME NEW s \in Seq(Messages)
  PROVE  s = <<>> <=> Len(s) = 0
OBVIOUS

\* What comes after a sequence of messages.
LEMMA AppendLatest ==
  ASSUME NEW s \in Seq(Messages), NEW t \in Seq(Messages), t # <<>>
  PROVE  /\ s \o t \in Seq(Messages) /\ s \o t # <<>>
         /\ Latest(s \o t) = Latest(t)
<1>1. Len(s) \in Nat /\ Len(t) \in Nat /\ Len(t) > 0
  OBVIOUS
<1>2. Len(s \o t) = Len(s) + Len(t)
  OBVIOUS
<1>3. (s \o t)[Len(s) + Len(t)] = t[Len(t)]
  BY <1>1
<1> QED
  BY <1>1, <1>2, <1>3 DEF Latest

LEMMA TailLatest ==
  ASSUME NEW s \in Seq(Messages), s # <<>>
  PROVE  /\ Tail(s) \in Seq(Messages) /\ Head(s) \in Messages
         /\ Tail(s) # <<>> => Latest(Tail(s)) = Latest(s)
         /\ Tail(s) = <<>> => Latest(s) = Head(s)
         /\ OnlyWills(s) => OnlyWills(Tail(s))
<1>1. Len(s) \in Nat /\ Len(s) > 0 /\ Len(Tail(s)) = Len(s) - 1
  OBVIOUS
<1>2. Tail(s) \in Seq(Messages) /\ Head(s) \in Messages /\ Head(s) = s[1]
  OBVIOUS
<1>3. \A i \in 1..Len(s) - 1 : Tail(s)[i] = s[i + 1] /\ i + 1 \in 1..Len(s)
  BY <1>1
<1>4. Tail(s) # <<>> => Latest(Tail(s)) = Latest(s)
  <2> SUFFICES ASSUME Tail(s) # <<>> PROVE Latest(Tail(s)) = Latest(s)
    OBVIOUS
  <2>1. Len(s) - 1 \in 1..Len(s) - 1
    BY <1>1, <1>2
  <2> QED
    BY <1>1, <1>3, <2>1 DEF Latest
<1>5. Tail(s) = <<>> => Latest(s) = Head(s)
  <2> SUFFICES ASSUME Tail(s) = <<>> PROVE Latest(s) = Head(s)
    OBVIOUS
  <2>1. Len(Tail(s)) = 0
    BY <1>2, Empty
  <2>2. Len(s) = 1
    BY <1>1, <2>1
  <2> QED
    BY <1>2, <2>2 DEF Latest
<1>6. OnlyWills(s) => OnlyWills(Tail(s))
  BY <1>1, <1>3 DEF OnlyWills
<1> QED
  BY <1>2, <1>4, <1>5, <1>6

-----------------------------------------------------------------------------
(* The inductive invariant *)

Shapes ==
  /\ inbox \in Seq(Messages)
  /\ broker \in [retained : {NoMessage, Will} \cup {Message("online", n) : n \in Networks},
                 ended : Paths \cup {"none"}, since : 0..clock]
  /\ row.archived <=> row.status = "archived"
  /\ row.status = "none" => row.seen = Never

\* A session the broker still keeps ended when the device left, not long ago.
Given ==
  broker.ended # "none" =>
    /\ device.session = "none"
    /\ device.left # Never /\ device.left = broker.since
    /\ clock <= broker.since + KeepAlive

\* The device is not late, and what it said last is of its session.
Begun ==
  device.session # "none" =>
    /\ device.last # Never /\ clock <= device.last + Interval
    /\ device.said = Network(device.session, device.said.links)
    /\ device.session = "lte" => device.said.links.lte

SeenSince == row.seen = Never \/ row.seen >= device.last

Shown ==
  row.status \in {"none", "new", "archived"} \/ (row.status = "online" /\ row.network = device.said)

Told ==
  device.session # "none" =>
    /\ worker = "up" => IF inbox # <<>>
                          THEN Latest(inbox) \in Signs /\ Latest(inbox).network = device.said
                          ELSE SeenSince /\ Shown
    /\ worker = "restarted" => SeenSince

Fades ==
  device.session = "none" /\ broker.retained.kind # "online" =>
    /\ row.seen # Never => device.left # Never /\ row.seen <= device.left + KeepAlive
    /\ OnlyWills(inbox) \/ (device.left # Never /\ clock <= device.left + KeepAlive)

Inv == TypeOK /\ Shapes /\ Given /\ Begun /\ Told /\ Fades

\* The bounds as the provers use them.
LEMMA Times ==
  /\ AutoProvision \in BOOLEAN
  /\ LiveSeconds \in Nat /\ OfflineSeconds \in Nat /\ Interval \in Nat /\ KeepAlive \in Nat
  /\ MaxTime \in Nat /\ MaxMishaps \in Nat /\ MaxInbox \in Nat
  /\ Interval < LiveSeconds /\ OfflineSeconds <= LiveSeconds
  /\ Links \subseteq InterfaceStates
BY PresenceAssumption

\* What a device may say of its network.
LEMMA NetworkSaid ==
  ASSUME NEW path \in Paths, NEW l \in InterfaceStates
  PROVE  /\ Network(path, l) \in Networks /\ Network(path, l).links = l
         /\ Network(path, l) = Network(path, Network(path, l).links)
<1>1. activeNetworkName(path, l) \in {"ethernet", "wifi", "lte", "none"}
  BY DEF activeNetworkName
<1>2. Network(path, l) = [active |-> activeNetworkName(path, l), links |-> l]
  BY DEF Network
<1> QED
  BY <1>1, <1>2 DEF Networks

LEMMA CreditedState ==
  ASSUME NEW l \in InterfaceStates
  PROVE  Credited(l) \in InterfaceStates
BY DEF Credited, InterfaceStates

LEMMA NoNetworkIsOne == NoNetwork \in Networks
BY DEF NoNetwork, NoLinks, Networks, InterfaceStates

\* The messages, and what tells them apart.
LEMMA Kinds ==
  /\ Will \in Messages /\ Will \notin Signs /\ Will.kind = "offline"
  /\ NoMessage.kind = "none"
  /\ \A n \in Networks : \A kind \in {"telemetry", "online"} :
       /\ Message(kind, n) \in Signs /\ Message(kind, n) \in Messages
       /\ Message(kind, n).network = n /\ Message(kind, n).kind = kind
  /\ \A m \in Messages : m # Will => m \in Signs /\ m.network \in Networks
<1>1. \A n \in Networks : \A kind \in {"telemetry", "online"} :
        /\ Message(kind, n) \in Signs /\ Message(kind, n) \in Messages
        /\ Message(kind, n).network = n /\ Message(kind, n).kind = kind
  BY DEF Messages, Signs, Message
<1>2. Will \in Messages /\ Will.kind = "offline" /\ NoMessage.kind = "none"
  BY DEF Messages, Will, NoMessage, Message
<1>3. \A m \in Signs : m.kind # "offline" /\ m.network \in Networks
  BY DEF Signs, Message
<1>4. \A m \in Messages : m # Will => m \in Signs
  BY DEF Messages
<1> QED
  BY <1>1, <1>2, <1>3, <1>4

\* A message after others is the latest.
LEMMA SentLatest ==
  ASSUME NEW s \in Seq(Messages), NEW w \in Seq(Messages), NEW n \in Messages
  PROVE  /\ s \o <<n>> \in Seq(Messages) /\ s \o <<n>> # <<>> /\ Latest(s \o <<n>>) = n
         /\ s \o (w \o <<n>>) \in Seq(Messages) /\ s \o (w \o <<n>>) # <<>>
         /\ Latest(s \o (w \o <<n>>)) = n
<1>1. <<n>> \in Seq(Messages) /\ <<n>> # <<>> /\ Latest(<<n>>) = n
  BY DEF Latest
<1>2. s \o <<n>> \in Seq(Messages) /\ s \o <<n>> # <<>> /\ Latest(s \o <<n>>) = n
  BY <1>1, AppendLatest
<1>3. w \o <<n>> \in Seq(Messages) /\ w \o <<n>> # <<>> /\ Latest(w \o <<n>>) = n
  BY <1>1, AppendLatest
<1>4. /\ s \o (w \o <<n>>) \in Seq(Messages) /\ s \o (w \o <<n>>) # <<>>
      /\ Latest(s \o (w \o <<n>>)) = n
  BY <1>3, AppendLatest
<1> QED
  BY <1>2, <1>4

\* What a message leaves in the row.
LEMMA PersistedRow ==
  ASSUME TypeOK, Shapes, NEW m \in Messages
  PROVE  LET r == Persisted(row, m) IN
         /\ r \in [status : {"none", "new", "online", "offline", "archived"}, seen : {Never} \cup 0..clock,
                   archived : BOOLEAN, network : Networks]
         /\ r.archived <=> r.status = "archived"
         /\ r.status = "none" => r.seen = Never
         /\ r.seen = row.seen \/ (m # Will /\ r.seen = clock)
         /\ m # Will =>
              \/ r.status = "none" /\ r.seen = Never
              \/ r.status = "archived" /\ r.seen = clock
              \/ r.status = "online" /\ r.network = m.network /\ r.seen = clock
<1> DEFINE Rows == [status : {"none", "new", "online", "offline", "archived"}, seen : {Never} \cup 0..clock,
                    archived : BOOLEAN, network : Networks]
<1> DEFINE seen == IF m = Will THEN row ELSE [row EXCEPT !.seen = clock]
<1>1. row \in Rows /\ clock \in Nat /\ clock \in 0..clock
  BY Times DEF TypeOK
<1>2. /\ seen \in Rows /\ seen.archived = row.archived /\ seen.status = row.status /\ seen.network = row.network
      /\ seen.seen = IF m = Will THEN row.seen ELSE clock
  BY <1>1
<1>3. m # Will => m.network \in Networks
  BY Kinds
<1>4. CASE ~get_or_create_device(row)
  <2>1. Persisted(row, m) = row
    BY <1>4 DEF Persisted
  <2>2. row.status = "none" /\ row.seen = Never
    BY <1>4 DEF get_or_create_device, NoRow
  <2> QED
    BY <1>1, <2>1, <2>2 DEF Shapes
<1>5. CASE get_or_create_device(row) /\ row.archived
  <2>1. Persisted(row, m) = seen
    BY <1>5 DEF Persisted
  <2>2. row.status = "archived"
    BY <1>5 DEF Shapes
  <2> HIDE DEF seen
  <2> QED
    BY <1>2, <1>5, <2>1, <2>2
<1>6. CASE get_or_create_device(row) /\ ~row.archived
  <2> DEFINE st == [seen EXCEPT !.status = IF m = Will THEN "offline" ELSE "online"]
  <2>1. Persisted(row, m) = store_network_status(st, m)
    BY <1>6 DEF Persisted
  <2>11. seen \in Rows
    BY <1>2
  <2> HIDE DEF seen
  <2>2. st \in Rows /\ st.archived = FALSE /\ st.status = (IF m = Will THEN "offline" ELSE "online") /\ st.seen = seen.seen
    BY <1>2, <1>6
  <2> HIDE DEF st
  <2>3. CASE m = Will
    <3>1. Persisted(row, m) = st
      BY <2>1, <2>3 DEF store_network_status
    <3> QED
      BY <1>2, <2>2, <2>3, <3>1
  <2>4. CASE m # Will
    <3>1. Persisted(row, m) = [st EXCEPT !.network = m.network]
      BY <2>1, <2>4 DEF store_network_status
    <3> QED
      BY <1>2, <1>3, <2>2, <2>4, <3>1
  <2> QED
    BY <2>3, <2>4
<1> QED
  BY <1>4, <1>5, <1>6

-----------------------------------------------------------------------------
(* The steps of the device and the broker *)

LEMMA ConnectKeeps ==
  ASSUME Inv, NEW path \in Paths, Connect(path)
  PROVE  Inv'
<1> USE DEF Inv
<1>0. PICK l \in Links :
        LET network == Network(path, IF path = "lte" THEN l ELSE Credited(l)) IN
        /\ MayConnect(path, l)
        /\ device' = [device EXCEPT !.session = path, !.last = clock, !.said = network]
        /\ \/ /\ broker' = [retained |-> Message("online", network), ended |-> "none", since |-> 0]
              /\ Deliver(WillSent \o <<Message("online", network), Message("telemetry", network)>>)
              /\ UNCHANGED mishaps
           \/ /\ Mishap
              /\ broker' = [retained |-> Bereaved, ended |-> "none", since |-> 0]
              /\ Deliver(WillSent \o <<Message("telemetry", network)>>)
  BY DEF Connect
<1> DEFINE links == IF path = "lte" THEN l ELSE Credited(l)
           network == Network(path, links)
           online == Message("online", network)
           frame == Message("telemetry", network)
<1>01. /\ network \in Networks /\ network = Network(path, network.links)
       /\ path = "lte" => network.links.lte
  <2>1. l \in InterfaceStates
    BY Times
  <2>2. links \in InterfaceStates
    BY <2>1, CreditedState
  <2>3. path = "lte" => links.lte
    BY <1>0 DEF MayConnect
  <2> HIDE DEF links
  <2> QED
    BY <2>2, <2>3, NetworkSaid
<1>02. /\ device' = [device EXCEPT !.session = path, !.last = clock, !.said = network]
       /\ \/ /\ broker' = [retained |-> online, ended |-> "none", since |-> 0]
             /\ Deliver(WillSent \o <<online, frame>>)
             /\ UNCHANGED mishaps
          \/ /\ Mishap
             /\ broker' = [retained |-> Bereaved, ended |-> "none", since |-> 0]
             /\ Deliver(WillSent \o <<frame>>)
  BY <1>0
<1> HIDE DEF links, network
<1>1. /\ device.session = "none"
      /\ clock' = clock /\ row' = row /\ worker' = "up"
      /\ broker'.ended = "none" /\ broker'.since = 0
  BY <1>02 DEF Connect
<1>2. mishaps' \in 0..MaxMishaps
  <2>1. mishaps \in 0..MaxMishaps /\ MaxMishaps \in Nat
    BY Times DEF TypeOK
  <2> QED
    BY <1>02, <2>1 DEF Mishap
<1>3. /\ broker'.retained \in {NoMessage, Will} \cup {Message("online", n) : n \in Networks}
      /\ broker' = [retained |-> broker'.retained, ended |-> "none", since |-> 0]
  <2>1. Bereaved \in {NoMessage, Will} \cup {Message("online", n) : n \in Networks}
    BY DEF Shapes, Bereaved
  <2> QED
    BY <1>01, <1>02, <2>1
<1>4. inbox' \in Seq(Messages) /\ inbox' # <<>> /\ Latest(inbox') = frame
  <2>1. WillSent \in Seq(Messages)
    BY Kinds DEF WillSent
  <2>2. online \in Messages /\ frame \in Messages
    BY <1>01, Kinds
  <2>3. inbox' = inbox \o (WillSent \o <<online, frame>>) \/ inbox' = inbox \o (WillSent \o <<frame>>)
    BY <1>02 DEF Deliver
  <2>4. inbox \in Seq(Messages)
    BY DEF Shapes
  <2> HIDE DEF online, frame
  <2>5. inbox \o (WillSent \o <<online, frame>>) \in Seq(Messages)
          /\ inbox \o (WillSent \o <<online, frame>>) # <<>>
          /\ Latest(inbox \o (WillSent \o <<online, frame>>)) = frame
    <3>1. <<online, frame>> \in Seq(Messages) /\ <<online, frame>> # <<>> /\ Latest(<<online, frame>>) = frame
      BY <2>2 DEF Latest
    <3>2. /\ WillSent \o <<online, frame>> \in Seq(Messages) /\ WillSent \o <<online, frame>> # <<>>
          /\ Latest(WillSent \o <<online, frame>>) = frame
      BY <2>1, <3>1, AppendLatest
    <3> QED
      BY <2>4, <3>2, AppendLatest
  <2>6. inbox \o (WillSent \o <<frame>>) \in Seq(Messages) /\ inbox \o (WillSent \o <<frame>>) # <<>>
          /\ Latest(inbox \o (WillSent \o <<frame>>)) = frame
    BY <2>1, <2>2, <2>4, SentLatest
  <2> QED
    BY <2>3, <2>5, <2>6
<1>5. clock \in Nat /\ clock \in 0..clock /\ 0 \in 0..clock
  BY Times DEF TypeOK
<1>6. /\ device'.session = path /\ device'.last = clock /\ device'.left = device.left
      /\ device'.said = network
      /\ device' \in [powered : BOOLEAN, session : Paths \cup {"none"}, last : {Never} \cup 0..clock,
                      said : Networks, left : {Never} \cup 0..clock]
  BY <1>01, <1>02, <1>5 DEF TypeOK
<1>7. path # "none"
  BY DEF Paths
<1>8. TypeOK'
  BY <1>1, <1>2, <1>3, <1>5, <1>6, Kinds DEF TypeOK
<1>9. Shapes'
  BY <1>1, <1>3, <1>4, <1>5 DEF Shapes
<1>10. Given'
  BY <1>1 DEF Given
<1>11. Begun'
  BY <1>01, <1>1, <1>5, <1>6, Times DEF Begun, Never
<1>12. Told'
  <2>1. frame \in Signs /\ frame.network = network
    BY <1>01, Kinds
  <2> QED
    BY <1>1, <1>4, <1>6, <2>1 DEF Told
<1>13. Fades'
  BY <1>6, <1>7 DEF Fades
<1> QED
  BY <1>8, <1>9, <1>10, <1>11, <1>12, <1>13

LEMMA PublishKeeps ==
  ASSUME Inv, NEW kind \in {"telemetry", "online"}, Publish(kind)
  PROVE  Inv'
<1> USE DEF Inv
<1>0. PICK l \in Links :
        LET network == Network(device.session, l) IN
        /\ device.session = "lte" => l.lte
        /\ device' = [device EXCEPT !.last = clock, !.said = network]
        /\ Deliver(<<Message(kind, network)>>)
        /\ broker' = IF kind = "online" THEN [broker EXCEPT !.retained = Message(kind, network)]
                     ELSE broker
  BY DEF Publish
<1> DEFINE network == Network(device.session, l)
           m == Message(kind, network)
<1>1. /\ device.session # "none" /\ worker' = "up"
      /\ clock' = clock /\ row' = row /\ mishaps' = mishaps
  BY DEF Publish
<1>2. device.session \in Paths
  BY <1>1 DEF TypeOK
<1>3. /\ network \in Networks /\ network = Network(device.session, network.links)
      /\ device.session = "lte" => network.links.lte
  <2>1. l \in InterfaceStates
    BY Times
  <2> QED
    BY <1>0, <1>2, <2>1, NetworkSaid
<1>4. /\ device' = [device EXCEPT !.last = clock, !.said = network]
      /\ inbox' = inbox \o <<m>>
      /\ broker' = IF kind = "online" THEN [broker EXCEPT !.retained = m] ELSE broker
  BY <1>0 DEF Deliver
<1> HIDE DEF network
<1>5. m \in Messages /\ m \in Signs /\ m.network = network
  BY <1>3, Kinds
<1>6. inbox' \in Seq(Messages) /\ inbox' # <<>> /\ Latest(inbox') = m
  <2> HIDE DEF m
  <2> QED
    BY <1>4, <1>5, SentLatest DEF Shapes
<1>7. clock \in Nat /\ clock \in 0..clock
  BY Times DEF TypeOK
<1>8. /\ device'.session = device.session /\ device'.last = clock /\ device'.left = device.left
      /\ device'.said = network
      /\ device' \in [powered : BOOLEAN, session : Paths \cup {"none"}, last : {Never} \cup 0..clock,
                      said : Networks, left : {Never} \cup 0..clock]
  BY <1>3, <1>4, <1>7 DEF TypeOK
<1>9. /\ broker' \in [retained : {NoMessage, Will} \cup {Message("online", n) : n \in Networks},
                      ended : Paths \cup {"none"}, since : 0..clock]
      /\ broker'.ended = broker.ended /\ broker'.since = broker.since
  <2>1. kind = "online" => m \in {Message("online", n) : n \in Networks}
    BY <1>3
  <2> HIDE DEF m
  <2> QED
    BY <1>4, <2>1 DEF Shapes
<1>10. TypeOK'
  <2>1. broker'.retained.kind \in {"none", "online", "offline"}
    BY <1>9, Kinds
  <2> QED
    BY <1>1, <1>8, <1>9, <2>1 DEF TypeOK
<1>11. Shapes'
  BY <1>1, <1>6, <1>9 DEF Shapes
<1>12. Given'
  BY <1>1, <1>9 DEF Given
<1>13. Begun'
  BY <1>1, <1>3, <1>7, <1>8, Times DEF Begun, Never
<1>14. Told'
  BY <1>1, <1>5, <1>6, <1>8 DEF Told
<1>15. Fades'
  BY <1>1, <1>8 DEF Fades
<1> QED
  BY <1>10, <1>11, <1>12, <1>13, <1>14, <1>15

LEMMA DisconnectKeeps ==
  ASSUME Inv, Disconnect
  PROVE  Inv'
<1> USE DEF Inv
<1>1. /\ device.session # "none" /\ UNCHANGED <<clock, broker, inbox, row, worker, mishaps>>
      /\ device' = [device EXCEPT !.session = "none", !.left = clock]
  BY DEF Disconnect
<1>2. clock \in Nat /\ clock \in 0..clock
  BY Times DEF TypeOK
<1>3. /\ device'.session = "none" /\ device'.left = clock
      /\ device' \in [powered : BOOLEAN, session : Paths \cup {"none"}, last : {Never} \cup 0..clock,
                      said : Networks, left : {Never} \cup 0..clock]
  BY <1>1, <1>2 DEF TypeOK
<1>4. TypeOK'
  BY <1>1, <1>3 DEF TypeOK
<1>5. Shapes'
  BY <1>1 DEF Shapes
<1>6. Given' /\ Begun' /\ Told'
  BY <1>1, <1>3 DEF Given, Begun, Told
<1>7. Fades'
  BY <1>1, <1>2, <1>3, Times DEF Fades, Never, TypeOK
<1> QED
  BY <1>4, <1>5, <1>6, <1>7

LEMMA LoseKeeps ==
  ASSUME Inv, NEW powered \in BOOLEAN, Lose(powered)
  PROVE  Inv'
<1> USE DEF Inv
<1>1. /\ UNCHANGED <<clock, inbox, row, worker, mishaps>>
      /\ device' = [device EXCEPT !.session = "none", !.powered = powered,
                                  !.left = IF device.session = "none" THEN @ ELSE clock]
      /\ broker' = IF device.session = "none" THEN broker
                   ELSE [broker EXCEPT !.ended = device.session, !.since = clock]
  BY DEF Lose
<1>2. clock \in Nat /\ clock \in 0..clock
  BY Times DEF TypeOK
<1>3. /\ device'.session = "none" /\ device'.left = IF device.session = "none" THEN device.left ELSE clock
      /\ device' \in [powered : BOOLEAN, session : Paths \cup {"none"}, last : {Never} \cup 0..clock,
                      said : Networks, left : {Never} \cup 0..clock]
  BY <1>1, <1>2 DEF TypeOK
<1>4. /\ broker' \in [retained : {NoMessage, Will} \cup {Message("online", n) : n \in Networks},
                      ended : Paths \cup {"none"}, since : 0..clock]
      /\ broker'.retained = broker.retained
      /\ device.session # "none" => broker'.since = clock
  BY <1>1, <1>2 DEF Shapes, TypeOK
<1>5. TypeOK'
  BY <1>1, <1>3, <1>4 DEF TypeOK
<1>6. Shapes'
  BY <1>1, <1>4 DEF Shapes
<1>7. Given'
  BY <1>1, <1>2, <1>3, <1>4, Times DEF Given, Never
<1>8. Begun' /\ Told'
  BY <1>3 DEF Begun, Told
<1>9. Fades'
  BY <1>1, <1>2, <1>3, <1>4, Times DEF Fades, Never, TypeOK
<1> QED
  BY <1>5, <1>6, <1>7, <1>8, <1>9

LEMMA PowerOnKeeps ==
  ASSUME Inv, PowerOn
  PROVE  Inv'
<1> USE DEF Inv
<1>1. /\ UNCHANGED <<clock, broker, inbox, row, worker, mishaps>>
      /\ device' = [device EXCEPT !.powered = TRUE]
  BY DEF PowerOn
<1>2. /\ device'.session = device.session /\ device'.left = device.left /\ device'.last = device.last
      /\ device'.said = device.said
      /\ device' \in [powered : BOOLEAN, session : Paths \cup {"none"}, last : {Never} \cup 0..clock,
                      said : Networks, left : {Never} \cup 0..clock]
  BY <1>1 DEF TypeOK
<1>3. TypeOK' /\ Shapes'
  BY <1>1, <1>2 DEF TypeOK, Shapes
<1>4. Given' /\ Begun'
  BY <1>1, <1>2 DEF Given, Begun
<1>5. Told' /\ Fades'
  BY <1>1, <1>2 DEF Told, Fades, SeenSince, Shown
<1> QED
  BY <1>3, <1>4, <1>5

LEMMA WillFiresKeeps ==
  ASSUME Inv, WillFires
  PROVE  Inv'
<1> USE DEF Inv
<1>1. /\ broker.ended # "none" /\ UNCHANGED <<clock, device, row, worker, mishaps>>
      /\ broker' = [broker EXCEPT !.retained = Bereaved, !.ended = "none", !.since = 0]
      /\ inbox' = inbox \o <<Will>>
  BY DEF WillFires, Deliver, WillSent
<1>2. device.session = "none" /\ device.left # Never /\ clock <= device.left + KeepAlive
  BY <1>1 DEF Given
<1>3. Bereaved \in {NoMessage, Will} \cup {Message("online", n) : n \in Networks}
  BY DEF Bereaved, Shapes
<1>4. 0 \in 0..clock
  BY Times DEF TypeOK
<1>5. /\ broker' \in [retained : {NoMessage, Will} \cup {Message("online", n) : n \in Networks},
                      ended : Paths \cup {"none"}, since : 0..clock]
      /\ broker'.retained = Bereaved /\ broker'.ended = "none"
  BY <1>1, <1>3, <1>4 DEF Shapes
<1>6. inbox' \in Seq(Messages)
  BY <1>1, Kinds, SentLatest DEF Shapes
<1>7. TypeOK'
  <2>1. broker'.retained.kind \in {"none", "online", "offline"}
    BY <1>3, <1>5, Kinds
  <2> QED
    BY <1>1, <1>5, <2>1 DEF TypeOK
<1>8. Shapes'
  BY <1>1, <1>5, <1>6 DEF Shapes
<1>9. Given' /\ Begun' /\ Told'
  BY <1>1, <1>2, <1>5 DEF Given, Begun, Told
<1>10. Fades'
  BY <1>1, <1>2, Times DEF Fades, TypeOK, Never
<1> QED
  BY <1>7, <1>8, <1>9, <1>10

-----------------------------------------------------------------------------
(* The steps of the worker and the panel *)

LEMMA HandleKeeps ==
  ASSUME Inv, Handle
  PROVE  Inv'
<1> USE DEF Inv
<1> DEFINE m == Head(inbox)
<1>1. /\ inbox # <<>> /\ UNCHANGED <<clock, device, broker, worker, mishaps>>
      /\ row' = Persisted(row, m) /\ inbox' = Tail(inbox)
  BY DEF Handle
<1>2. /\ inbox' \in Seq(Messages) /\ m \in Messages
      /\ inbox' # <<>> => Latest(inbox') = Latest(inbox)
      /\ inbox' = <<>> => Latest(inbox) = m
      /\ OnlyWills(inbox) => OnlyWills(inbox')
  BY <1>1, TailLatest DEF Shapes
<1>3. OnlyWills(inbox) => m = Will
  <2>1. inbox \in Seq(Messages)
    BY DEF Shapes
  <2>2. Len(inbox) \in Nat /\ Len(inbox) # 0 /\ Head(inbox) = inbox[1]
    BY <1>1, <2>1, Empty
  <2> QED
    BY <2>2 DEF OnlyWills
<1> HIDE DEF m
<1>4. /\ row' \in [status : {"none", "new", "online", "offline", "archived"}, seen : {Never} \cup 0..clock,
                   archived : BOOLEAN, network : Networks]
      /\ row'.archived <=> row'.status = "archived"
      /\ row'.status = "none" => row'.seen = Never
      /\ row'.seen = row.seen \/ (m # Will /\ row'.seen = clock)
      /\ m # Will =>
           \/ row'.status = "none" /\ row'.seen = Never
           \/ row'.status = "archived" /\ row'.seen = clock
           \/ row'.status = "online" /\ row'.network = m.network /\ row'.seen = clock
  BY <1>1, <1>2, PersistedRow
<1>5. TypeOK'
  BY <1>1, <1>4 DEF TypeOK
<1>6. Shapes'
  BY <1>1, <1>2, <1>4 DEF Shapes
<1>7. Given' /\ Begun'
  BY <1>1 DEF Given, Begun
<1>8. Told'
  <2> SUFFICES ASSUME device.session # "none"
               PROVE  /\ worker = "up" => IF inbox' # <<>>
                           THEN Latest(inbox') \in Signs /\ Latest(inbox').network = device.said
                           ELSE SeenSince' /\ Shown'
                      /\ worker = "restarted" => SeenSince'
    BY <1>1 DEF Told
  <2>1. clock \in Nat /\ device.last \in Int /\ clock >= device.last /\ clock # Never
    BY Times DEF TypeOK, Never
  <2>2. SeenSince => SeenSince'
    BY <1>1, <1>4, <2>1 DEF SeenSince
  <2>3. ASSUME worker = "up", inbox' = <<>> PROVE SeenSince' /\ Shown'
    <3>1. Latest(inbox) \in Signs /\ Latest(inbox).network = device.said
      BY <1>1, <2>3 DEF Told
    <3>2. m # Will /\ m.network = device.said
      BY <1>2, <2>3, <3>1, Kinds
    <3> QED
      BY <1>1, <1>4, <2>1, <3>2 DEF SeenSince, Shown
  <2>4. ASSUME worker = "up", inbox' # <<>>
        PROVE  Latest(inbox') \in Signs /\ Latest(inbox').network = device.said
    BY <1>1, <1>2, <2>4 DEF Told
  <2>5. worker = "restarted" => SeenSince
    BY DEF Told
  <2> QED
    BY <2>2, <2>3, <2>4, <2>5
<1>9. Fades'
  BY <1>1, <1>2, <1>3, <1>4 DEF Fades
<1> QED
  BY <1>5, <1>6, <1>7, <1>8, <1>9

LEMMA RestartWorkerKeeps ==
  ASSUME Inv, RestartWorker
  PROVE  Inv'
<1> USE DEF Inv
<1>1. /\ mishaps < MaxMishaps /\ mishaps' = mishaps + 1 /\ UNCHANGED <<clock, device, broker, row>>
      /\ worker' = IF worker = "up" THEN (IF inbox = <<>> THEN "restarted" ELSE "missed") ELSE worker
      /\ inbox' = IF broker.retained = NoMessage THEN <<>> ELSE <<broker.retained>>
  BY DEF RestartWorker, Mishap
<1>2. mishaps \in Nat /\ mishaps' \in 0..MaxMishaps
  BY <1>1, Times DEF TypeOK
<1>3. broker.retained = NoMessage \/ broker.retained = Will
        \/ \E n \in Networks : broker.retained = Message("online", n)
  BY DEF Shapes
<1>4. inbox' = <<>> \/ (inbox' = <<broker.retained>> /\ broker.retained \in Messages)
  BY <1>1, <1>3, Kinds
<1>5. TypeOK'
  BY <1>1, <1>2 DEF TypeOK
<1>6. Shapes'
  BY <1>1, <1>4 DEF Shapes
<1>7. Given' /\ Begun'
  BY <1>1, <1>2 DEF Given, Begun
<1>8. Told'
  <2> SUFFICES ASSUME device.session # "none"
               PROVE  worker' # "up" /\ (worker' = "restarted" => SeenSince)
    BY <1>1 DEF Told, SeenSince
  <2>1. worker' # "up"
    BY <1>1
  <2>2. worker' = "restarted" => worker = "restarted" \/ (worker = "up" /\ inbox = <<>>)
    BY <1>1 DEF TypeOK
  <2> QED
    BY <2>1, <2>2 DEF Told
<1>9. Fades'
  <2> SUFFICES ASSUME device.session = "none", broker.retained.kind # "online"
               PROVE  OnlyWills(inbox')
    BY <1>1 DEF Fades
  <2>1. broker.retained \in {NoMessage, Will}
    BY <1>3, Kinds
  <2>2. inbox' = <<>> \/ inbox' = <<Will>>
    BY <1>1, <2>1
  <2> QED
    BY <2>2 DEF OnlyWills
<1> QED
  BY <1>5, <1>6, <1>7, <1>8, <1>9

\* The panel only says that there is a row, and takes it away.
LEMMA PanelKeeps ==
  ASSUME Inv, Create \/ Archive \/ Restore
  PROVE  Inv'
<1> USE DEF Inv
<1>1. UNCHANGED <<clock, device, broker, inbox, worker, mishaps>>
  BY DEF Create, Archive, Restore
<1>2. /\ row' \in [status : {"none", "new", "online", "offline", "archived"}, seen : {Never} \cup 0..clock,
                   archived : BOOLEAN, network : Networks]
      /\ row'.archived <=> row'.status = "archived"
      /\ row'.status = "none" => row'.seen = Never
      /\ row'.seen = row.seen
      /\ row'.status \in {"new", "archived"}
  <2>1. CASE Create
    <3>1. row' = [row EXCEPT !.status = "new"] /\ row.archived = FALSE
      BY <2>1 DEF Create, NoRow
    <3> QED
      BY <3>1 DEF TypeOK
  <2>2. CASE Archive
    BY <2>2 DEF Archive, TypeOK
  <2>3. CASE Restore
    <3>1. row.status = "archived"
      BY <2>3 DEF Restore, Shapes
    <3>2. row' = [row EXCEPT !.archived = FALSE, !.status = "new"]
      BY <2>3, <3>1 DEF Restore, TypeOK
    <3> QED
      BY <3>2 DEF TypeOK
  <2> QED
    BY <2>1, <2>2, <2>3
<1>3. TypeOK' /\ Shapes'
  BY <1>1, <1>2 DEF TypeOK, Shapes
<1>4. Given' /\ Begun'
  BY <1>1 DEF Given, Begun
<1>5. Told' /\ Fades'
  BY <1>1, <1>2 DEF Told, Fades, SeenSince, Shown
<1> QED
  BY <1>3, <1>4, <1>5

LEMMA TickKeeps ==
  ASSUME Inv, Tick
  PROVE  Inv'
<1> USE DEF Inv
<1>1. /\ clock < MaxTime /\ inbox = <<>> /\ clock' = clock + 1
      /\ broker.ended # "none" => clock < broker.since + KeepAlive
      /\ device.session # "none" => clock < device.last + Interval
      /\ UNCHANGED <<device, broker, inbox, row, worker, mishaps>>
  BY DEF Tick
<1>2. clock \in Nat /\ clock' \in 0..MaxTime /\ \A t \in 0..clock : t \in 0..clock'
  BY <1>1, Times DEF TypeOK
<1>3. /\ device \in [powered : BOOLEAN, session : Paths \cup {"none"}, last : {Never} \cup 0..clock',
                     said : Networks, left : {Never} \cup 0..clock']
      /\ row \in [status : {"none", "new", "online", "offline", "archived"}, seen : {Never} \cup 0..clock',
                  archived : BOOLEAN, network : Networks]
      /\ broker \in [retained : {NoMessage, Will} \cup {Message("online", n) : n \in Networks},
                     ended : Paths \cup {"none"}, since : 0..clock']
  BY <1>2 DEF TypeOK, Shapes
<1>4. TypeOK'
  BY <1>1, <1>2, <1>3 DEF TypeOK
<1>5. Shapes'
  BY <1>1, <1>3 DEF Shapes
<1>6. Given'
  BY <1>1, <1>2, Times DEF Given, TypeOK
<1>7. Begun'
  BY <1>1, <1>2, Times DEF Begun, TypeOK, Never
<1>8. Told'
  BY <1>1 DEF Told, SeenSince, Shown
<1>9. Fades'
  <2>1. OnlyWills(inbox)
    BY <1>1 DEF OnlyWills
  <2> QED
    BY <1>1, <2>1 DEF Fades
<1> QED
  BY <1>4, <1>5, <1>6, <1>7, <1>8, <1>9

-----------------------------------------------------------------------------
(* The theorems *)

LEMMA InitHolds == Init => Inv
<1> SUFFICES ASSUME Init PROVE Inv
  OBVIOUS
<1>1. TypeOK
  BY Times, Kinds, NoNetworkIsOne DEF Init, TypeOK, NoRow, Never, Paths
<1>2. Shapes
  BY Times DEF Init, Shapes, NoRow
<1>3. Given /\ Begun /\ Told
  BY DEF Init, Given, Begun, Told
<1>4. Fades
  BY DEF Init, Fades, OnlyWills, NoRow
<1> QED
  BY <1>1, <1>2, <1>3, <1>4 DEF Inv

LEMMA StepKeeps == Inv /\ [Next]_vars => Inv'
<1> SUFFICES ASSUME Inv, [Next]_vars PROVE Inv'
  OBVIOUS
<1>1. CASE UNCHANGED vars
  BY <1>1 DEF vars, Inv, TypeOK, Shapes, Given, Begun, Told, Fades, SeenSince, Shown
<1>2. CASE Next
  <2>1. ASSUME NEW path \in Paths, Connect(path) PROVE Inv'
    BY <2>1, ConnectKeeps
  <2>2. ASSUME NEW kind \in {"telemetry", "online"}, Publish(kind) PROVE Inv'
    BY <2>2, PublishKeeps
  <2>3. ASSUME NEW powered \in BOOLEAN, Lose(powered) PROVE Inv'
    BY <2>3, LoseKeeps
  <2>4. CASE Disconnect \/ PowerOn \/ WillFires
    BY <2>4, DisconnectKeeps, PowerOnKeeps, WillFiresKeeps
  <2>5. CASE Handle \/ RestartWorker \/ Tick
    BY <2>5, HandleKeeps, RestartWorkerKeeps, TickKeeps
  <2>6. CASE Create \/ Archive \/ Restore
    BY <2>6, PanelKeeps
  <2> QED
    BY <1>2, <2>1, <2>2, <2>3, <2>4, <2>5, <2>6 DEF Next
<1> QED
  BY <1>1, <1>2

LEMMA InvHolds == Spec => []Inv
BY InitHolds, StepKeeps, PTL DEF Spec

\* The row, the messages and the sessions are what they are, for all bounds.
THEOREM TypeCorrect == Spec => []TypeOK
<1>1. Inv => TypeOK
  BY DEF Inv
<1> QED
  BY <1>1, InvHolds, PTL

\* device_is_live (backend/app/main.py) calls no device live much longer than the
\* broker took to miss it, for every cadence, keep-alive and number of restarts,
\* unless "online" is what the broker retains.
THEOREM DeadIsNotLiveHolds == Spec => []DeadIsNotLive
<1>1. ASSUME Inv PROVE DeadIsNotLive
  <2> SUFFICES ASSUME device_is_live(row), device.session = "none", broker.retained.kind # "online"
               PROVE  device.left # Never /\ clock - device.left < LiveSeconds + KeepAlive
    BY <1>1 DEF Inv, TypeOK, DeadIsNotLive
  <2>1. row.seen # Never /\ (clock - row.seen < OfflineSeconds \/ clock - row.seen < LiveSeconds)
    BY DEF device_is_live, is_fresh
  <2>2. device.left # Never /\ row.seen <= device.left + KeepAlive
    BY <1>1, <2>1 DEF Inv, Fades
  <2>3. row.seen \in Nat /\ device.left \in Nat /\ clock \in Nat
    BY <1>1, <2>1, <2>2, Times DEF Inv, TypeOK
  <2> QED
    BY <2>1, <2>2, <2>3, Times
<1> QED
  BY <1>1, InvHolds, PTL

\* device_live_payload (backend/app/main.py) says of a device that is connected and has
\* reported what it last said, and shows it live although an old will may come after
\* its messages, for every cadence and number of restarts and of lost publications.
THEOREM HealthyIsShownHolds == Spec => []HealthyIsShown
<1>1. ASSUME Inv PROVE HealthyIsShown
  <2> USE <1>1 DEF Inv
  <2> SUFFICES ASSUME device.session # "none", inbox = <<>>, row.seen # Never,
                      row.status \notin {"new", "archived"}
               PROVE  /\ \/ worker = "missed"
                         \/ worker = "restarted" /\ row.status = "offline"
                              /\ ~is_fresh(device.last, OfflineSeconds)
                         \/ device_is_live(row)
                      /\ worker = "up" =>
                           TellsWhatIs(device_live_payload(row), device.session, device.said.links)
    BY DEF HealthyIsShown
  <2>1. /\ clock <= device.last + Interval /\ device.session \in Paths /\ device.last # Never
        /\ device.said = Network(device.session, device.said.links)
        /\ device.session = "lte" => device.said.links.lte
    BY DEF Begun, TypeOK
  <2>2. row.seen \in Nat /\ device.last \in Int /\ clock \in Nat /\ ~row.archived
    BY Times DEF TypeOK, Never, Shapes
  <2>3. ASSUME worker # "missed"
        PROVE  /\ row.seen >= device.last
               /\ row.status # "offline" => device_is_live(row)
               /\ is_fresh(device.last, OfflineSeconds) => device_is_live(row)
    <3>1. row.seen >= device.last
      BY <2>3 DEF Told, SeenSince, TypeOK
    <3>2. is_fresh(row.seen, LiveSeconds)
      BY <2>1, <2>2, <3>1, Times DEF is_fresh
    <3>3. is_fresh(device.last, OfflineSeconds) => is_fresh(row.seen, OfflineSeconds)
      BY <2>2, <3>1, Times DEF is_fresh
    <3> QED
      BY <2>2, <3>1, <3>2, <3>3 DEF device_is_live
  <2>4. worker = "up" => row.status \in {"none", "online"} /\ (row.status = "online" => row.network = device.said)
    BY DEF Told, Shown
  <2>5. row.status # "none"
    BY DEF Shapes
  <2>6. ASSUME worker = "up"
        PROVE  TellsWhatIs(device_live_payload(row), device.session, device.said.links)
    <3> DEFINE l == device.said.links
    <3>1. l \in InterfaceStates
      BY DEF TypeOK, Networks
    <3>2. row.network.links = l /\ row.network.active = activeNetworkName(device.session, l)
      BY <2>1, <2>4, <2>5, <2>6 DEF Network
    <3>3. device_is_live(row)
      BY <2>3, <2>4, <2>5, <2>6
    <3> HIDE DEF l
    <3>4. device_network_summary(row) = row.network.active \/ ~(row.network.active # "none")
      BY <3>3 DEF device_network_summary
    <3>5. device.session = "lte" => device_network_summary(row) = "lte"
      BY <2>1, <3>2, <3>4 DEF activeNetworkName, l
    <3>6. device.session = "lan" /\ LanHasInternet(l) =>
            device_network_summary(row) \in {"ethernet", "wifi"} /\ l[device_network_summary(row)] = "good"
      BY <3>2, <3>4 DEF activeNetworkName, LanHasInternet
    <3>7. device_ota_block_reason(row) <=> ~LanHasInternet(l) /\ (LanUp(l) \/ l.lte)
      BY <2>1, <3>1, <3>2 DEF device_ota_block_reason, LanHasInternet, LanUp, activeNetworkName,
                              InterfaceStates, Paths
    <3> QED
      BY <3>5, <3>6, <3>7 DEF TellsWhatIs, device_live_payload, l
  <2> QED
    BY <2>3, <2>4, <2>6 DEF TypeOK
<1> QED
  BY <1>1, InvHolds, PTL
=================================================================================
