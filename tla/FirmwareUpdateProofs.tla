------------------------- MODULE FirmwareUpdateProofs -------------------------
(***************************************************************************)
(* A reset is safe and updates go forward, for every set of bad images and *)
(* every number of releases and mishaps.                                   *)
(*                                                                         *)
(* That a reset is safe is about the slot the bootloader would take now.   *)
(* It follows from what the two slots are: the one that runs is whole, and *)
(* either it is confirmed and the one to be taken (Confirmed), or it waits *)
(* for the core's confirmation and the other one is whole and confirmed    *)
(* (OnTrial).  The other slot is only written when the running one is      *)
(* confirmed.                                                              *)
(***************************************************************************)
EXTENDS FirmwareUpdate, TLAPS

States == {"new", "pending", "valid", "aborted"}

Confirmed(o, d) ==
  /\ o.state[d.slot] = "valid"
  /\ o.latest = d.slot \/ o.state[Other(d.slot)] = "aborted"

OnTrial(o, images, d) ==
  /\ d.doing = "starting" /\ o.latest = d.slot /\ o.state[d.slot] = "pending"
  /\ o.state[Other(d.slot)] = "valid" /\ images[Other(d.slot)] # 0

\* What otadata says of the slots while the device runs.
Safe(o, images, d) ==
  /\ o.state[Other(d.slot)] \in {"valid", "aborted"}
  /\ Confirmed(o, d) \/ OnTrial(o, images, d)

\* What is being fetched is newer than what runs.
Fetching ==
  /\ dev.doing \in {"manifest", "image"} => dev.offered \in Versions /\ dev.offered > Running
  /\ dev.doing = "image" => slots[Other(dev.slot)] = 0

IInv == TypeOK /\ Safe(ota, slots, dev) /\ Fetching

-------------------------------------------------------------------------------
\* A version is not 0.
LEMMA NoVersionIsZero == 0 \notin Versions
  BY DEF Versions

\* The two slots.
LEMMA TwoSlots ==
  ASSUME NEW s \in Slots
  PROVE  Other(s) \in Slots /\ Other(s) # s /\ Other(Other(s)) = s
         /\ \A t \in Slots : t = s \/ t = Other(s)
  BY DEF Slots, Other

Data == [latest : Slots, state : [Slots -> States]]
Images == [Slots -> {0} \cup Versions]
Devices == [slot : Slots, mqtt : BOOLEAN, asked : BOOLEAN,
            doing : {"starting", "loop", "manifest", "image"},
            offered : {0} \cup Versions, image : {0} \cup Versions, last : {0} \cup Versions]

\* Whatever otadata says, a device starts the slot the bootloader takes, and a new
\* image in it is left to be confirmed.
LEMMA BootStarts ==
  ASSUME NEW o \in Data, NEW images \in Images, NEW last \in {0} \cup Versions, NEW s \in Slots,
         s = Started([o EXCEPT !.state = GivenUp(@)], images), Boot(o, images, last)
  PROVE  /\ ota' \in Data /\ dev' \in Devices
         /\ dev'.doing = "starting" /\ dev'.slot = s /\ ota'.latest = o.latest
         /\ ota'.state[s] = CASE o.state[s] = "pending" -> "aborted"
                              [] o.state[s] = "new" -> "pending"
                              [] OTHER -> o.state[s]
         /\ ota'.state[Other(s)] = IF o.state[Other(s)] = "pending" THEN "aborted" ELSE o.state[Other(s)]
<1> DEFINE given == [o EXCEPT !.state = GivenUp(@)]
<1>1. given \in Data /\ given.latest = o.latest /\ Other(s) \in Slots /\ Other(s) # s
      /\ \A t \in Slots : given.state[t] = IF o.state[t] = "pending" THEN "aborted" ELSE o.state[t]
  BY TwoSlots DEF Data, States, GivenUp
<1>2. /\ ota' = [given EXCEPT !.state[s] = IF @ = "new" THEN "pending" ELSE @]
      /\ dev' = [slot |-> s, mqtt |-> FALSE, asked |-> FALSE, doing |-> "starting",
                 offered |-> 0, image |-> 0, last |-> last]
  BY DEF Boot
<1> HIDE DEF given
<1>3. ota' \in Data /\ ota'.latest = given.latest
      /\ ota'.state[s] = (IF given.state[s] = "new" THEN "pending" ELSE given.state[s])
      /\ ota'.state[Other(s)] = given.state[Other(s)]
  BY <1>1, <1>2 DEF Data, States
<1>4. dev' \in Devices /\ dev'.doing = "starting" /\ dev'.slot = s
  BY <1>2 DEF Devices
<1> QED
  BY <1>1, <1>3, <1>4

-------------------------------------------------------------------------------
\* The slot a reset would start holds a whole, confirmed image: the running one, or
\* the other one if the running one is on trial.
LEMMA SafeStarts ==
  ASSUME NEW o \in Data, NEW images \in Images, NEW d \in Devices,
         images[d.slot] # 0, Safe(o, images, d)
  PROVE  LET given == [o EXCEPT !.state = GivenUp(@)]
             s == Chosen(given)
         IN  /\ s = IF o.state[d.slot] = "pending" THEN Other(d.slot) ELSE d.slot
             /\ images[s] # 0 /\ o.state[s] = "valid" /\ Started(given, images) = s
<1> DEFINE given == [o EXCEPT !.state = GivenUp(@)]
           r == d.slot
<1>1. r \in Slots /\ Other(r) \in Slots /\ Other(r) # r /\ Other(Other(r)) = r
      /\ o.latest \in Slots /\ (o.latest = r \/ o.latest = Other(r))
  BY TwoSlots DEF Devices, Data
<1>2. given.latest = o.latest
      /\ \A s \in Slots : given.state[s] = IF o.state[s] = "pending" THEN "aborted" ELSE o.state[s]
  BY DEF Data, GivenUp
<1> HIDE DEF given
<1>3. CASE OnTrial(o, images, d)
  <2>1. o.latest = r /\ given.state[r] = "aborted" /\ given.state[Other(r)] = "valid"
        /\ images[Other(r)] # 0 /\ o.state[Other(r)] = "valid" /\ o.state[r] = "pending"
    BY <1>1, <1>2, <1>3 DEF OnTrial
  <2>2. Chosen(given) = Other(r)
    BY <1>2, <2>1 DEF Chosen
  <2>3. Started(given, images) = Other(r)
    BY <2>1, <2>2 DEF Started
  <2> QED
    BY <2>1, <2>2, <2>3 DEF given
<1>4. CASE Confirmed(o, d)
  <2>1. o.state[r] = "valid" /\ given.state[r] = "valid" /\ images[r] # 0
        /\ (o.latest = r \/ given.state[Other(r)] = "aborted")
    BY <1>1, <1>2, <1>4 DEF Confirmed
  <2>2. Chosen(given) = r
    BY <1>1, <1>2, <2>1 DEF Chosen
  <2>3. Started(given, images) = r
    BY <2>1, <2>2 DEF Started
  <2> QED
    BY <2>1, <2>2, <2>3 DEF given
<1> QED
  BY <1>3, <1>4 DEF Safe

\* So a reset keeps the invariant.
LEMMA Resetting ==
  ASSUME IInv, Reset
  PROVE  IInv'
<1> DEFINE r == dev.slot
           s == IF ota.state[r] = "pending" THEN Other(r) ELSE r
<1>1. ota \in Data /\ slots \in Images /\ dev \in Devices /\ r \in Slots /\ slots[r] # 0
      /\ dev.last \in {0} \cup Versions /\ s \in Slots /\ Other(s) \in Slots
      /\ Boot(ota, slots, dev.last) /\ UNCHANGED <<pushed, site, world, slots>>
  BY TwoSlots DEF IInv, TypeOK, Running, Data, States, Images, Devices, Reset
<1>2. slots[s] # 0 /\ ota.state[s] = "valid" /\ s = Started([ota EXCEPT !.state = GivenUp(@)], slots)
  BY <1>1, SafeStarts DEF IInv
<1>3. /\ ota' \in Data /\ dev' \in Devices /\ dev'.doing = "starting" /\ dev'.slot = s
      /\ ota'.latest = ota.latest /\ ota'.state[s] = "valid"
      /\ ota'.state[Other(s)] = IF ota.state[Other(s)] = "pending" THEN "aborted" ELSE ota.state[Other(s)]
  BY <1>1, <1>2, BootStarts
<1>4. mishaps' \in 0..MaxMishaps
  BY FirmwareAssumption DEF Reset, Mishap, IInv, TypeOK
<1>5. TypeOK'
  BY <1>1, <1>2, <1>3, <1>4 DEF IInv, TypeOK, Running, Data, States, Images, Devices
<1>6. Safe(ota', slots', dev')
  <2>1. CASE ota.state[r] = "pending"
    <3>1. Other(s) = r /\ ota'.state[r] = "aborted"
      BY <1>1, <1>3, <2>1, TwoSlots
    <3> QED
      BY <1>3, <3>1 DEF Safe, Confirmed
  <2>2. CASE ota.state[r] # "pending"
    <3>1. s = r /\ ota.state[Other(r)] \in {"valid", "aborted"} /\ Confirmed(ota, dev)
      BY <2>2 DEF IInv, Safe, OnTrial
    <3>2. ota'.state[Other(r)] = ota.state[Other(r)]
      BY <1>3, <3>1
    <3> QED
      BY <1>3, <3>1, <3>2 DEF Safe, Confirmed
  <2> QED
    BY <2>1, <2>2
<1> QED
  BY <1>3, <1>5, <1>6 DEF IInv, Fetching

-------------------------------------------------------------------------------
\* An update puts the device on trial, with what ran before to go back to.
LEMMA Installing ==
  ASSUME IInv, Install
  PROVE  IInv'
<1> DEFINE r == dev.slot
           o == Other(r)
           images == [slots EXCEPT ![o] = dev.image]
           data == [ota EXCEPT !.latest = o, !.state[o] = "new"]
<1>1. ota \in Data /\ slots \in Images /\ dev \in Devices /\ r \in Slots /\ o \in Slots /\ slots[r] # 0
      /\ o # r /\ Other(o) = r /\ dev.image \in Versions /\ dev.offered \in Versions
  BY TwoSlots DEF IInv, TypeOK, Running, Data, States, Images, Devices, Install, Fetching
<1>2. slots' = images /\ Boot(data, images, dev.offered) /\ UNCHANGED <<pushed, site, world, mishaps>>
  BY DEF Install
<1>3. ota.state[r] = "valid"
  BY DEF IInv, Safe, Confirmed, OnTrial, Install
<1>4. images \in Images /\ images[o] # 0 /\ images[r] = slots[r]
  BY <1>1, NoVersionIsZero DEF Images
<1>5. data \in Data /\ data.latest = o /\ data.state[o] = "new" /\ data.state[r] = "valid"
  BY <1>1, <1>3 DEF Data, States
<1>6. o = Started([data EXCEPT !.state = GivenUp(@)], images)
  BY <1>1, <1>4, <1>5 DEF Started, Chosen, GivenUp, Data
<1> HIDE DEF data, images
<1>7. /\ ota' \in Data /\ dev' \in Devices /\ dev'.doing = "starting" /\ dev'.slot = o
      /\ ota'.latest = o /\ ota'.state[o] = "pending" /\ ota'.state[r] = "valid"
  BY <1>1, <1>2, <1>4, <1>5, <1>6, BootStarts
<1>8. TypeOK'
  BY <1>2, <1>4, <1>7 DEF IInv, TypeOK, Running, Data, States, Images, Devices
<1>9. Safe(ota', slots', dev')
  BY <1>1, <1>2, <1>4, <1>7 DEF Safe, OnTrial
<1> QED
  BY <1>7, <1>8, <1>9 DEF IInv, Fetching

\* The core's confirmation.
LEMMA Starting ==
  ASSUME IInv, Begin
  PROVE  IInv'
<1> DEFINE r == dev.slot
<1>1. ota \in Data /\ slots \in Images /\ dev \in Devices /\ r \in Slots /\ Other(r) \in Slots /\ Other(r) # r
      /\ UNCHANGED <<pushed, site, world, slots, mishaps>>
  BY TwoSlots DEF IInv, TypeOK, Data, States, Images, Devices, Begin
<1>2. ota.state[r] \in {"pending", "valid"}
  BY DEF IInv, Safe, Confirmed, OnTrial
<1>3. ota' \in Data /\ ota'.latest = ota.latest /\ ota'.state[r] = "valid"
      /\ ota'.state[Other(r)] = ota.state[Other(r)]
  BY <1>1, <1>2 DEF Begin, Data, States
<1>4. dev' \in Devices /\ dev'.slot = r /\ dev'.doing = "loop"
  BY <1>1 DEF Begin, Devices
<1>5. TypeOK'
  BY <1>1, <1>3, <1>4 DEF IInv, TypeOK, Running, Data, States, Devices
<1>6. Safe(ota', slots', dev')
  BY <1>3, <1>4 DEF IInv, Safe, Confirmed, OnTrial
<1> QED
  BY <1>4, <1>5, <1>6 DEF IInv, Fetching

-------------------------------------------------------------------------------
\* Everything else leaves the device running where it runs.
LEMMA Running_on ==
  ASSUME IInv,
         \/ Release \/ (\E file \in {"manifest", "bin"} : Pull(file)) \/ LanChanges \/ BrokerChanges
         \/ Ask \/ Connect \/ checkManifest \/ Mismatch \/ Fail \/ UNCHANGED vars
  PROVE  IInv'
<1>1. slots' = slots /\ ota' = ota
  BY DEF Release, Pull, LanChanges, BrokerChanges, Ask, Connect, checkManifest, Mismatch, Fail, vars
<1>2. dev \in Devices /\ Versions \subseteq Nat
  BY DEF IInv, TypeOK, Devices, Versions
<1>3. dev' \in Devices /\ dev'.slot = dev.slot
  <2>1. CASE BrokerChanges
    <3>1. world' = [world EXCEPT !.broker = ~@] /\ world \in [lan : BOOLEAN, broker : BOOLEAN]
      BY <2>1 DEF BrokerChanges, IInv, TypeOK
    <3>2. world'.broker \in BOOLEAN
      BY <3>1
    <3> QED
      BY <1>2, <2>1, <3>2 DEF BrokerChanges, Devices
  <2>2. CASE checkManifest
    <3> DEFINE idle == [dev EXCEPT !.asked = FALSE]
    <3>1. idle \in Devices /\ idle.slot = dev.slot
      BY <1>2 DEF Devices
    <3>2. site.manifest \in Versions
      BY DEF IInv, TypeOK
    <3>3. dev' = idle \/ dev' = [idle EXCEPT !.doing = "manifest", !.offered = site.manifest]
      BY <2>2 DEF checkManifest
    <3> HIDE DEF idle
    <3> QED
      BY <3>1, <3>2, <3>3 DEF Devices
  <2>3. CASE Mismatch \/ Fail
    BY <1>2, <2>3 DEF Mismatch, Fail, Refused, Devices
  <2>4. CASE Ask \/ Connect
    BY <1>2, <2>4 DEF Ask, Connect, Devices
  <2>5. CASE Release \/ (\E file \in {"manifest", "bin"} : Pull(file)) \/ LanChanges \/ UNCHANGED vars
    BY <1>2, <2>5 DEF Release, Pull, LanChanges, vars
  <2> QED
    BY <2>1, <2>2, <2>3, <2>4, <2>5
<1>4. dev.doing = "starting" => dev'.doing = "starting"
  BY <1>2 DEF Release, Pull, LanChanges, BrokerChanges, Ask, Connect, checkManifest, Mismatch, Fail, vars, Devices
<1>5. Fetching'
  BY <1>1, <1>2, <1>3 DEF Release, Pull, LanChanges, BrokerChanges, Ask, Connect, checkManifest, Newer,
     Mismatch, Fail, Refused, vars, Devices, IInv, TypeOK, Fetching, Running
<1>6. pushed' \in Versions /\ site' \in [manifest : Versions, bin : Versions]
      /\ world' \in [lan : BOOLEAN, broker : BOOLEAN]
  <2>1. pushed \in Versions /\ site \in [manifest : Versions, bin : Versions]
        /\ world \in [lan : BOOLEAN, broker : BOOLEAN]
    BY DEF IInv, TypeOK
  <2>2. CASE Release
    BY <2>1, <2>2, FirmwareAssumption DEF Release, Versions
  <2>3. ASSUME NEW file \in {"manifest", "bin"}, Pull(file)
        PROVE  pushed' = pushed /\ site' \in [manifest : Versions, bin : Versions] /\ world' = world
    BY <2>1, <2>3 DEF Pull
  <2>4. CASE LanChanges \/ BrokerChanges
    BY <2>1, <2>4 DEF LanChanges, BrokerChanges
  <2>5. CASE Ask \/ Connect \/ checkManifest \/ Mismatch \/ Fail \/ UNCHANGED vars
    BY <2>1, <2>5 DEF Ask, Connect, checkManifest, Mismatch, Fail, vars
  <2> QED
    BY <2>1, <2>2, <2>3, <2>4, <2>5
<1>7. mishaps' \in 0..MaxMishaps
  BY FirmwareAssumption DEF Release, Pull, LanChanges, BrokerChanges, Ask, Connect, checkManifest, Mismatch,
     Fail, Mishap, vars, IInv, TypeOK
<1>8. TypeOK'
  BY <1>1, <1>3, <1>6, <1>7 DEF IInv, TypeOK, Running, Devices
<1>9. Safe(ota', slots', dev')
  BY <1>1, <1>3, <1>4 DEF IInv, Safe, OnTrial, Confirmed
<1> QED
  BY <1>5, <1>8, <1>9 DEF IInv

\* The other slot is given up for the image that comes; what runs is confirmed.
LEMMA Getting ==
  ASSUME IInv, GetImage
  PROVE  IInv'
<1> DEFINE r == dev.slot
           o == Other(r)
<1>1. dev \in Devices /\ slots \in Images /\ r \in Slots /\ o \in Slots /\ o # r
      /\ slots' = [slots EXCEPT ![o] = 0] /\ ota' = ota
      /\ dev' = [[dev EXCEPT !.doing = "image"] EXCEPT !.image = site.bin]
      /\ site.bin \in Versions /\ UNCHANGED <<pushed, site, world, mishaps>>
  BY TwoSlots DEF IInv, TypeOK, Devices, Images, GetImage
<1>2. dev' \in Devices /\ dev'.slot = r /\ dev'.doing = "image" /\ dev'.offered = dev.offered
  BY <1>1 DEF Devices
<1>3. slots' \in Images /\ slots'[r] = slots[r] /\ slots'[o] = 0
  BY <1>1 DEF Images
<1>4. TypeOK'
  BY <1>1, <1>2, <1>3 DEF IInv, TypeOK, Running, Devices, Images
<1>5. Fetching'
  BY <1>1, <1>2, <1>3 DEF IInv, Fetching, GetImage, Running
<1>6. Safe(ota', slots', dev')
  BY <1>1, <1>2 DEF IInv, Safe, Confirmed, OnTrial, GetImage
<1> QED
  BY <1>4, <1>5, <1>6 DEF IInv

-------------------------------------------------------------------------------
\* A device with one image, confirmed.
LEMMA Beginning == Init => IInv
<1> SUFFICES ASSUME Init PROVE IInv
  OBVIOUS
<1>1. 1 \in Versions /\ 0 \in Slots /\ 1 \in Slots /\ Other(0) = 1 /\ 0 \in 0..MaxMishaps
  BY FirmwareAssumption DEF Versions, Slots, Other
<1>2. TypeOK
  <2>1. slots \in [Slots -> {0} \cup Versions] /\ Running = 1
    BY <1>1 DEF Init, Running
  <2>2. ota \in [latest : Slots, state : [Slots -> States]]
    BY <1>1 DEF Init, States
  <2>3. dev \in Devices
    BY <1>1 DEF Init, Devices
  <2>4. pushed \in Versions /\ site \in [manifest : Versions, bin : Versions]
        /\ world \in [lan : BOOLEAN, broker : BOOLEAN] /\ mishaps \in 0..MaxMishaps
    BY <1>1 DEF Init
  <2> QED
    BY <2>1, <2>2, <2>3, <2>4 DEF TypeOK, States, Devices
<1>3. Safe(ota, slots, dev)
  BY <1>1 DEF Init, Safe, Confirmed
<1> QED
  BY <1>2, <1>3 DEF Init, IInv, Fetching

\* Every step keeps the invariant.
LEMMA Keeping == IInv /\ [Next]_vars => IInv'
<1> SUFFICES ASSUME IInv, [Next]_vars PROVE IInv'
  OBVIOUS
<1>1. CASE Install
  BY <1>1, Installing
<1>2. CASE GetImage
  BY <1>2, Getting
<1>3. CASE Begin
  BY <1>3, Starting
<1>4. CASE Reset
  BY <1>4, Resetting
<1>5. CASE \/ Release \/ (\E file \in {"manifest", "bin"} : Pull(file)) \/ LanChanges \/ BrokerChanges
           \/ Ask \/ Connect \/ checkManifest \/ Mismatch \/ Fail \/ UNCHANGED vars
  BY <1>5, Running_on
<1> QED
  BY <1>1, <1>2, <1>3, <1>4, <1>5 DEF Next

\* The invariant holds in every state.
LEMMA Invariance == Spec => []IInv
  BY Beginning, Keeping, PTL DEF Spec

\* The state keeps its type, and the device runs a whole image.
THEOREM TypeCorrect == Spec => []TypeOK
<1>1. IInv => TypeOK
  BY DEF IInv
<1> QED
  BY <1>1, Invariance, PTL

\* A reset at any moment finds a whole image in the slot that otadata names: the one
\* that runs, or the one before while a new image is not confirmed.
THEOREM ResetIsSafeHolds == Spec => []ResetIsSafe
<1>1. IInv => ResetIsSafe
  <2> SUFFICES ASSUME IInv PROVE ResetIsSafe
    OBVIOUS
  <2>1. ota \in Data /\ slots \in Images /\ dev \in Devices /\ slots[dev.slot] # 0
    BY DEF IInv, TypeOK, Running, Data, States, Images, Devices
  <2> DEFINE next == Chosen([ota EXCEPT !.state = GivenUp(@)])
  <2>2. next = (IF ota.state[dev.slot] = "pending" THEN Other(dev.slot) ELSE dev.slot) /\ slots[next] # 0
    BY <2>1, SafeStarts DEF IInv
  <2>3. ota.state[dev.slot] = "pending" => dev.doing = "starting"
    BY DEF IInv, Safe, Confirmed, OnTrial
  <2> QED
    BY <2>2, <2>3 DEF ResetIsSafe
<1> QED
  BY <1>1, Invariance, PTL

\* Only the image that was announced is installed, and only over an older one.
THEOREM UpdatesForwardHolds == Spec => UpdatesForward
<1> DEFINE Forward == slots'[Other(dev.slot)] \notin {0, slots[Other(dev.slot)]}
                        => slots'[Other(dev.slot)] > Running /\ slots'[Other(dev.slot)] = dev.offered
<1>1. IInv /\ [Next]_vars => [Forward]_vars
  <2> SUFFICES ASSUME IInv, Next, slots'[Other(dev.slot)] \notin {0, slots[Other(dev.slot)]}
               PROVE  slots'[Other(dev.slot)] > Running /\ slots'[Other(dev.slot)] = dev.offered
    OBVIOUS
  <2>1. dev.slot \in Slots /\ slots \in Images /\ Other(dev.slot) \in Slots
    BY TwoSlots DEF IInv, TypeOK, Images
  <2>2. CASE Install
    BY <2>1, <2>2 DEF Install, IInv, Fetching, Images
  <2>3. CASE GetImage
    BY <2>1, <2>3 DEF GetImage, Images
  <2>4. CASE ~Install /\ ~GetImage
    BY <2>4 DEF Next, Release, Pull, LanChanges, BrokerChanges, Ask, Begin, Connect,
       checkManifest, Mismatch, Fail, Reset
  <2> QED
    BY <2>2, <2>3, <2>4
<1> QED
  BY <1>1, Invariance, PTL DEF Spec, UpdatesForward
===============================================================================
