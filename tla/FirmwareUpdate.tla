---------------------------- MODULE FirmwareUpdate ----------------------------
(***************************************************************************)
(* A release on its way to a device: the two files the server gives out,   *)
(* checkManifest and performOta of ota_config.cpp, and the start of an     *)
(* image: the bootloader leaves a new one to be confirmed, and the core    *)
(* confirms it before setup, so that the rollback guard of ota_config.cpp  *)
(* finds nothing to wait for and serviceOtaRollbackGuard always returns at *)
(* its first line (verifyRollbackLater is not overridden anywhere).        *)
(*                                                                         *)
(* A version stands for its image and the sha256 of it. An image is whole  *)
(* in its slot or not there (0). Those in Bad start and never reach the    *)
(* broker. The device has two slots and writes the one it does not run.    *)
(***************************************************************************)
EXTENDS Integers

CONSTANTS
  Bad,          \* versions that never connect
  MaxVersion,   \* bound: releases of one behaviour
  MaxMishaps    \* bound: resets nobody asked for, downloads that break off

ASSUME FirmwareAssumption ==
  /\ MaxVersion \in Nat \ {0} /\ MaxMishaps \in Nat
  /\ Bad \subseteq 2..MaxVersion

Versions == 1..MaxVersion
Slots == {0, 1}
Other(s) == 1 - s

VARIABLES
  pushed,    \* the newest release
  site,      \* the files of the server: the version each of them belongs to
  world,     \* whether Ethernet or WiFi works, and whether the broker is reached
  slots,     \* slots[s]: the image in the slot s
  ota,       \* otadata: the slot of the last update, and the state of each
  dev,       \* the running device; dev.last is lastOtaVersion, which nothing reads
  mishaps

vars == <<pushed, site, world, slots, ota, dev, mishaps>>

Running == slots[dev.slot]

Mishap == mishaps < MaxMishaps /\ mishaps' = mishaps + 1

------------------------------------------------------------------------------
(* The bootloader.                                                          *)

\* An image that was never confirmed is given up at the next reset.
GivenUp(states) == [s \in Slots |-> IF states[s] = "pending" THEN "aborted" ELSE states[s]]

\* The slot of the last update that was not given up.
Chosen(o) ==
  IF o.state[o.latest] # "aborted" THEN o.latest
  ELSE IF o.state[Other(o.latest)] # "aborted" THEN Other(o.latest) ELSE 0

\* The slot that starts: the other one if the image is not whole.
Started(o, images) == IF images[Chosen(o)] # 0 THEN Chosen(o) ELSE Other(Chosen(o))

\* A new image is left to be confirmed, and the image begins to start.
Boot(o, images, last) ==
  LET given == [o EXCEPT !.state = GivenUp(@)]
      s == Started(given, images)
  IN  /\ ota' = [given EXCEPT !.state[s] = IF @ = "new" THEN "pending" ELSE @]
      /\ dev' = [slot |-> s, mqtt |-> FALSE, asked |-> FALSE, doing |-> "starting",
                 offered |-> 0, image |-> 0, last |-> last]

------------------------------------------------------------------------------
(* The release, the world and the panel.                                    *)

Release ==
  /\ pushed < MaxVersion
  /\ pushed' = pushed + 1
  /\ UNCHANGED <<site, world, slots, ota, dev, mishaps>>

\* git pull on the server replaces one file after the other.
Pull(file) ==
  /\ site[file] # pushed
  /\ site' = [site EXCEPT ![file] = pushed]
  /\ UNCHANGED <<pushed, world, slots, ota, dev, mishaps>>

LanChanges ==
  /\ world' = [world EXCEPT !.lan = ~@]
  /\ UNCHANGED <<pushed, site, slots, ota, dev, mishaps>>

\* A session ends with the broker.
BrokerChanges ==
  /\ world' = [world EXCEPT !.broker = ~@]
  /\ dev' = [dev EXCEPT !.mqtt = @ /\ world'.broker]
  /\ UNCHANGED <<pushed, site, slots, ota, mishaps>>

\* device_command_ota_check refuses a device that is not live or has no LAN.
Ask ==
  /\ dev.mqtt /\ world.lan /\ dev.doing = "loop"
  /\ dev' = [dev EXCEPT !.asked = TRUE]
  /\ UNCHANGED <<pushed, site, world, slots, ota, mishaps>>

------------------------------------------------------------------------------
(* The device.                                                              *)

\* The core confirms whatever starts; setup then finds no image that waits.
Begin ==
  /\ dev.doing = "starting"
  /\ ota' = [ota EXCEPT !.state[dev.slot] = IF @ = "pending" THEN "valid" ELSE @]
  /\ dev' = [dev EXCEPT !.doing = "loop"]
  /\ UNCHANGED <<pushed, site, world, slots, mishaps>>

Connect ==
  /\ ~dev.mqtt /\ dev.doing = "loop" /\ world.broker /\ Running \notin Bad
  /\ dev' = [dev EXCEPT !.mqtt = TRUE]
  /\ UNCHANGED <<pushed, site, world, slots, ota, mishaps>>

\* Mutant: what was installed once is not installed again.
Newer_ThanInstalled(v) == v > Running /\ v > dev.last

\* compareVersions with the version compiled into the image.
Newer(v) == v > Running

\* The command, the button or the console; the command is forgotten whatever
\* comes of it.
checkManifest ==
  /\ dev.doing = "loop"
  /\ LET idle == [dev EXCEPT !.asked = FALSE] IN
     dev' = IF world.lan /\ Newer(site.manifest)
            THEN [idle EXCEPT !.doing = "manifest", !.offered = site.manifest]
            ELSE idle
  /\ UNCHANGED <<pushed, site, world, slots, ota, mishaps>>

\* Back in the loop with nothing installed.
Refused == [dev EXCEPT !.doing = "loop", !.offered = 0, !.image = 0]

\* Mutant: the other slot is made the one to start before it is written.
GetImage_MadeFirst ==
  /\ dev.doing = "manifest" /\ world.lan
  /\ dev' = [dev EXCEPT !.doing = "image", !.image = site.bin]
  /\ slots' = [slots EXCEPT ![Other(dev.slot)] = 0]
  /\ ota' = [ota EXCEPT !.latest = Other(dev.slot), !.state[Other(dev.slot)] = "new"]
  /\ UNCHANGED <<pushed, site, world, mishaps>>

\* performOta asks for the image, and Update.begin gives the other slot up.
GetImage ==
  /\ dev.doing = "manifest" /\ world.lan
  /\ dev' = [dev EXCEPT !.doing = "image", !.image = site.bin]
  /\ slots' = [slots EXCEPT ![Other(dev.slot)] = 0]
  /\ UNCHANGED <<pushed, site, world, ota, mishaps>>

\* Mutant: the digest is not compared.
Install_Unchecked ==
  /\ dev.doing = "image"
  /\ LET images == [slots EXCEPT ![Other(dev.slot)] = dev.image]
         data == [ota EXCEPT !.latest = Other(dev.slot), !.state[Other(dev.slot)] = "new"]
     IN  slots' = images /\ Boot(data, images, dev.offered)
  /\ UNCHANGED <<pushed, site, world, mishaps>>

\* The image that was announced is made the one to start, and started.
Install ==
  /\ dev.doing = "image" /\ dev.image = dev.offered
  /\ LET images == [slots EXCEPT ![Other(dev.slot)] = dev.image]
         data == [ota EXCEPT !.latest = Other(dev.slot), !.state[Other(dev.slot)] = "new"]
     IN  slots' = images /\ Boot(data, images, dev.offered)
  /\ UNCHANGED <<pushed, site, world, mishaps>>

\* Another image than the one announced is not.
Mismatch ==
  /\ dev.doing = "image" /\ dev.image # dev.offered
  /\ dev' = Refused
  /\ UNCHANGED <<pushed, site, world, slots, ota, mishaps>>

\* The connection fails, or breaks off in the middle.
Fail ==
  /\ dev.doing \in {"manifest", "image"}
  /\ (~world.lan /\ UNCHANGED mishaps) \/ Mishap
  /\ dev' = Refused
  /\ UNCHANGED <<pushed, site, world, slots, ota>>

\* Power, a watchdog, a crash, the console.
Reset ==
  /\ Mishap
  /\ Boot(ota, slots, dev.last)
  /\ UNCHANGED <<pushed, site, world, slots>>

------------------------------------------------------------------------------

\* A device fresh from the bench: otadata has no entry for the other slot, which the
\* bootloader treats as one given up.
Init ==
  /\ pushed = 1 /\ site = [manifest |-> 1, bin |-> 1]
  /\ world = [lan |-> FALSE, broker |-> FALSE]
  /\ slots = [s \in Slots |-> IF s = 0 THEN 1 ELSE 0]
  /\ ota = [latest |-> 0, state |-> [s \in Slots |-> IF s = 0 THEN "valid" ELSE "aborted"]]
  /\ dev = [slot |-> 0, mqtt |-> FALSE, asked |-> FALSE, doing |-> "loop",
            offered |-> 0, image |-> 0, last |-> 0]
  /\ mishaps = 0

Next ==
  \/ Release \/ \E file \in {"manifest", "bin"} : Pull(file)
  \/ LanChanges \/ BrokerChanges \/ Ask
  \/ Begin \/ Connect
  \/ checkManifest \/ GetImage \/ Install \/ Mismatch \/ Fail \/ Reset

Spec == Init /\ [][Next]_vars

\* A start ends in loop(), and loop() goes on: a pass of it connects, also between
\* two commands; it obeys the command, and what it has begun ends.
Fairness ==
  /\ WF_vars(Begin) /\ SF_vars(Connect)
  /\ WF_vars(dev.asked /\ checkManifest)
  /\ WF_vars(GetImage \/ Install \/ Mismatch \/ Fail)

FairSpec == Spec /\ Fairness

------------------------------------------------------------------------------
(* Properties.                                                              *)

\* The state is what it is; the device runs a whole image.
TypeOK ==
  /\ pushed \in Versions /\ site \in [manifest : Versions, bin : Versions]
  /\ world \in [lan : BOOLEAN, broker : BOOLEAN]
  /\ slots \in [Slots -> {0} \cup Versions] /\ Running # 0
  /\ ota \in [latest : Slots, state : [Slots -> {"new", "pending", "valid", "aborted"}]]
  /\ dev \in [slot : Slots, mqtt : BOOLEAN, asked : BOOLEAN,
              doing : {"starting", "loop", "manifest", "image"},
              offered : {0} \cup Versions, image : {0} \cup Versions,
              last : {0} \cup Versions]
  /\ mishaps \in 0..MaxMishaps

\* A reset at any moment finds a whole image in the slot that otadata names: the
\* one that runs, in the middle of a download of its successor too, or, while a new
\* image has not come as far as the core's confirmation, the one it replaced.
ResetIsSafe ==
  LET next == Chosen([ota EXCEPT !.state = GivenUp(@)])
  IN  /\ slots[next] # 0
      /\ \/ next = dev.slot
         \/ dev.doing = "starting" /\ ota.state[dev.slot] = "pending"

\* An update only ever installs a newer image, and the one it was told of, although
\* the files of the server are replaced one by one between its requests.
UpdatesForward ==
  [][slots'[Other(dev.slot)] \notin {0, slots[Other(dev.slot)]}
       => slots'[Other(dev.slot)] > Running /\ slots'[Other(dev.slot)] = dev.offered]_vars

\* A device that is asked again and again, while the newest release is served and
\* can be fetched and the broker is there, ends up with it, although a reset may have
\* given it up once before it was confirmed.
NewestArrives ==
  /\ <>[](site.manifest = MaxVersion /\ site.bin = MaxVersion /\ world.lan /\ world.broker)
  /\ []<>dev.asked
  => <>[](Running = MaxVersion)

\* An image that never reaches the broker is not kept: "image never became healthy;
\* rebooting to roll back" (ota_config.cpp:106), "If we never confirm, the next reset
\* rolls back to the previous slot" (cof_config.h:196). Violated: the core has
\* confirmed the image before setup looks at it.
BadIsLeft == Running \in Bad ~> Running \notin Bad
===============================================================================
