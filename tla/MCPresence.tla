------------------------------ MODULE MCPresence ------------------------------
(* An instance of Presence for TLC: a device with Ethernet and its modem,    *)
(* beside a router without internet, with a WiFi that works beside a router  *)
(* without internet, and with its modem only.                                *)
EXTENDS Presence

Interfaces(ethernet, wifi, lte) == [ethernet |-> ethernet, wifi |-> wifi, lte |-> lte]

MCLinks ==
  {Interfaces("good", "down", TRUE), Interfaces("dead", "down", TRUE),
   Interfaces("dead", "good", FALSE), Interfaces("down", "down", TRUE)}
===============================================================================
