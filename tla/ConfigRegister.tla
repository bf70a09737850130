---------------------------- MODULE ConfigRegister ----------------------------
(***************************************************************************)
(* What the configuration contract promises, whatever is lost on the way   *)
(* (docs/device/DEVICE_CONFIG_V1.md): the backend owns the configurations, *)
(* a version once saved is never another configuration, and the device     *)
(* holds one of those that were saved.                                     *)
(***************************************************************************)
EXTENDS Integers

CONSTANTS Versions, Contents, NoContent

VARIABLES
  saved,   \* saved[v]: the configuration saved as version v, or NoContent
  held     \* the version the device holds; 0 before its first

Init == saved = [v \in Versions |-> NoContent] /\ held = 0

\* The operator saves c under a version that is free.
Save(v, c) ==
  /\ saved[v] = NoContent
  /\ saved' = [saved EXCEPT ![v] = c]
  /\ UNCHANGED held

\* The device takes a configuration that was saved.
Hold(v) ==
  /\ saved[v] # NoContent
  /\ held' = v
  /\ UNCHANGED saved

Next ==
  \/ \E v \in Versions, c \in Contents : Save(v, c)
  \/ \E v \in Versions : Hold(v)

Spec == Init /\ [][Next]_<<saved, held>>

===============================================================================
