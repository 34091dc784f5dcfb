----------------------------- MODULE DeviceScripts -----------------------------
(***************************************************************************)
(* What drivers and the script manager promise together: a script is loaded *)
(* for a device object that exists, once, and is unloaded before the object *)
(* is destroyed.                                                           *)
(***************************************************************************)
CONSTANT Objects  \* device objects, in the order of their creation

VARIABLES
  alive,   \* the objects that exist
  loaded   \* the objects for which a script is loaded

vars == <<alive, loaded>>

Init == alive = {} /\ loaded = {}

Create(o) ==
  /\ o \notin alive
  /\ alive' = alive \cup {o}
  /\ UNCHANGED loaded

Load(o) ==
  /\ o \in alive \ loaded
  /\ loaded' = loaded \cup {o}
  /\ UNCHANGED alive

Unload(S) ==
  /\ loaded' = loaded \ S
  /\ UNCHANGED alive

Destroy(S) ==
  /\ S \cap loaded = {}
  /\ alive' = alive \ S
  /\ UNCHANGED loaded

Next ==
  \/ \E o \in Objects : Create(o) \/ Load(o)
  \/ \E S \in SUBSET Objects : Unload(S) \/ Destroy(S)

Spec == Init /\ [][Next]_vars
================================================================================
