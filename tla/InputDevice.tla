------------------------------ MODULE InputDevice ------------------------------
(***************************************************************************)
(* What an input device promises to whoever listens to its events: after a  *)
(* report every input that changed is told before the next report is read,  *)
(* so that a listener that applies the events knows the device's state.     *)
(***************************************************************************)
CONSTANTS
  Inputs,     \* what the device has: buttons, axes, ...
  Values      \* the values of an input

VARIABLES
  value,      \* the device's state, what a listener can ask for
  told,       \* what the events said about each input
  pending     \* the inputs about which events of the last report are still to come

deviceVars == <<value, told, pending>>

DeviceInit ==
  /\ value \in [Inputs -> Values]
  /\ told = value
  /\ pending = {}

(* A report is parsed: the state changes as a whole, then events are sent.   *)
Report ==
  /\ pending = {}
  /\ value' \in [Inputs -> Values]
  /\ pending' \in SUBSET Inputs
  /\ \A i \in Inputs \ pending' : value'[i] = value[i]
  /\ UNCHANGED told

(* An event tells the state of some inputs.                                 *)
Tell ==
  /\ told' \in [Inputs -> Values]
  /\ \A i \in Inputs : told'[i] \in {told[i], value[i]}
  /\ pending' \in SUBSET pending
  /\ \A i \in pending \ pending' : told'[i] = value[i]
  /\ UNCHANGED value

(* An event tells a passing state: another event about i will follow.        *)
TellPassing(i) ==
  /\ i \in pending
  /\ told' \in [Inputs -> Values]
  /\ \A j \in Inputs \ {i} : told'[j] = told[j]
  /\ UNCHANGED <<value, pending>>

(* A listener asks for inputs whose events were switched off.               *)
Ask ==
  /\ value' \in [Inputs -> Values]
  /\ told' \in [Inputs -> Values]
  /\ \A i \in Inputs :
       \/ value'[i] = value[i] /\ told'[i] = told[i]
       \/ told'[i] = value'[i]
  /\ UNCHANGED pending

DeviceNext == Report \/ Tell \/ Ask \/ \E i \in Inputs : TellPassing(i)

DeviceSpec == DeviceInit /\ [][DeviceNext]_deviceVars
--------------------------------------------------------------------------------
(* Whoever applies the events knows every input no event is pending for.     *)
ListenersKnow == \A i \in Inputs \ pending : told[i] = value[i]
================================================================================
