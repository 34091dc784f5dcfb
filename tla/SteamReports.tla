------------------------------ MODULE SteamReports ------------------------------
(***************************************************************************)
(* SteamControllerDevice: a report of the controller is compared with       *)
(* _state, and what has changed enough is sent as events to the script. The  *)
(* receiver's monitor parses and emits; scripts call setTouchPadEventMode.   *)
(***************************************************************************)
EXTENDS Integers, FiniteSets

CONSTANTS
  Pads,         \* the axes of each touch pad or stick
  Triggers,
  Buttons,
  Sensors,      \* the parts of each sensor: acceleration, rotation, orientation
  Reports,      \* what the controller may report: a number for each input
  AxisFuzz, TriggerFuzz, SensorFuzz,
  TriggerRange  \* number of values of a trigger's byte

PadAxes == UNION Pads
SensorParts == UNION Sensors
Inputs == PadAxes \cup Triggers \cup Buttons \cup SensorParts

ASSUME SteamReportsAssumption ==
  /\ PadAxes \cap (Triggers \cup Buttons \cup SensorParts) = {}
  /\ Triggers \cap (Buttons \cup SensorParts) = {}
  /\ Buttons \cap SensorParts = {}
  /\ {AxisFuzz, TriggerFuzz, SensorFuzz} \subseteq Nat
  /\ TriggerRange \in Nat \ {0}
  /\ Reports \subseteq [Inputs -> Int]
  /\ \A r \in Reports : /\ \A i \in Triggers : r[i] \in 0 .. TriggerRange - 1
                       /\ \A i \in Buttons : r[i] \in {0, 1}

VARIABLES
  state,        \* SteamControllerDevice::_state, by input
  report,       \* the report that was read last
  singleAxis,   \* _report_single_axis
  linkedAxes,   \* _report_linked_axes
  unsent,       \* events of the report that are still to be emitted
  heard         \* what the events, or an answer, told the script of each input

steamVars == <<state, report, singleAxis, linkedAxes, unsent, heard>>

(* An event, and the inputs it tells.                                        *)
Event(kind, about) == [kind |-> kind, about |-> about]
Syn == Event("syn", {})
AxisEvents == {Event("axis", {i}) : i \in PadAxes}
PadEvents == {Event("pad", p) : p \in Pads}
DataEvents ==
  AxisEvents \cup PadEvents
    \cup {Event("trigger", {i}) : i \in Triggers} \cup {Event("button", {i}) : i \in Buttons}
    \cup {Event("sensor", s) : s \in Sensors}
Events == DataEvents \cup {Syn}

(* Simple events are sent first, then the others, then the SYN event.        *)
Before(e, f) ==
  LET rank == [axis |-> 1, trigger |-> 2, button |-> 3, pad |-> 4, sensor |-> 5, syn |-> 6]
  IN  rank[e.kind] < rank[f.kind]

Distance(a, b) == IF a < b THEN b - a ELSE a - b

Fuzz(i) ==
  CASE i \in PadAxes     -> AxisFuzz
    [] i \in Triggers    -> TriggerFuzz
    [] i \in SensorParts -> SensorFuzz
    [] i \in Buttons     -> 0

(* A trigger's byte is stored in an int8_t.                                  *)
Stored(i, v) == IF i \in Triggers /\ 2 * v >= TriggerRange THEN v - TriggerRange ELSE v

(* The state is garbage until the first report, and the script asks for it.  *)
SteamInit ==
  /\ report \in Reports
  /\ state = [i \in Inputs |-> Stored(i, report[i])]
  /\ singleAxis = TRUE
  /\ linkedAxes = FALSE
  /\ unsent = {}
  /\ heard = state
--------------------------------------------------------------------------------
Moved(new, i) == Distance(state[i], new[i]) > Fuzz(i)

(* Plausible mistake: _state becomes the last report, moved or not.          *)
ReadReport_StoresAll(new) ==
  LET moved   == {i \in Inputs : Moved(new, i)}
      enabled == DataEvents \ ((IF singleAxis THEN {} ELSE AxisEvents)
                                 \cup (IF linkedAxes THEN {} ELSE PadEvents))
      sent    == {e \in enabled : e.about \cap moved # {}}
  IN  /\ unsent = {}
      /\ report' = new
      /\ state' = [i \in Inputs |-> Stored(i, new[i])]
      /\ unsent' = sent \cup (IF sent = {} THEN {} ELSE {Syn})
      /\ UNCHANGED <<singleAxis, linkedAxes, heard>>

(* Plausible mistake: touch pad events have what was reported, as sensors'.  *)
SendEvent_PadsAsReported(e) ==
  /\ e \in unsent
  /\ \A f \in unsent : ~ Before(f, e)
  /\ heard' = [i \in Inputs |-> IF i \in e.about THEN report[i] ELSE heard[i]]
  /\ unsent' = unsent \ {e}
  /\ UNCHANGED <<state, report, singleAxis, linkedAxes>>

(* readEvent up to "send events".                                            *)
ReadReport(new) ==
  LET moved   == {i \in Inputs : Moved(new, i)}
      enabled == DataEvents \ ((IF singleAxis THEN {} ELSE AxisEvents)
                                 \cup (IF linkedAxes THEN {} ELSE PadEvents))
      sent    == {e \in enabled : e.about \cap moved # {}}
  IN  /\ unsent = {}
      /\ report' = new
      /\ state' = [i \in Inputs |-> IF i \in moved THEN Stored(i, new[i]) ELSE state[i]]
      /\ unsent' = sent \cup (IF sent = {} THEN {} ELSE {Syn})
      /\ UNCHANGED <<singleAxis, linkedAxes, heard>>

(* Touch pad events carry the state, all others what was in the report.      *)
SendEvent(e) ==
  /\ e \in unsent
  /\ \A f \in unsent : ~ Before(f, e)
  /\ heard' = [i \in Inputs |->
       IF i \notin e.about THEN heard[i]
       ELSE IF e.kind = "pad" THEN state[i] ELSE report[i]]
  /\ unsent' = unsent \ {e}
  /\ UNCHANGED <<state, report, singleAxis, linkedAxes>>

(* A script that changes what is sent has to ask for the axes afterwards.    *)
SetTouchPadEventMode(single, linked) ==
  /\ singleAxis' = single
  /\ linkedAxes' = linked
  /\ heard' = [i \in Inputs |-> IF i \in PadAxes THEN state[i] ELSE heard[i]]
  /\ UNCHANGED <<state, report, unsent>>

SteamNext ==
  \/ \E new \in Reports : ReadReport(new)
  \/ \E e \in Events : SendEvent(e)
  \/ \E single, linked \in BOOLEAN : SetTouchPadEventMode(single, linked)

SteamSpec == SteamInit /\ [][SteamNext]_steamVars
--------------------------------------------------------------------------------
SteamTypeOK ==
  /\ state \in [Inputs -> Int]
  /\ \A i \in Triggers : 2 * state[i] \in - TriggerRange .. TriggerRange - 1
  /\ report \in [Inputs -> Int]
  /\ {singleAxis, linkedAxes} \subseteq BOOLEAN
  /\ unsent \in SUBSET Events
  /\ heard \in [Inputs -> Int]

Reported(i) == i \in PadAxes => singleAxis \/ linkedAxes

(* The fuzz never adds up: what a script knows of an axis is as near to the   *)
(* controller as AxisFuzz, however slowly the axis drifts (readEvent).       *)
AxesWithinFuzz ==
  unsent = {} => \A i \in PadAxes : Reported(i) => Distance(heard[i], report[i]) <= AxisFuzz

(* A sensor event has the parts as they were reported, though _state keeps    *)
(* those that moved little: asking and listening differ by SensorFuzz at most, *)
(* and listening and the controller by twice as much.                        *)
SensorsWithinFuzz ==
  unsent = {} => \A i \in SensorParts :
    /\ Distance(heard[i], state[i]) <= SensorFuzz
    /\ Distance(heard[i], report[i]) <= 2 * SensorFuzz

(* "Get the current value/state for the given event by type and code"         *)
(* (InputDevice.h): what a script is answered for a trigger is what the        *)
(* controller reported, up to the fuzz.                                       *)
TriggerAnswersAreCurrent ==
  [][(\A i \in Triggers : Distance(state'[i], report'[i]) <= TriggerFuzz)]_report

(* The SYN event comes when everything that changed has been told.           *)
Exact == PadAxes \cup Triggers \cup Buttons

(* A trigger's byte, whichever sign it was given.                             *)
Byte(i, v) == IF i \in Triggers /\ v < 0 THEN v + TriggerRange ELSE v

AllTold == \A i \in Exact : Reported(i) => Byte(i, heard[i]) = Byte(i, state[i])
SynClosesReport == [][(Syn \in unsent /\ Syn \notin unsent') => AllTold']_steamVars

(* Buttons, triggers and axes are told as InputDevice promises; a trigger's   *)
(* byte is the same, but for its sign, in events and answers. Axes whose      *)
(* events are switched off do not count.                                     *)
SteamTold == [i \in Exact |-> Byte(i, heard[i])]
SteamValue == [i \in Exact |-> IF Reported(i) THEN Byte(i, state[i]) ELSE Byte(i, heard[i])]
SteamPending == {i \in Exact : \E e \in unsent : i \in e.about}

Told == INSTANCE InputDevice WITH
  Inputs  <- Exact,
  Values  <- Int,
  value   <- SteamValue,
  told    <- SteamTold,
  pending <- SteamPending
SteamToldSpec == Told!DeviceSpec
================================================================================
