----------------------------- MODULE HIDPP20Reports -----------------------------
(***************************************************************************)
(* HIDPP20Device::eventHandler, which the node's dispatcher calls with each  *)
(* report of a mouse: its buttons as a bit field, diverted controls as the    *)
(* list of those that are pressed, the current profile and resolution as they *)
(* change. Events are emitted one by one, and the script's handlers may ask    *)
(* for the device's state meanwhile.                                         *)
(***************************************************************************)
EXTENDS Integers, Sequences, FiniteSets

CONSTANTS
  MouseButtons,  \* bits of MouseButtonSpy's reports
  Controls,      \* controls that ReprogControlsV4 may divert
  Settings,      \* the current profile and resolution
  SettingValues, \* their values
  MaxPressed     \* how many controls a report has room for

HidInputs == MouseButtons \cup Controls \cup Settings

ASSUME HIDPP20ReportsAssumption ==
  /\ MouseButtons \cap (Controls \cup Settings) = {}
  /\ Controls \cap Settings = {}
  /\ {0, 1} \subseteq SettingValues
  /\ MaxPressed \in Nat

VARIABLES
  mouse,     \* _mbs->buttons
  changed,   \* the bits of button_changed whose events are still to come
  buttons,   \* _rc4->buttons
  incoming,  \* new_buttons
  oldI,      \* old_i, new_i: how far the two lists were compared
  newI,
  diverting, \* a DivertedButtonEvent is being handled
  current,   \* _op->current_...
  announced, \* the settings whose event is still to come
  known      \* what the events told the script

hidVars ==
  <<mouse, changed, buttons, incoming, oldI, newI, diverting, current, announced, known>>

mouseVars == <<mouse, changed>>
divertVars == <<buttons, incoming, oldI, newI, diverting>>
settingVars == <<current, announced>>

Elements(s) == {s[k] : k \in DOMAIN s}

(* A report names each pressed control once.                                 *)
Lists ==
  UNION {{s \in [1 .. n -> Controls] : \A j, k \in 1 .. n : s[j] = s[k] => j = k} :
         n \in 0 .. MaxPressed}

Says(i, v) == known' = [known EXCEPT ![i] = v]

Bit(p) == IF p THEN 1 ELSE 0

(* getEvent and getSimpleEvent. While lists are compared a control's answer is *)
(* still that of the old one, which a handler of its event can notice.        *)
Answer(i) ==
  CASE i \in MouseButtons -> Bit(i \in mouse)
    [] i \in Controls     -> Bit(i \in Elements(buttons))
    [] i \in Settings     -> current[i]

(* The features' constructors; nothing is pressed as far as the device knows. *)
HidInit ==
  /\ mouse = {} /\ changed = {}
  /\ buttons = <<>> /\ incoming = <<>>
  /\ oldI = 1 /\ newI = 1 /\ diverting = FALSE
  /\ current \in [Settings -> SettingValues]
  /\ announced = {}
  /\ known = [i \in HidInputs |-> IF i \in Settings THEN current[i] ELSE 0]

Idle == changed = {} /\ ~ diverting /\ announced = {}
--------------------------------------------------------------------------------
(* Plausible mistake: events are sent for the pressed buttons only.          *)
MouseReport_Pressed(new) ==
  /\ Idle
  /\ mouse' = new
  /\ changed' = new \ mouse
  /\ UNCHANGED <<divertVars, settingVars, known>>

(* Plausible mistake: both lists advance when a control was released.        *)
ReleaseOld_AdvancesBoth ==
  /\ diverting
  /\ oldI <= Len(buttons)
  /\ ~ (newI <= Len(incoming) /\ buttons[oldI] = incoming[newI])
  /\ oldI' = oldI + 1
  /\ newI' = newI + 1
  /\ Says(buttons[oldI], 0)
  /\ UNCHANGED <<mouseVars, buttons, incoming, diverting, settingVars>>
--------------------------------------------------------------------------------
(* MouseButtonEvent: the field is stored, then an event sent for each bit.    *)
MouseReport(new) ==
  /\ Idle
  /\ mouse' = new
  /\ changed' = (mouse \ new) \cup (new \ mouse)
  /\ UNCHANGED <<divertVars, settingVars, known>>

SendButton(b) ==
  /\ b \in changed
  /\ changed' = changed \ {b}
  /\ Says(b, Bit(b \in mouse))
  /\ UNCHANGED <<mouse, divertVars, settingVars>>

(* DivertedButtonEvent: the lists are compared, then the new one is stored.   *)
DivertedReport(new) ==
  /\ Idle
  /\ diverting' = TRUE
  /\ incoming' = new
  /\ oldI' = 1
  /\ newI' = 1
  /\ UNCHANGED <<mouseVars, buttons, settingVars, known>>

Matches == newI <= Len(incoming) /\ buttons[oldI] = incoming[newI]

ReleaseOld ==
  /\ diverting
  /\ oldI <= Len(buttons)
  /\ ~ Matches
  /\ oldI' = oldI + 1
  /\ Says(buttons[oldI], 0)
  /\ UNCHANGED <<mouseVars, buttons, incoming, newI, diverting, settingVars>>

KeepOld ==
  /\ diverting
  /\ oldI <= Len(buttons)
  /\ Matches
  /\ oldI' = oldI + 1
  /\ newI' = newI + 1
  /\ UNCHANGED <<mouseVars, buttons, incoming, diverting, settingVars, known>>

PressNew ==
  /\ diverting
  /\ oldI > Len(buttons)
  /\ newI <= Len(incoming)
  /\ newI' = newI + 1
  /\ Says(incoming[newI], 1)
  /\ UNCHANGED <<mouseVars, buttons, incoming, oldI, diverting, settingVars>>

StoreNew ==
  /\ diverting
  /\ oldI > Len(buttons)
  /\ newI > Len(incoming)
  /\ buttons' = incoming
  /\ diverting' = FALSE
  /\ UNCHANGED <<mouseVars, incoming, oldI, newI, settingVars, known>>

(* CurrentProfileChanged and CurrentDPIIndexChanged.                          *)
SettingReport(s, new) ==
  /\ Idle
  /\ current' = [current EXCEPT ![s] = new]
  /\ announced' = {s}
  /\ UNCHANGED <<mouseVars, divertVars, known>>

SendSetting(s) ==
  /\ s \in announced
  /\ announced' = announced \ {s}
  /\ Says(s, current[s])
  /\ UNCHANGED <<mouseVars, divertVars, current>>

HidNext ==
  \/ \E new \in SUBSET MouseButtons : MouseReport(new)
  \/ \E b \in MouseButtons : SendButton(b)
  \/ \E new \in Lists : DivertedReport(new)
  \/ ReleaseOld \/ KeepOld \/ PressNew \/ StoreNew
  \/ \E s \in Settings, new \in SettingValues : SettingReport(s, new)
  \/ \E s \in Settings : SendSetting(s)

HidSpec == HidInit /\ [][HidNext]_hidVars
--------------------------------------------------------------------------------
HidTypeOK ==
  /\ mouse \in SUBSET MouseButtons
  /\ changed \in SUBSET MouseButtons
  /\ buttons \in Lists
  /\ incoming \in Lists
  /\ oldI \in Nat /\ newI \in Nat
  /\ diverting \in BOOLEAN
  /\ current \in [Settings -> SettingValues]
  /\ announced \in SUBSET Settings
  /\ known \in [HidInputs -> SettingValues]

(* Comparing the lists in place finds every change, whatever the order of the *)
(* controls in them: in between, the script knows the rest of the old list and *)
(* the beginning of the new one.                                             *)
DiffIsRight ==
  diverting =>
    {c \in Controls : known[c] = 1} =
      {buttons[k] : k \in {j \in DOMAIN buttons : j >= oldI}}
        \cup {incoming[k] : k \in {j \in DOMAIN incoming : j < newI}}

(* All inputs are told as InputDevice promises.                              *)
Remaining ==
  {buttons[k] : k \in {j \in DOMAIN buttons : j >= oldI}}
    \cup {incoming[k] : k \in {j \in DOMAIN incoming : j >= newI}}

HidValue ==
  [i \in HidInputs |->
     IF i \in Controls /\ diverting THEN Bit(i \in Elements(incoming)) ELSE Answer(i)]
HidPending == changed \cup announced \cup (IF diverting THEN Remaining ELSE {})

Said == INSTANCE InputDevice WITH
  Inputs  <- HidInputs,
  Values  <- SettingValues,
  value   <- HidValue,
  told    <- known,
  pending <- HidPending
HidToldSpec == Said!DeviceSpec
================================================================================
