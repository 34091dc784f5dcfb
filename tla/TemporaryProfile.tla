----------------------------- MODULE TemporaryProfile -----------------------------
(***************************************************************************)
(* HIDPP10Device::loadTemporaryProfile: a script's description of settings,    *)
(* buttons and modes becomes a profile, is written to the mouse's memory and   *)
(* loaded from there. Any of the three may throw.                            *)
(***************************************************************************)
EXTENDS Integers, SequencesExt

CONSTANTS
  Profiles,         \* what scripts ask for: settings, buttons, modes
  GeneralSettings,  \* the types of the format's settings, by name, and those of
  ModeSettings,     \*   a mode
  Readable,         \* the <<type, value>> for which there is a text or an enumerator
  MaxProfiles       \* bound: how many are asked for

(* A setting's value is <<the alternative of setting_t, a number>>, a button's  *)
(* is <<the alternative of button_t, a sequence>>.                          *)
ASSUME TemporaryProfileAssumption == MaxProfiles \in Nat

VARIABLES
  stage,   \* "idle", "throws", "built" or "written"
  asking,  \* the call that is executed, a sequence of 0 or 1
  count,   \* how many there were
  built,   \* `profile', a sequence of 0 or 1
  memory,  \* the mouse's memory: a profile, or none that is complete
  inUse,   \* the profile that the mouse was told to load last
  loadedAs \* history: what the script asked for then

profileVars == <<stage, asking, count, built, memory, inUse, loadedAs>>
--------------------------------------------------------------------------------
(* SettingConvert, by the type of the setting                               *)
FitsSetting(type, value) ==
  CASE value[1] = "bool"   -> type = "Boolean"
    [] value[1] = "int"    -> \/ type \in {"Boolean", "Integer"}
                              \/ type = "Enum" /\ <<type, value[2]>> \in Readable
    [] value[1] = "string" -> <<type, value[2]>> \in Readable
    [] value[1] = "leds"   -> type = "LEDVector"

SettingConvert(type, value) == IF type = "Boolean" /\ value[2] # 0 THEN 1 ELSE value[2]

(* Names that the format does not have are ignored.                          *)
Known(given, desc) == DOMAIN given \cap DOMAIN desc
Convertible(given, desc) == \A n \in Known(given, desc) : FitsSetting(desc[n], given[n])
Converted(given, desc) == [n \in Known(given, desc) |-> SettingConvert(desc[n], given[n])]

(* BitField: the exception for a value that is too big is not thrown. The bit    *)
(* is cut off, but for a shift by more than an int has, whose result the       *)
(* processor chooses.                                                       *)
BitField(values, width, wraps) ==
  {v \in ToSet(values) : v \in 0 .. width - 1}
  \cup {b \in 0 .. width - 1 : wraps /\ \E v \in ToSet(values) : v \notin 0 .. 31 /\ v % 32 = b}

Given(props, name) == IF name \in DOMAIN props THEN props[name][2] ELSE << >>
Code(props, name) == IF name \in DOMAIN props THEN props[name][2][1] ELSE 0

Disabled == [type |-> "disabled", bits |-> {}, code |-> 0]

(* The properties in the order of their names: the last one to set the button   *)
(* stays, but for the key, which is set after them.                          *)
ButtonOf(props, wraps) ==
  LET key  == Code(props, "key") % 256
      mods == BitField(Given(props, "modifiers"), 8, wraps)
      Set(button, name) ==
        IF name \notin DOMAIN props THEN button
        ELSE IF name = "mouse-buttons"
        THEN [type |-> name, bits |-> BitField(props[name][2], 16, wraps), code |-> 0]
        ELSE [type |-> name, bits |-> {}, code |-> Code(props, name)]
  IN  IF key # 0 \/ mods # {} THEN [type |-> "key", bits |-> mods, code |-> key]
      ELSE Set(Set(Set(Disabled, "consumer-control"), "mouse-buttons"), "special")

(* std::get<int>                                                            *)
OneCode(props) ==
  \A name \in DOMAIN props \cap {"key", "special", "consumer-control"} : props[name][1] = "int"

Valid(p) ==
  /\ Convertible(p.settings, GeneralSettings)
  /\ \A k \in DOMAIN p.buttons : OneCode(p.buttons[k])
  /\ \A k \in DOMAIN p.modes : Convertible(p.modes[k], ModeSettings)

(* Plausible mistake: the settings of modes are looked for among the others.   *)
ProfileOf_GeneralForModes(p, wraps) ==
  [settings |-> Converted(p.settings, GeneralSettings),
   buttons  |-> [k \in DOMAIN p.buttons |-> ButtonOf(p.buttons[k], wraps)],
   modes    |-> [k \in DOMAIN p.modes |-> Converted(p.modes[k], GeneralSettings)]]

ProfileOf(p, wraps) ==
  [settings |-> Converted(p.settings, GeneralSettings),
   buttons  |-> [k \in DOMAIN p.buttons |-> ButtonOf(p.buttons[k], wraps)],
   modes    |-> [k \in DOMAIN p.modes |-> Converted(p.modes[k], ModeSettings)]]
--------------------------------------------------------------------------------
ProfileInit ==
  /\ stage = "idle" /\ count = 0
  /\ asking = << >> /\ built = << >> /\ memory = << >> /\ inUse = << >> /\ loadedAs = << >>

LoadTemporaryProfile(p) ==
  /\ stage = "idle" /\ count < MaxProfiles
  /\ asking' = <<p>> /\ count' = count + 1
  /\ IF Valid(p)
     THEN stage' = "built" /\ \E wraps \in BOOLEAN : built' = <<ProfileOf(p, wraps)>>
     ELSE stage' = "throws" /\ built' = << >>
  /\ UNCHANGED <<memory, inUse, loadedAs>>

(* write and sync                                                           *)
WriteProfile ==
  /\ stage = "built"
  /\ stage' = "written"
  /\ memory' = built
  /\ UNCHANGED <<asking, count, built, inUse, loadedAs>>

(* An exception leaves the call: of a conversion, of the write, which may have   *)
(* written a part, or of the load.                                           *)
ProfileFails ==
  /\ stage # "idle"
  /\ stage' = "idle"
  /\ asking' = << >> /\ built' = << >>
  /\ memory' \in {memory} \cup (IF stage = "built" THEN {<< >>} ELSE {})
  /\ UNCHANGED <<count, inUse, loadedAs>>

(* loadProfileFromAddress                                                   *)
LoadProfile ==
  /\ stage = "written"
  /\ stage' = "idle"
  /\ inUse' = memory /\ loadedAs' = asking
  /\ asking' = << >> /\ built' = << >>
  /\ UNCHANGED <<count, memory>>

ProfileNext ==
  (\E p \in Profiles : LoadTemporaryProfile(p)) \/ WriteProfile \/ ProfileFails \/ LoadProfile

ProfileSpec == ProfileInit /\ [][ProfileNext]_profileVars
--------------------------------------------------------------------------------
(* What the header says of a button's properties: a key or a modifier wins,     *)
(* then a special action, then mouse buttons; without any, it is disabled.      *)
InRange(values, width) == {v \in ToSet(values) : v \in 0 .. width - 1}
TooBig(values) == \E v \in ToSet(values) : v \notin 0 .. 31

ButtonAsAsked(button, props) ==
  LET mods  == Given(props, "modifiers")
      isKey == Code(props, "key") % 256 # 0 \/ InRange(mods, 8) # {}
      kind  == IF "special" \in DOMAIN props THEN "special"
               ELSE IF "mouse-buttons" \in DOMAIN props THEN "mouse-buttons"
               ELSE IF "consumer-control" \in DOMAIN props THEN "consumer-control" ELSE "disabled"
  IN  /\ button.type \in {kind, "key"}
      /\ isKey => button.type = "key"
      /\ button.type = "key" => isKey \/ TooBig(mods)
      /\ button.type = "key" =>
           /\ button.code = Code(props, "key") % 256
           /\ button.bits = InRange(mods, 8) \/ TooBig(mods)
      /\ button.type = "mouse-buttons" =>
           button.bits = InRange(props[kind][2], 16) \/ TooBig(props[kind][2])
      /\ button.type \in {"special", "consumer-control"} => button.code = Code(props, kind)

(* The mouse always uses the whole of what one call asked for: each of the      *)
(* settings that it has and the script gave, with the value given, and each     *)
(* button as asked; a call that fails half way, whatever it has written, leaves *)
(* the profile that was in use.                                             *)
ProfileAsAsked ==
  loadedAs # << >> =>
    LET p == loadedAs[1]  used == inUse[1]
        Same(given, desc, got) ==
          /\ DOMAIN got = Known(given, desc)
          /\ \A n \in DOMAIN got : got[n] = given[n][2] \/ (desc[n] = "Boolean" /\ given[n][2] # 0 /\ got[n] = 1)
    IN  /\ inUse # << >>
        /\ Same(p.settings, GeneralSettings, used.settings)
        /\ DOMAIN used.modes = DOMAIN p.modes /\ DOMAIN used.buttons = DOMAIN p.buttons
        /\ \A k \in DOMAIN p.modes : Same(p.modes[k], ModeSettings, used.modes[k])
        /\ \A k \in DOMAIN p.buttons : ButtonAsAsked(used.buttons[k], p.buttons[k])
================================================================================
