-------------------------------- MODULE Remapper --------------------------------
(***************************************************************************)
(* Remapper: simple events of an input device are sent, transformed, to a   *)
(* uinput device. A mapped event may have modifiers: it is passed while      *)
(* they are held, and reset when they are released. Remapper::event runs in  *)
(* the device's reader thread, the rest on the script's thread.              *)
(***************************************************************************)
EXTENDS Integers

CONSTANTS
  Sources,   \* events of the device, by type and code
  Levels,    \* their values
  Rules      \* the mapped events a script may add, each with an output of its own

Modifiers(r) == DOMAIN r.modifiers

ASSUME RemapperAssumption ==
  /\ Levels \subseteq Int
  /\ \A r \in Rules :
       /\ r.source \in Sources
       /\ {r.mult, r.offset, r.default} \subseteq Int
       /\ r.div \in Int \ {0}
       /\ Modifiers(r) \subseteq Sources
       /\ \A m \in Modifiers(r) : r.modifiers[m].min \in Int /\ r.modifiers[m].max \in Int

VARIABLES
  level,      \* the device's state, which getSimpleEvent reads
  untold,     \* the sources whose event of the last report is to come
  reading,    \* FALSE once an exception has ended the reader
  created,    \* the uinput device exists
  mapped,     \* _events
  listening,  \* _conn.connected ()
  held,       \* mapped_event::_state
  output,     \* the value that was sent last for each rule
  settled     \* history: the rules whose output was right when it was last sent

remapVars == <<level, untold, reading, created, mapped, listening, held, output, settled>>

Abs(n) == IF n < 0 THEN -n ELSE n

(* The quotient in C++ rounds toward zero.                                   *)
Quotient(a, b) == IF (a < 0) = (b < 0) THEN Abs(a) \div Abs(b) ELSE - (Abs(a) \div Abs(b))

Transformed(r, v) == Quotient(r.mult * v, r.div) + r.offset

(* mapped_event::testModifiers *)
TestModifiers(r) ==
  \A m \in Modifiers(r) : level[m] >= r.modifiers[m].min /\ level[m] <= r.modifiers[m].max

(* What the output of a rule should be, when every event has come.           *)
Expected(r) == IF TestModifiers(r) THEN Transformed(r, level[r.source]) ELSE r.default

Agrees(r) ==
  /\ output[r] = Expected(r)
  /\ Modifiers(r) = {} \/ held[r] = TestModifiers(r)

RemapInit ==
  /\ level \in [Sources -> Levels]
  /\ untold = {}
  /\ reading = TRUE
  /\ created = FALSE
  /\ mapped = {}
  /\ listening = FALSE
  /\ held = [r \in Rules |-> FALSE]
  /\ output = [r \in Rules |-> 0]
  /\ settled = {}
--------------------------------------------------------------------------------
(* The script: new Remapper, addEvent and the setters, connect, disconnect.   *)
AddEvent(r) ==
  /\ r \notin mapped
  /\ mapped' = mapped \cup {r}
  /\ settled' = IF Agrees(r) THEN settled \cup {r} ELSE settled
  /\ UNCHANGED <<level, untold, reading, created, listening, held, output>>

Listen ==
  /\ ~ listening
  /\ listening' = TRUE
  /\ settled' = {r \in mapped : Agrees(r)}
  /\ UNCHANGED <<level, untold, reading, created, mapped, held, output>>

Unlisten ==
  /\ listening' = FALSE
  /\ UNCHANGED <<level, untold, reading, created, mapped, held, output, settled>>

(* UInput::create, destroy: a new device's keys are up, its axes at 0.        *)
CreateOutput ==
  /\ ~ created
  /\ created' = TRUE
  /\ output' = [r \in Rules |-> 0]
  /\ UNCHANGED <<level, untold, reading, mapped, listening, held>>
  /\ settled' = {r \in mapped : Agrees(r)'}

DestroyOutput ==
  /\ created
  /\ created' = FALSE
  /\ UNCHANGED <<level, untold, reading, mapped, listening, held, output, settled>>
--------------------------------------------------------------------------------
(* The device read a report: its state is new, the events follow.            *)
DeviceReport ==
  /\ reading /\ untold = {}
  /\ level' \in [Sources -> Levels]
  /\ untold' = {s \in Sources : level'[s] # level[s]}
  /\ UNCHANGED <<reading, created, mapped, listening, held, output, settled>>

PassedOn(s) == {r \in mapped : r.source = s /\ TestModifiers(r)}

Switched(s) == {r \in mapped : s \in Modifiers(r) /\ held[r] # TestModifiers(r)}

(* Plausible mistake: only the press of a modifier is looked at.             *)
RemapEvent_NoReset(s) ==
  /\ reading /\ s \in untold
  /\ untold' = untold \ {s}
  /\ LET sends == IF listening THEN PassedOn(s) \cup Switched(s) ELSE {}
     IN  IF sends # {} /\ ~ created
         THEN reading' = FALSE /\ UNCHANGED <<held, output, settled>>
         ELSE /\ output' = [r \in Rules |->
                              IF r \in sends /\ TestModifiers(r)
                              THEN Transformed(r, level[r.source]) ELSE output[r]]
              /\ held' = [r \in Rules |-> IF r \in sends \cap Switched(s) THEN ~ held[r] ELSE held[r]]
              /\ settled' = settled \cup
                   {r \in sends : Modifiers(r) = {} \/ held'[r] = TestModifiers(r)}
              /\ UNCHANGED reading
  /\ UNCHANGED <<level, created, mapped, listening>>

(* Remapper::event: the mapped events of s, then those s is a modifier of. The *)
(* first send to a uinput device that does not exist throws: that ends the   *)
(* reader thread.                                                           *)
RemapEvent(s) ==
  /\ reading /\ s \in untold
  /\ untold' = untold \ {s}
  /\ LET sends == IF listening THEN PassedOn(s) \cup Switched(s) ELSE {}
     IN  IF sends # {} /\ ~ created
         THEN reading' = FALSE /\ UNCHANGED <<held, output, settled>>
         ELSE /\ output' = [r \in Rules |-> IF r \in sends THEN Expected(r) ELSE output[r]]
              /\ held' = [r \in Rules |-> IF r \in sends \cap Switched(s) THEN ~ held[r] ELSE held[r]]
              /\ settled' = settled \cup
                   {r \in sends : Modifiers(r) = {} \/ held'[r] = TestModifiers(r)}
              /\ UNCHANGED reading
  /\ UNCHANGED <<level, created, mapped, listening>>

RemapNext ==
  \/ \E r \in Rules : AddEvent(r)
  \/ Listen \/ Unlisten \/ CreateOutput \/ DestroyOutput
  \/ DeviceReport
  \/ \E s \in Sources : RemapEvent(s)

RemapSpec == RemapInit /\ [][RemapNext]_remapVars
--------------------------------------------------------------------------------
(* Types; only a rule with modifiers is ever held.                           *)
RemapTypeOK ==
  /\ level \in [Sources -> Levels]
  /\ untold \subseteq Sources
  /\ {reading, created, listening} \subseteq BOOLEAN
  /\ mapped \subseteq Rules
  /\ held \in [Rules -> BOOLEAN]
  /\ \A r \in Rules : held[r] => r \in mapped /\ Modifiers(r) # {}
  /\ output \in [Rules -> Int]
  /\ settled \subseteq mapped

(* "The default value is used when modifiers are released" (Remapper.h:102): *)
(* whatever the order of the events of a report, the output of a rule is     *)
(* its transformed source while its modifiers are held and its default       *)
(* otherwise, as soon as the events it depends on have come; except for a    *)
(* rule that was added, or connected, while its modifiers were already held   *)
(* (or otherwise at odds with its output) and has not been switched since.   *)
OutputFollows ==
  listening /\ reading /\ created =>
    \A r \in settled : ({r.source} \cup Modifiers(r)) \cap untold = {} => output[r] = Expected(r)
================================================================================
