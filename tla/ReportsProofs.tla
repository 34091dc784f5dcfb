----------------------------- MODULE ReportsProofs -----------------------------
(***************************************************************************)
(* What scripts are told by a Steam controller, for any inputs, any reports   *)
(* and any fuzz, and by a HID++ 2.0 mouse, for any set of buttons and controls  *)
(* and any length of their lists.                                            *)
(***************************************************************************)
EXTENDS SteamReports, HIDPP20Reports, SequenceTheorems, TLAPS

IsPending(i) == \E e \in unsent : i \in e.about

(* The state follows the report as closely as the fuzz allows.               *)
NearReport ==
  /\ report \in Reports
  /\ \A i \in PadAxes : Distance(state[i], report[i]) <= AxisFuzz
  /\ \A i \in SensorParts : Distance(state[i], report[i]) <= SensorFuzz

(* An event that carries what was reported is about an input that was stored.  *)
SentIsStored ==
  \A e \in unsent : e.kind \in {"axis", "trigger", "button"} =>
    \A i \in e.about : state[i] = Stored(i, report[i])

(* The script knows what no event is still to come for; an axis nobody tells   *)
(* although an event is to come was asked for.                               *)
Heard ==
  /\ \A i \in Exact : Reported(i) /\ ~ IsPending(i) => Byte(i, heard[i]) = Byte(i, state[i])
  /\ \A i \in PadAxes : ~ Reported(i) /\ IsPending(i) => heard[i] = state[i]
  /\ \A i \in SensorParts : ~ IsPending(i) => Distance(heard[i], state[i]) <= SensorFuzz

SteamInv == SteamTypeOK /\ NearReport /\ SentIsStored /\ Heard

LEMMA EventFacts ==
  ASSUME NEW e \in Events
  PROVE  /\ e.kind \in {"axis", "pad", "trigger", "button", "sensor", "syn"}
         /\ e.kind = "axis" => \E i \in PadAxes : e.about = {i}
         /\ e.kind = "trigger" => \E i \in Triggers : e.about = {i}
         /\ e.kind = "button" => \E i \in Buttons : e.about = {i}
         /\ e.kind = "pad" => e.about \in Pads /\ e.about \subseteq PadAxes
         /\ e.kind = "sensor" => e.about \in Sensors /\ e.about \subseteq SensorParts
         /\ e.kind = "syn" <=> e = Syn
         /\ e.kind = "syn" => e.about = {}
BY DEF Events, DataEvents, AxisEvents, PadEvents, Event, Syn, PadAxes, SensorParts

(* The four kinds of inputs.                                                 *)
LEMMA InputKinds ==
  ASSUME NEW i \in Inputs
  PROVE  /\ i \in PadAxes => i \notin Triggers /\ i \notin Buttons /\ i \notin SensorParts
         /\ i \in Triggers => i \notin Buttons /\ i \notin SensorParts
         /\ i \in Buttons => i \notin SensorParts
         /\ i \in Exact <=> i \notin SensorParts
BY SteamReportsAssumption DEF Inputs, Exact

(* The byte of a trigger keeps its value, but for its sign.                   *)
LEMMA StoredFacts ==
  ASSUME NEW r \in Reports, NEW i \in Inputs
  PROVE  /\ r[i] \in Int /\ Stored(i, r[i]) \in Int
         /\ Byte(i, Stored(i, r[i])) = Byte(i, r[i])
         /\ i \notin Triggers => Stored(i, r[i]) = r[i]
         /\ i \in Triggers => 2 * Stored(i, r[i]) \in - TriggerRange .. TriggerRange - 1
<1>1. r[i] \in Int
  BY SteamReportsAssumption
<1>2. CASE i \in Triggers
  <2>1. r[i] \in 0 .. TriggerRange - 1 /\ TriggerRange \in Nat \ {0}
    BY <1>2, SteamReportsAssumption
  <2> QED
    BY <1>2, <2>1 DEF Stored, Byte
<1>3. CASE i \notin Triggers
  BY <1>1, <1>3 DEF Stored, Byte
<1> QED
  BY <1>1, <1>2, <1>3

(* The fuzz of a kind of inputs.                                             *)
LEMMA FuzzFacts ==
  ASSUME NEW i \in Inputs
  PROVE  /\ Fuzz(i) \in Nat
         /\ i \in PadAxes => Fuzz(i) = AxisFuzz
         /\ i \in SensorParts => Fuzz(i) = SensorFuzz
         /\ i \in Buttons => Fuzz(i) = 0
BY InputKinds, SteamReportsAssumption DEF Fuzz, Inputs

(* A script that asks before any event knows the state.                      *)
LEMMA InitSteamInv == SteamInit => SteamInv
<1> SUFFICES ASSUME SteamInit PROVE SteamInv
  OBVIOUS
<1> USE DEF SteamInit
<1>1. \A i \in Inputs : state[i] = Stored(i, report[i])
  OBVIOUS
<1>2. SteamTypeOK
  <2>1. \A i \in Triggers : 2 * state[i] \in - TriggerRange .. TriggerRange - 1
    BY <1>1, StoredFacts DEF Inputs
  <2>2. report \in [Inputs -> Int] /\ state \in [Inputs -> Int]
    BY <1>1, StoredFacts, SteamReportsAssumption
  <2> QED
    BY <2>1, <2>2 DEF SteamTypeOK
<1>3. \A i \in Inputs : Distance(state[i], state[i]) = 0 /\ AxisFuzz \in Nat /\ SensorFuzz \in Nat
  BY <1>2, SteamReportsAssumption DEF Distance, SteamTypeOK
<1>4. \A i \in PadAxes \cup SensorParts : i \in Inputs /\ state[i] = report[i]
  BY <1>1, InputKinds, StoredFacts DEF Inputs
<1>5. NearReport
  BY <1>3, <1>4 DEF NearReport
<1>6. SentIsStored /\ Heard
  BY <1>3 DEF SentIsStored, Heard, IsPending, Inputs
<1> QED
  BY <1>2, <1>5, <1>6 DEF SteamInv
--------------------------------------------------------------------------------
(* What is sent for a report: an event about each input that moved, unless it  *)
(* is an axis nobody wants to hear of.                                       *)
LEMMA Sending ==
  ASSUME SteamTypeOK, NEW new \in Reports, ReadReport(new)
  PROVE  /\ unsent' \subseteq Events
         /\ \A e \in unsent' : e = Syn \/ \E i \in e.about : i \in Inputs /\ Moved(new, i)
         /\ \A i \in Inputs : Moved(new, i) /\ Reported(i) => \E e \in unsent' : i \in e.about
         /\ \A i \in PadAxes : ~ Reported(i) => ~ \E e \in unsent' : i \in e.about
<1> DEFINE moved   == {i \in Inputs : Moved(new, i)}
           enabled == DataEvents \ ((IF singleAxis THEN {} ELSE AxisEvents)
                                     \cup (IF linkedAxes THEN {} ELSE PadEvents))
           sent    == {e \in enabled : e.about \cap moved # {}}
<1>1. unsent' = sent \cup (IF sent = {} THEN {} ELSE {Syn})
  BY DEF ReadReport
<1>2. unsent' \subseteq Events
  BY <1>1 DEF Events
<1>3. \A e \in unsent' : e = Syn \/ \E i \in e.about : i \in Inputs /\ Moved(new, i)
  BY <1>1
<1>4. ASSUME NEW i \in Inputs, Moved(new, i), Reported(i)
      PROVE  \E e \in unsent' : i \in e.about
  <2>1. \A e \in enabled : i \in e.about => e \in unsent'
    BY <1>1, <1>4
  <2>2. \E e \in enabled : i \in e.about
    <3>1. CASE i \in PadAxes
      <4>1. PICK p \in Pads : i \in p
        BY <3>1 DEF PadAxes
      <4>2. Event("axis", {i}) \in AxisEvents /\ Event("pad", p) \in PadEvents
        BY <3>1, <4>1 DEF AxisEvents, PadEvents
      <4>3. \A e \in AxisEvents : e.kind = "axis"
        BY DEF AxisEvents, Event
      <4>4. \A e \in PadEvents : e.kind = "pad"
        BY DEF PadEvents, Event
      <4>5. AxisEvents \cap PadEvents = {}
        BY <4>3, <4>4
      <4>6. i \in Event("axis", {i}).about /\ i \in Event("pad", p).about
        BY <4>1 DEF Event
      <4>7. singleAxis \/ linkedAxes
        BY <1>4, <3>1 DEF Reported
      <4>8. CASE singleAxis
        BY <4>2, <4>5, <4>6, <4>8 DEF DataEvents
      <4>9. CASE linkedAxes
        BY <4>2, <4>5, <4>6, <4>9 DEF DataEvents
      <4> QED
        BY <4>7, <4>8, <4>9
    <3>2. CASE i \in Triggers
      <4>1. Event("trigger", {i}) \in DataEvents /\ i \in Event("trigger", {i}).about
        BY <3>2 DEF DataEvents, Event
      <4>2. Event("trigger", {i}).kind \notin {"axis", "pad"}
        BY DEF Event
      <4> QED
        BY <4>1, <4>2 DEF AxisEvents, PadEvents, Event
    <3>3. CASE i \in Buttons
      <4>1. Event("button", {i}) \in DataEvents /\ i \in Event("button", {i}).about
        BY <3>3 DEF DataEvents, Event
      <4>2. Event("button", {i}).kind \notin {"axis", "pad"}
        BY DEF Event
      <4> QED
        BY <4>1, <4>2 DEF AxisEvents, PadEvents, Event
    <3>4. CASE i \in SensorParts
      <4>1. PICK s \in Sensors : i \in s
        BY <3>4 DEF SensorParts
      <4>2. Event("sensor", s) \in DataEvents /\ i \in Event("sensor", s).about
        BY <4>1 DEF DataEvents, Event
      <4>3. Event("sensor", s).kind \notin {"axis", "pad"}
        BY DEF Event
      <4> QED
        BY <4>2, <4>3 DEF AxisEvents, PadEvents, Event
    <3> QED
      BY <3>1, <3>2, <3>3, <3>4 DEF Inputs
  <2> QED
    BY <2>1, <2>2
<1>5. ASSUME NEW i \in PadAxes, ~ Reported(i), NEW e \in unsent', i \in e.about
      PROVE  FALSE
  <2>1. e \in Events /\ e # Syn
    BY <1>2, <1>5 DEF Syn, Event
  <2>2. i \in Inputs /\ i \notin Triggers \cup Buttons \cup SensorParts
    BY InputKinds DEF Inputs
  <2>3. e.kind \in {"axis", "pad"}
    BY <1>5, <2>1, <2>2, EventFacts
  <2>4. e \in AxisEvents \cup PadEvents
    BY <2>1, <2>3 DEF Events, DataEvents, Event, Syn
  <2>5. ~ singleAxis /\ ~ linkedAxes
    BY <1>5 DEF Reported
  <2>6. e \notin sent
    BY <2>4, <2>5
  <2> QED
    BY <1>1, <2>1, <2>6
<1> QED
  BY <1>2, <1>3, <1>4, <1>5

(* What becomes of the state: it is the report's, or within the fuzz of it.    *)
LEMMA Storing ==
  ASSUME SteamTypeOK, NEW new \in Reports, ReadReport(new)
  PROVE  /\ state' \in [Inputs -> Int]
         /\ \A i \in Inputs : Moved(new, i) => state'[i] = Stored(i, new[i])
         /\ \A i \in Inputs : ~ Moved(new, i) => state'[i] = state[i]
<1>1. state' = [i \in Inputs |->
         IF i \in {j \in Inputs : Moved(new, j)} THEN Stored(i, new[i]) ELSE state[i]]
  BY DEF ReadReport
<1>2. \A i \in Inputs : state[i] \in Int /\ Stored(i, new[i]) \in Int
  BY StoredFacts DEF SteamTypeOK
<1> QED
  BY <1>1, <1>2

LEMMA ReadKeepsInv ==
  ASSUME SteamInv, NEW new \in Reports, ReadReport(new)
  PROVE  SteamInv'
<1> USE DEF SteamInv
<1>1. /\ unsent = {} /\ report' = new
      /\ singleAxis' = singleAxis /\ linkedAxes' = linkedAxes /\ heard' = heard
  BY DEF ReadReport
<1>2. SteamTypeOK'
  <2>1. \A i \in Triggers : 2 * state'[i] \in - TriggerRange .. TriggerRange - 1
    BY Storing, StoredFacts DEF SteamTypeOK, Inputs
  <2> QED
    BY <1>1, <2>1, Storing, Sending, SteamReportsAssumption DEF SteamTypeOK
<1>3. NearReport'
  <2>1. ASSUME NEW i \in PadAxes \cup SensorParts PROVE Distance(state'[i], new[i]) <= Fuzz(i)
    <3>1. i \in Inputs /\ i \notin Triggers
      BY InputKinds DEF Inputs
    <3>2. CASE Moved(new, i)
      <4>1. state'[i] = new[i] /\ new[i] \in Int /\ Fuzz(i) \in Nat
        BY <3>1, <3>2, Storing, StoredFacts, FuzzFacts
      <4> QED
        BY <4>1 DEF Distance
    <3>3. CASE ~ Moved(new, i)
      <4>1. state'[i] = state[i] /\ new[i] \in Int /\ state[i] \in Int /\ Fuzz(i) \in Nat
        BY <3>1, <3>3, Storing, StoredFacts, FuzzFacts DEF SteamTypeOK
      <4> QED
        BY <3>3, <4>1 DEF Moved, Distance
    <3> QED
      BY <3>2, <3>3
  <2>2. \A i \in PadAxes : Fuzz(i) = AxisFuzz
    BY FuzzFacts DEF Inputs
  <2>3. \A i \in SensorParts : Fuzz(i) = SensorFuzz
    BY FuzzFacts DEF Inputs
  <2> QED
    BY <1>1, <2>1, <2>2, <2>3 DEF NearReport
<1>4. SentIsStored'
  <2> SUFFICES ASSUME NEW e \in unsent', e.kind \in {"axis", "trigger", "button"},
                      NEW i \in e.about
               PROVE  state'[i] = Stored(i, new[i])
    BY <1>1 DEF SentIsStored
  <2>1. e \in Events /\ e # Syn
    BY Sending DEF Syn, Event
  <2>2. PICK j \in e.about : j \in Inputs /\ Moved(new, j)
    BY <2>1, Sending
  <2>3. i = j
    BY <2>1, <2>2, EventFacts
  <2> QED
    BY <2>2, <2>3, Storing
<1>5. Heard'
  <2>1. \A i : ~ IsPending(i)
    BY <1>1 DEF IsPending
  <2>2. \A i \in Inputs : Reported(i)' = Reported(i)
    BY <1>1 DEF Reported
  <2>3. \A i \in Inputs : Reported(i) /\ ~ IsPending(i)' => state'[i] = state[i]
    BY Sending, Storing DEF IsPending
  <2>4. \A i \in PadAxes : ~ Reported(i) => ~ IsPending(i)'
    BY Sending DEF IsPending
  <2>5. \A i \in SensorParts : i \in Inputs /\ Reported(i)
    BY InputKinds DEF Reported, Inputs
  <2>6. \A i \in Exact : Reported(i)' /\ ~ IsPending(i)' => Byte(i, heard'[i]) = Byte(i, state'[i])
    BY <1>1, <2>1, <2>2, <2>3 DEF Heard, Exact, Inputs
  <2>7. \A i \in PadAxes : ~ Reported(i)' /\ IsPending(i)' => heard'[i] = state'[i]
    BY <2>2, <2>4 DEF Inputs
  <2>8. \A i \in SensorParts : ~ IsPending(i)' => Distance(heard'[i], state'[i]) <= SensorFuzz
    BY <1>1, <2>1, <2>3, <2>5 DEF Heard
  <2> QED
    BY <2>6, <2>7, <2>8 DEF Heard
<1> QED
  BY <1>2, <1>3, <1>4, <1>5

(* What an event tells the script.                                           *)
LEMMA Hearing ==
  ASSUME SteamInv, NEW e \in Events, SendEvent(e)
  PROVE  /\ heard' \in [Inputs -> Int]
         /\ \A i \in Inputs \ e.about : heard'[i] = heard[i]
         /\ \A i \in Exact \cap e.about : Byte(i, heard'[i]) = Byte(i, state[i])
         /\ \A i \in PadAxes \cap e.about : heard'[i] = state[i]
         /\ \A i \in SensorParts \cap e.about : heard'[i] = report[i]
<1>1. heard' = [i \in Inputs |->
        IF i \notin e.about THEN heard[i] ELSE IF e.kind = "pad" THEN state[i] ELSE report[i]]
  BY DEF SendEvent
<1>2. \A i \in Inputs : heard[i] \in Int /\ state[i] \in Int /\ report[i] \in Int
  BY DEF SteamInv, SteamTypeOK
<1>3. e \in unsent /\ report \in Reports
  BY DEF SendEvent, SteamInv, NearReport
<1>4. ASSUME NEW i \in Exact, i \in e.about
      PROVE  /\ Byte(i, heard'[i]) = Byte(i, state[i])
             /\ i \in PadAxes => heard'[i] = state[i]
  <2>1. i \in Inputs /\ i \notin SensorParts
    BY InputKinds DEF Exact, Inputs
  <2>2. CASE e.kind = "pad"
    BY <1>1, <1>4, <2>1, <2>2
  <2>3. CASE e.kind # "pad"
    <3>1. e.kind \in {"axis", "trigger", "button"}
      BY <1>4, <2>1, <2>3, EventFacts
    <3>2. state[i] = Stored(i, report[i])
      BY <1>3, <1>4, <3>1 DEF SteamInv, SentIsStored
    <3>3. i \in PadAxes => i \notin Triggers
      BY <2>1, InputKinds
    <3> QED
      BY <1>1, <1>3, <1>4, <2>1, <2>3, <3>2, <3>3, StoredFacts
  <2> QED
    BY <2>2, <2>3
<1>5. ASSUME NEW i \in SensorParts, i \in e.about PROVE heard'[i] = report[i]
  <2>1. i \in Inputs /\ i \notin PadAxes
    BY InputKinds DEF Inputs
  <2>2. e.kind # "pad"
    BY <1>5, <2>1, EventFacts
  <2> QED
    BY <1>1, <1>5, <2>1, <2>2
<1>6. PadAxes \subseteq Exact
  BY DEF Exact
<1> QED
  BY <1>1, <1>2, <1>4, <1>5, <1>6

LEMMA SendKeepsInv ==
  ASSUME SteamInv, NEW e \in Events, SendEvent(e)
  PROVE  SteamInv'
<1> USE DEF SteamInv
<1>1. /\ e \in unsent /\ unsent' = unsent \ {e}
      /\ UNCHANGED <<state, report, singleAxis, linkedAxes>>
  BY DEF SendEvent
<1>2. SteamTypeOK'
  BY <1>1, Hearing DEF SteamTypeOK
<1>3. NearReport' /\ SentIsStored'
  BY <1>1 DEF NearReport, SentIsStored
<1>4. \A i : IsPending(i) <=> IsPending(i)' \/ i \in e.about
  BY <1>1 DEF IsPending
<1>5. \A i : Reported(i)' = Reported(i)
  BY <1>1 DEF Reported
<1>6. ASSUME NEW i \in Exact, Reported(i), ~ IsPending(i)'
      PROVE  Byte(i, heard'[i]) = Byte(i, state[i])
  BY <1>4, <1>6, Hearing DEF Heard, Exact, Inputs
<1>7. ASSUME NEW i \in PadAxes, ~ Reported(i), IsPending(i)' PROVE heard'[i] = state[i]
  BY <1>4, <1>7, Hearing DEF Heard, Inputs
<1>8. ASSUME NEW i \in SensorParts, ~ IsPending(i)'
      PROVE  Distance(heard'[i], state[i]) <= SensorFuzz
  <2>1. i \in Inputs
    BY DEF Inputs
  <2>2. CASE i \in e.about
    <3>1. heard'[i] = report[i] /\ state[i] \in Int /\ report[i] \in Int
      BY <2>1, <2>2, Hearing DEF SteamTypeOK
    <3>2. Distance(state[i], report[i]) <= SensorFuzz
      BY DEF NearReport
    <3> QED
      BY <3>1, <3>2 DEF Distance
  <2>3. CASE i \notin e.about
    BY <1>4, <1>8, <2>1, <2>3, Hearing DEF Heard
  <2> QED
    BY <2>2, <2>3
<1>9. Heard'
  BY <1>1, <1>5, <1>6, <1>7, <1>8 DEF Heard
<1> QED
  BY <1>2, <1>3, <1>9

LEMMA ModeKeepsInv ==
  ASSUME SteamInv, NEW single \in BOOLEAN, NEW linked \in BOOLEAN,
         SetTouchPadEventMode(single, linked)
  PROVE  SteamInv'
<1> USE DEF SteamInv, SetTouchPadEventMode
<1>1. SteamTypeOK'
  BY DEF SteamTypeOK
<1>2. NearReport' /\ SentIsStored'
  BY DEF NearReport, SentIsStored
<1>3. \A i : IsPending(i)' = IsPending(i)
  BY DEF IsPending
<1>4. \A i \in Inputs : heard'[i] = IF i \in PadAxes THEN state[i] ELSE heard[i]
  OBVIOUS
<1>5. \A i \in Inputs \ PadAxes : Reported(i) /\ Reported(i)'
  BY DEF Reported
<1>6. \A i \in SensorParts : i \in Inputs /\ i \notin PadAxes
  BY InputKinds DEF Inputs
<1>7. Heard'
  BY <1>3, <1>4, <1>5, <1>6 DEF Heard, Exact, Inputs
<1> QED
  BY <1>1, <1>2, <1>7

LEMMA NextKeepsSteamInv == SteamInv /\ [SteamNext]_steamVars => SteamInv'
<1> SUFFICES ASSUME SteamInv, [SteamNext]_steamVars PROVE SteamInv'
  OBVIOUS
<1>1. CASE UNCHANGED steamVars
  BY <1>1 DEF SteamInv, SteamTypeOK, NearReport, SentIsStored, Heard, IsPending, Reported, steamVars
<1>2. CASE SteamNext
  BY <1>2, ReadKeepsInv, SendKeepsInv, ModeKeepsInv DEF SteamNext
<1> QED
  BY <1>1, <1>2

LEMMA SteamInvariance == SteamSpec => []SteamInv
BY InitSteamInv, NextKeepsSteamInv, PTL DEF SteamSpec

(* State, report and what was told are numbers, and a trigger's is that of an  *)
(* int8_t.                                                                   *)
THEOREM SteamTypeCorrect == SteamSpec => []SteamTypeOK
<1>1. SteamInv => SteamTypeOK
  BY DEF SteamInv
<1> QED
  BY <1>1, SteamInvariance, PTL

(* However slowly an axis drifts, readEvent tells it before it is further than *)
(* AxisFuzz from what the script knows.                                      *)
THEOREM AxesStayWithinFuzz == SteamSpec => []AxesWithinFuzz
<1>1. SteamInv => AxesWithinFuzz
  <2> SUFFICES ASSUME SteamInv, unsent = {}, NEW i \in PadAxes, Reported(i)
               PROVE  Distance(heard[i], report[i]) <= AxisFuzz
    BY DEF AxesWithinFuzz
  <2>1. i \in Inputs /\ i \in Exact /\ i \notin Triggers
    BY InputKinds DEF Inputs, Exact
  <2>2. heard[i] = state[i]
    BY <2>1 DEF SteamInv, Heard, IsPending, Byte
  <2> QED
    BY <2>2 DEF SteamInv, NearReport
<1> QED
  BY <1>1, SteamInvariance, PTL

(* Sensor events and answers differ by the fuzz at most.                     *)
THEOREM SensorsStayWithinFuzz == SteamSpec => []SensorsWithinFuzz
<1>1. SteamInv => SensorsWithinFuzz
  <2> SUFFICES ASSUME SteamInv, unsent = {}, NEW i \in SensorParts
               PROVE  /\ Distance(heard[i], state[i]) <= SensorFuzz
                      /\ Distance(heard[i], report[i]) <= 2 * SensorFuzz
    BY DEF SensorsWithinFuzz
  <2>1. i \in Inputs
    BY DEF Inputs
  <2>2. heard[i] \in Int /\ state[i] \in Int /\ report[i] \in Int /\ SensorFuzz \in Nat
    BY <2>1, SteamReportsAssumption DEF SteamInv, SteamTypeOK
  <2>3. Distance(heard[i], state[i]) <= SensorFuzz /\ Distance(state[i], report[i]) <= SensorFuzz
    BY DEF SteamInv, Heard, NearReport, IsPending
  <2> QED
    BY <2>2, <2>3 DEF Distance
<1> QED
  BY <1>1, SteamInvariance, PTL
--------------------------------------------------------------------------------
(* The SYN event is the last of a report.                                    *)
LEMMA SynIsLast == ASSUME NEW e \in Events, e # Syn PROVE Before(e, Syn)
<1>1. e.kind \in {"axis", "pad", "trigger", "button", "sensor"}
  BY EventFacts
<1>2. Syn.kind = "syn"
  BY DEF Syn, Event
<1> QED
  BY <1>1, <1>2 DEF Before

(* When a script gets the SYN event, it knows the state of all that changed.  *)
THEOREM SynEndsReport == SteamSpec => SynClosesReport
<1>1. SteamInv /\ SteamInv' /\ [SteamNext]_steamVars =>
        [(Syn \in unsent /\ Syn \notin unsent') => AllTold']_steamVars
  <2> SUFFICES ASSUME SteamInv, SteamInv', SteamNext, Syn \in unsent, Syn \notin unsent'
               PROVE  AllTold'
    OBVIOUS
  <2>1. PICK e \in Events : SendEvent(e)
    BY DEF SteamNext, ReadReport, SetTouchPadEventMode
  <2>2. e = Syn
    BY <2>1 DEF SendEvent
  <2>3. \A f \in unsent : f \in Events /\ ~ Before(f, Syn)
    BY <2>1, <2>2 DEF SendEvent, SteamInv, SteamTypeOK
  <2>4. unsent' = {}
    BY <2>1, <2>2, <2>3, SynIsLast DEF SendEvent
  <2> QED
    BY <2>4 DEF SteamInv, Heard, IsPending, AllTold
<1> QED
  BY <1>1, SteamInvariance, PTL DEF SteamSpec, SynClosesReport
--------------------------------------------------------------------------------
(* The state as InputDevice sees it.                                         *)
LEMMA MappedTypes ==
  ASSUME SteamTypeOK
  PROVE  /\ SteamValue \in [Exact -> Int] /\ SteamTold \in [Exact -> Int]
         /\ \A i \in Exact : i \in Inputs
         /\ SteamPending \in SUBSET Exact
         /\ \A i \in Exact : SteamTold[i] = Byte(i, heard[i])
         /\ \A i \in Exact : Reported(i) => SteamValue[i] = Byte(i, state[i])
         /\ \A i \in Exact : ~ Reported(i) => SteamValue[i] = Byte(i, heard[i])
<1>1. \A i \in Exact : i \in Inputs
  BY DEF Exact, Inputs
<1>2. \A i \in Exact, v \in Int : Byte(i, v) \in Int
  BY SteamReportsAssumption DEF Byte
<1>3. \A i \in Exact : Byte(i, heard[i]) \in Int /\ Byte(i, state[i]) \in Int
  BY <1>1, <1>2 DEF SteamTypeOK
<1> QED
  BY <1>1, <1>3 DEF SteamValue, SteamTold, SteamPending

LEMMA SteamInitPromise == SteamInit => Told!DeviceInit
<1> SUFFICES ASSUME SteamInit PROVE Told!DeviceInit
  OBVIOUS
<1>1. SteamTypeOK
  BY InitSteamInv DEF SteamInv
<1>2. SteamPending = {}
  BY DEF SteamInit, SteamPending
<1>3. \A i \in Exact : SteamTold[i] = SteamValue[i]
  BY <1>1, MappedTypes DEF SteamInit
<1>4. SteamTold = SteamValue
  BY <1>1, <1>3, MappedTypes
<1> QED
  BY <1>1, <1>2, <1>4, MappedTypes DEF Told!DeviceInit

(* The same in the next state.                                               *)
LEMMA MappedNext ==
  ASSUME SteamTypeOK'
  PROVE  /\ SteamValue' \in [Exact -> Int] /\ SteamTold' \in [Exact -> Int]
         /\ SteamPending' \in SUBSET Exact
         /\ \A i \in Exact : SteamTold'[i] = Byte(i, heard'[i])
         /\ \A i \in Exact : Reported(i)' => SteamValue'[i] = Byte(i, state'[i])
         /\ \A i \in Exact : ~ Reported(i)' => SteamValue'[i] = Byte(i, heard'[i])
<1>1. \A i \in Exact : i \in Inputs
  BY DEF Exact, Inputs
<1>2. \A i \in Exact, v \in Int : Byte(i, v) \in Int
  BY SteamReportsAssumption DEF Byte
<1>3. \A i \in Exact : Byte(i, heard'[i]) \in Int /\ Byte(i, state'[i]) \in Int
  BY <1>1, <1>2 DEF SteamTypeOK
<1> QED
  BY <1>1, <1>3 DEF SteamValue, SteamTold, SteamPending

(* The whole report is stored before its first event is sent.                *)
LEMMA ReadPromise ==
  ASSUME SteamInv, SteamInv', NEW new \in Reports, ReadReport(new)
  PROVE  Told!Report
<1>1. /\ unsent = {} /\ singleAxis' = singleAxis /\ linkedAxes' = linkedAxes /\ heard' = heard
  BY DEF ReadReport
<1>2. SteamPending = {} /\ SteamTold' = SteamTold
  BY <1>1 DEF SteamPending, SteamTold
<1>3. \A i : Reported(i)' = Reported(i)
  BY <1>1 DEF Reported
<1>4. ASSUME NEW i \in Exact \ SteamPending' PROVE SteamValue'[i] = SteamValue[i]
  <2>1. i \in Inputs
    BY DEF Exact, Inputs
  <2>2. ~ \E e \in unsent' : i \in e.about
    BY <1>4 DEF SteamPending
  <2>3. Reported(i) => state'[i] = state[i]
    BY <2>1, <2>2, Sending, Storing DEF SteamInv
  <2> QED
    BY <1>1, <1>3, <1>4, <2>3, MappedTypes, MappedNext DEF SteamInv
<1> QED
  BY <1>2, <1>4, MappedNext DEF Told!Report, SteamInv

LEMMA SendPromise ==
  ASSUME SteamInv, SteamInv', NEW e \in Events, SendEvent(e)
  PROVE  Told!Tell
<1>1. /\ e \in unsent /\ unsent' = unsent \ {e}
      /\ UNCHANGED <<state, report, singleAxis, linkedAxes>>
  BY DEF SendEvent
<1>2. \A i : Reported(i)' = Reported(i)
  BY <1>1 DEF Reported
<1>3. \A i \in Exact : i \in Inputs /\ (~ Reported(i) => i \in PadAxes)
  BY DEF Reported, Exact, Inputs
<1>4. ASSUME NEW i \in Exact, i \in e.about
      PROVE  SteamTold'[i] = SteamValue[i] /\ SteamValue'[i] = SteamValue[i]
  <2>1. Byte(i, heard'[i]) = Byte(i, state[i])
    BY <1>4, Hearing
  <2>2. ~ Reported(i) => heard[i] = state[i] /\ heard'[i] = state[i]
    BY <1>1, <1>3, <1>4, Hearing DEF SteamInv, Heard, IsPending
  <2> QED
    BY <1>1, <1>2, <2>1, <2>2, MappedTypes, MappedNext DEF SteamInv
<1>5. ASSUME NEW i \in Exact, i \notin e.about
      PROVE  SteamTold'[i] = SteamTold[i] /\ SteamValue'[i] = SteamValue[i]
  <2>1. heard'[i] = heard[i]
    BY <1>3, <1>5, Hearing
  <2> QED
    BY <1>1, <1>2, <2>1, MappedTypes, MappedNext DEF SteamInv
<1>6. SteamValue' = SteamValue
  BY <1>4, <1>5, MappedTypes, MappedNext DEF SteamInv
<1>7. SteamPending' \in SUBSET SteamPending /\ SteamPending \ SteamPending' \subseteq e.about
  BY <1>1 DEF SteamPending
<1>8. \A i \in Exact : SteamTold'[i] \in {SteamTold[i], SteamValue[i]}
  BY <1>4, <1>5
<1>9. \A i \in SteamPending \ SteamPending' : SteamTold'[i] = SteamValue[i]
  BY <1>4, <1>7 DEF SteamPending
<1> QED
  BY <1>6, <1>7, <1>8, <1>9, MappedNext DEF Told!Tell, SteamInv

(* The script asks for the axes, and then knows them.                        *)
LEMMA ModePromise ==
  ASSUME SteamInv, SteamInv', NEW single \in BOOLEAN, NEW linked \in BOOLEAN,
         SetTouchPadEventMode(single, linked)
  PROVE  Told!Ask
<1> USE DEF SetTouchPadEventMode
<1>1. SteamPending' = SteamPending
  BY DEF SteamPending
<1>2. ASSUME NEW i \in Exact
      PROVE  \/ SteamValue'[i] = SteamValue[i] /\ SteamTold'[i] = SteamTold[i]
             \/ SteamTold'[i] = SteamValue'[i]
  <2>1. i \in Inputs
    BY DEF Exact, Inputs
  <2>2. CASE i \in PadAxes
    <3>1. heard'[i] = state[i] /\ state' = state
      BY <2>1, <2>2
    <3> QED
      BY <3>1, MappedNext DEF SteamInv
  <2>3. CASE i \notin PadAxes
    <3>1. heard'[i] = heard[i] /\ state' = state /\ Reported(i) /\ Reported(i)'
      BY <2>1, <2>3 DEF Reported, SteamInv, SteamTypeOK
    <3>2. SteamTold[i] = Byte(i, heard[i]) /\ SteamValue[i] = Byte(i, state[i])
      BY <3>1, MappedTypes DEF SteamInv
    <3>3. SteamTold'[i] = Byte(i, heard'[i]) /\ SteamValue'[i] = Byte(i, state'[i])
      BY <3>1, MappedNext DEF SteamInv
    <3> QED
      BY <3>1, <3>2, <3>3
  <2> QED
    BY <2>2, <2>3
<1> QED
  BY <1>1, <1>2, MappedNext DEF Told!Ask, SteamInv

LEMMA SteamNextPromise ==
  SteamInv /\ SteamInv' /\ [SteamNext]_steamVars => [Told!DeviceNext]_(Told!deviceVars)
<1> SUFFICES ASSUME SteamInv, SteamInv', [SteamNext]_steamVars
             PROVE  [Told!DeviceNext]_(Told!deviceVars)
  OBVIOUS
<1>1. CASE UNCHANGED steamVars
  BY <1>1 DEF steamVars, SteamValue, SteamTold, SteamPending, Reported, Told!deviceVars
<1>2. CASE SteamNext
  BY <1>2, ReadPromise, SendPromise, ModePromise DEF SteamNext, Told!DeviceNext
<1> QED
  BY <1>1, <1>2

(* Whoever applies the events of a Steam controller knows its axes, triggers   *)
(* and buttons when readEvent has returned: it implements InputDevice.        *)
THEOREM SteamKeepsPromise == SteamSpec => SteamToldSpec
BY SteamInitPromise, SteamInvariance, SteamNextPromise, PTL
   DEF SteamSpec, SteamToldSpec, Told!DeviceSpec
--------------------------------------------------------------------------------
(* How far the lists were compared: while the old one is being read, each     *)
(* control of the new one that was passed is also one of the old.            *)
Progress ==
  /\ oldI \in 1 .. Len(buttons) + 1 \/ ~ diverting
  /\ newI \in 1 .. Len(incoming) + 1 \/ ~ diverting
  /\ diverting /\ oldI <= Len(buttons) =>
       \A j \in 1 .. newI - 1 : \E k \in 1 .. oldI - 1 : incoming[j] = buttons[k]

(* The script knows whatever no event is still to come for.                  *)
Known ==
  /\ \A b \in MouseButtons \ changed : known[b] = Bit(b \in mouse)
  /\ \A s \in Settings \ announced : known[s] = current[s]
  /\ \A c \in Controls : known[c] \in {0, 1}
  /\ ~ diverting => \A c \in Controls : known[c] = Bit(c \in Elements(buttons))

HidInv == HidTypeOK /\ Progress /\ Known /\ DiffIsRight

(* The lists of pressed controls are sequences without repetitions.          *)
LEMMA ListFacts ==
  ASSUME NEW s \in Lists
  PROVE  /\ s \in Seq(Controls)
         /\ Len(s) \in Nat
         /\ DOMAIN s = 1 .. Len(s)
         /\ \A j \in 1 .. Len(s) : s[j] \in Controls
         /\ \A j, k \in 1 .. Len(s) : s[j] = s[k] => j = k
<1>1. PICK n \in 0 .. MaxPressed :
        /\ s \in [1 .. n -> Controls]
        /\ \A j, k \in 1 .. n : s[j] = s[k] => j = k
  BY DEF Lists
<1>2. n \in Nat
  BY HIDPP20ReportsAssumption
<1>3. s \in Seq(Controls) /\ Len(s) = n
  BY <1>1, <1>2, SeqDef
<1> QED
  BY <1>1, <1>2, <1>3

LEMMA EmptyIsList == <<>> \in Lists
<1>1. <<>> \in [1 .. 0 -> Controls]
  OBVIOUS
<1>2. 0 \in 0 .. MaxPressed
  BY HIDPP20ReportsAssumption
<1>3. \A j, k \in 1 .. 0 : <<>>[j] = <<>>[k] => j = k
  OBVIOUS
<1> QED
  BY <1>1, <1>2, <1>3 DEF Lists

(* Initially no control is pressed, and none is known to be.                 *)
LEMMA InitHidInv == HidInit => HidInv
<1> SUFFICES ASSUME HidInit PROVE HidInv
  OBVIOUS
<1> USE DEF HidInit
<1>1. HidTypeOK
  <2>1. known \in [HidInputs -> SettingValues]
    BY HIDPP20ReportsAssumption DEF HidInputs
  <2> QED
    BY <2>1, EmptyIsList DEF HidTypeOK
<1>2. Progress /\ DiffIsRight
  BY DEF Progress, DiffIsRight
<1>3. \A i \in MouseButtons \cup Controls : known[i] = 0 /\ i \notin Settings
  BY HIDPP20ReportsAssumption DEF HidInputs
<1>4. \A s \in Settings : known[s] = current[s]
  BY DEF HidInputs
<1>5. Elements(buttons) = {}
  BY DEF Elements
<1> QED
  BY <1>1, <1>2, <1>3, <1>4, <1>5 DEF HidInv, Known, Bit
--------------------------------------------------------------------------------
(* Elements as the set of a sequence's items at positions 1 to its length.    *)
LEMMA ElementsOf ==
  ASSUME NEW s \in Lists, NEW c
  PROVE  c \in Elements(s) <=> \E k \in 1 .. Len(s) : s[k] = c
BY ListFacts DEF Elements

(* Bits that change are told one by one, whatever the order.                  *)
LEMMA MouseKeepsInv ==
  ASSUME HidInv, \/ \E new \in SUBSET MouseButtons : MouseReport(new)
                 \/ \E b \in MouseButtons : SendButton(b)
  PROVE  HidInv'
<1> USE DEF HidInv
<1>1. ASSUME NEW new \in SUBSET MouseButtons, MouseReport(new) PROVE HidInv'
  <2> USE <1>1 DEF MouseReport, divertVars, settingVars
  <2>1. HidTypeOK'
    BY DEF HidTypeOK
  <2>2. Progress' /\ DiffIsRight'
    BY DEF Progress, DiffIsRight
  <2>3. \A b \in MouseButtons \ changed' : known'[b] = Bit(b \in mouse')
    BY DEF Known, Idle, Bit
  <2> QED
    BY <2>1, <2>2, <2>3 DEF Known
<1>2. ASSUME NEW b \in MouseButtons, SendButton(b) PROVE HidInv'
  <2> USE <1>2 DEF SendButton, divertVars, settingVars
  <2>1. Bit(b \in mouse) \in {0, 1}
    BY DEF Bit
  <2>2. known' = [known EXCEPT ![b] = Bit(b \in mouse)]
    BY DEF Says
  <2>3. b \notin Controls \cup Settings /\ b \in HidInputs
    BY HIDPP20ReportsAssumption DEF HidInputs
  <2>4. HidTypeOK'
    BY <2>1, <2>2, HIDPP20ReportsAssumption DEF HidTypeOK
  <2>5. \A c \in Controls \cup Settings : known'[c] = known[c]
    BY <2>2, <2>3 DEF HidTypeOK
  <2>6. Progress' /\ DiffIsRight'
    <3>1. {c \in Controls : known'[c] = 1} = {c \in Controls : known[c] = 1}
      BY <2>5
    <3>2. DiffIsRight'
      BY <3>1 DEF DiffIsRight
    <3> QED
      BY <3>2 DEF Progress
  <2>7. \A o \in MouseButtons \ changed' : known'[o] = Bit(o \in mouse')
    BY <2>2, <2>3 DEF Known, HidTypeOK, HidInputs
  <2> QED
    BY <2>4, <2>5, <2>6, <2>7 DEF Known
<1> QED
  BY <1>1, <1>2

(* The profile and the resolution are told after they were stored.           *)
LEMMA SettingsKeepInv ==
  ASSUME HidInv, \/ \E s \in Settings, new \in SettingValues : SettingReport(s, new)
                 \/ \E s \in Settings : SendSetting(s)
  PROVE  HidInv'
<1> USE DEF HidInv
<1>1. ASSUME NEW s \in Settings, NEW new \in SettingValues, SettingReport(s, new) PROVE HidInv'
  <2> USE <1>1 DEF SettingReport, divertVars, mouseVars
  <2>1. HidTypeOK'
    BY DEF HidTypeOK
  <2>2. Progress' /\ DiffIsRight'
    BY DEF Progress, DiffIsRight
  <2>3. \A o \in Settings \ announced' : known'[o] = current'[o]
    BY DEF Known, Idle, HidTypeOK
  <2> QED
    BY <2>1, <2>2, <2>3 DEF Known
<1>2. ASSUME NEW s \in Settings, SendSetting(s) PROVE HidInv'
  <2> USE <1>2 DEF SendSetting, divertVars, mouseVars
  <2>1. known' = [known EXCEPT ![s] = current[s]] /\ current[s] \in SettingValues
    BY DEF Says, HidTypeOK
  <2>2. s \notin Controls \cup MouseButtons /\ s \in HidInputs
    BY HIDPP20ReportsAssumption DEF HidInputs
  <2>3. HidTypeOK'
    BY <2>1 DEF HidTypeOK
  <2>4. \A c \in Controls \cup MouseButtons : known'[c] = known[c]
    BY <2>1, <2>2 DEF HidTypeOK
  <2>5. Progress' /\ DiffIsRight'
    <3>1. {c \in Controls : known'[c] = 1} = {c \in Controls : known[c] = 1}
      BY <2>4
    <3>2. DiffIsRight'
      BY <3>1 DEF DiffIsRight
    <3> QED
      BY <3>2 DEF Progress
  <2>6. \A o \in Settings \ announced' : known'[o] = current'[o]
    BY <2>1, <2>2 DEF Known, HidTypeOK, HidInputs
  <2> QED
    BY <2>3, <2>4, <2>5, <2>6 DEF Known
<1> QED
  BY <1>1, <1>2

(* A list is received: its comparison begins at the first items.             *)
LEMMA DivertedKeepsInv ==
  ASSUME HidInv, NEW new \in Lists, DivertedReport(new)
  PROVE  HidInv'
<1> USE DEF HidInv, DivertedReport, mouseVars, settingVars
<1>1. HidTypeOK'
  BY DEF HidTypeOK
<1>2. Len(buttons) \in Nat /\ Len(new) \in Nat /\ DOMAIN buttons = 1 .. Len(buttons)
  BY ListFacts DEF HidTypeOK
<1>3. Progress'
  BY <1>2 DEF Progress
<1>4. {c \in Controls : known[c] = 1} = Elements(buttons)
  BY ListFacts DEF Idle, Known, Bit, HidTypeOK, Elements
<1>5. DiffIsRight'
  <2>1. {buttons[k] : k \in {j \in DOMAIN buttons : j >= 1}} = Elements(buttons)
    BY <1>2 DEF Elements
  <2>2. {new[k] : k \in {j \in DOMAIN new : j < 1}} = {}
    BY ListFacts
  <2> QED
    BY <1>4, <2>1, <2>2 DEF DiffIsRight
<1> QED
  BY <1>1, <1>3, <1>5 DEF Known
(* What the invariant says of the lists while they are compared.             *)
LEMMA Comparing ==
  ASSUME HidInv, diverting
  PROVE  /\ oldI \in 1 .. Len(buttons) + 1 /\ newI \in 1 .. Len(incoming) + 1
         /\ Len(buttons) \in Nat /\ Len(incoming) \in Nat
         /\ \A c \in Controls : known[c] = 1 <=>
              \/ \E k \in oldI .. Len(buttons) : buttons[k] = c
              \/ \E k \in 1 .. newI - 1 : incoming[k] = c
<1> USE DEF HidInv
<1>1. /\ Len(buttons) \in Nat /\ Len(incoming) \in Nat
      /\ DOMAIN buttons = 1 .. Len(buttons) /\ DOMAIN incoming = 1 .. Len(incoming)
  BY ListFacts DEF HidTypeOK
<1>2. oldI \in 1 .. Len(buttons) + 1 /\ newI \in 1 .. Len(incoming) + 1
  BY DEF Progress
<1>3. ASSUME NEW c \in Controls
      PROVE  known[c] = 1 <=> \/ \E k \in oldI .. Len(buttons) : buttons[k] = c
                              \/ \E k \in 1 .. newI - 1 : incoming[k] = c
  <2>1. known[c] = 1 <=> c \in {buttons[k] : k \in {j \in DOMAIN buttons : j >= oldI}}
                             \cup {incoming[k] : k \in {j \in DOMAIN incoming : j < newI}}
    BY DEF DiffIsRight
  <2>2. {j \in DOMAIN buttons : j >= oldI} = oldI .. Len(buttons)
    BY <1>1, <1>2
  <2>3. {j \in DOMAIN incoming : j < newI} = 1 .. newI - 1
    BY <1>1, <1>2
  <2> QED
    BY <2>1, <2>2, <2>3
<1> QED
  BY <1>1, <1>2, <1>3

(* The other way round: how DiffIsRight follows for the next state.           *)
LEMMA Compared ==
  ASSUME HidTypeOK',
         diverting' => /\ oldI' \in 1 .. Len(buttons') + 1 /\ newI' \in 1 .. Len(incoming') + 1
                       /\ \A c \in Controls : known'[c] = 1 <=>
                            \/ \E k \in oldI' .. Len(buttons') : buttons'[k] = c
                            \/ \E k \in 1 .. newI' - 1 : incoming'[k] = c
  PROVE  DiffIsRight'
<1> SUFFICES ASSUME diverting'
             PROVE  {c \in Controls : known'[c] = 1} =
                      {buttons'[k] : k \in {j \in DOMAIN buttons' : j >= oldI'}}
                        \cup {incoming'[k] : k \in {j \in DOMAIN incoming' : j < newI'}}
  BY DEF DiffIsRight
<1>1. /\ Len(buttons') \in Nat /\ Len(incoming') \in Nat
      /\ DOMAIN buttons' = 1 .. Len(buttons') /\ DOMAIN incoming' = 1 .. Len(incoming')
      /\ \A k \in 1 .. Len(buttons') : buttons'[k] \in Controls
      /\ \A k \in 1 .. Len(incoming') : incoming'[k] \in Controls
  BY ListFacts DEF HidTypeOK
<1>2. {j \in DOMAIN buttons' : j >= oldI'} = oldI' .. Len(buttons')
  BY <1>1
<1>3. {j \in DOMAIN incoming' : j < newI'} = 1 .. newI' - 1
  BY <1>1
<1>4. \A c : (\E k \in oldI' .. Len(buttons') : buttons'[k] = c) => c \in Controls
  BY <1>1
<1>5. \A c : (\E k \in 1 .. newI' - 1 : incoming'[k] = c) => c \in Controls
  BY <1>1
<1>6. {c \in Controls : known'[c] = 1} =
        {buttons'[k] : k \in oldI' .. Len(buttons')} \cup {incoming'[k] : k \in 1 .. newI' - 1}
  BY <1>4, <1>5
<1> QED
  BY <1>2, <1>3, <1>6

(* A control that was released leaves the rest of the old list, and is not in  *)
(* the part of the new one that was passed.                                  *)
LEMMA ReleaseKeepsInv == ASSUME HidInv, ReleaseOld PROVE HidInv'
<1> USE DEF HidInv, ReleaseOld, mouseVars, settingVars
<1> DEFINE c == buttons[oldI]
<1>1. /\ buttons \in Lists /\ incoming \in Lists
      /\ known \in [HidInputs -> SettingValues]
  BY DEF HidTypeOK
<1>2. oldI \in 1 .. Len(buttons) /\ newI \in 1 .. Len(incoming) + 1
      /\ Len(buttons) \in Nat /\ Len(incoming) \in Nat
  BY Comparing
<1>3. c \in Controls /\ c \in HidInputs /\ c \notin MouseButtons /\ c \notin Settings
  BY <1>1, <1>2, ListFacts, HIDPP20ReportsAssumption DEF HidInputs
<1>4. known' = [known EXCEPT ![c] = 0]
  BY DEF Says
<1>5. HidTypeOK'
  <2>1. known' \in [HidInputs -> SettingValues]
    BY <1>1, <1>4, HIDPP20ReportsAssumption
  <2> QED
    BY <2>1 DEF HidTypeOK
<1>6. Progress'
  <2>1. \A j \in 1 .. newI - 1 : \E k \in 1 .. oldI - 1 : incoming[j] = buttons[k]
    BY <1>2 DEF Progress
  <2> QED
    BY <1>2, <2>1 DEF Progress
<1>7. \A d \in Controls : known'[d] = IF d = c THEN 0 ELSE known[d]
  BY <1>1, <1>3, <1>4 DEF HidInputs
<1>8. \A k \in oldI + 1 .. Len(buttons) : buttons[k] # c
  BY <1>1, <1>2, ListFacts
<1>9. \A k \in 1 .. newI - 1 : incoming[k] # c
  <2> SUFFICES ASSUME NEW j \in 1 .. newI - 1, incoming[j] = c PROVE FALSE
    OBVIOUS
  <2>1. PICK k \in 1 .. oldI - 1 : incoming[j] = buttons[k]
    BY <1>2 DEF Progress
  <2>2. k \in 1 .. Len(buttons) /\ k # oldI /\ buttons[k] = buttons[oldI]
    BY <1>2, <2>1
  <2> QED
    BY <1>1, <1>2, <2>2, ListFacts
<1>10. DiffIsRight'
  <2>1. ASSUME NEW d \in Controls
        PROVE  known'[d] = 1 <=> \/ \E k \in oldI + 1 .. Len(buttons) : buttons[k] = d
                                 \/ \E k \in 1 .. newI - 1 : incoming[k] = d
    <3>1. CASE d = c
      BY <1>7, <1>8, <1>9, <3>1
    <3>2. CASE d # c
      <4>1. known'[d] = 1 <=> \/ \E k \in oldI .. Len(buttons) : buttons[k] = d
                              \/ \E k \in 1 .. newI - 1 : incoming[k] = d
        BY <1>7, <3>2, Comparing
      <4>2. \A k \in oldI .. Len(buttons) : buttons[k] = d => k \in oldI + 1 .. Len(buttons)
        BY <1>2, <3>2
      <4> QED
        BY <1>2, <4>1, <4>2
    <3> QED
      BY <3>1, <3>2
  <2>2. /\ oldI' = oldI + 1 /\ newI' = newI /\ buttons' = buttons /\ incoming' = incoming
        /\ oldI' \in 1 .. Len(buttons) + 1
    BY <1>2
  <2>3. oldI' \in 1 .. Len(buttons') + 1 /\ newI' \in 1 .. Len(incoming') + 1
    BY <1>2, <2>2
  <2>4. \A d \in Controls : known'[d] = 1 <=>
          \/ \E k \in oldI' .. Len(buttons') : buttons'[k] = d
          \/ \E k \in 1 .. newI' - 1 : incoming'[k] = d
    BY <2>1, <2>2
  <2> QED
    BY <1>5, <2>3, <2>4, Compared
<1>11. Known'
  BY <1>3, <1>4, <1>7 DEF Known, HidTypeOK, HidInputs
<1> QED
  BY <1>5, <1>6, <1>10, <1>11

(* A control that is in both lists moves from the rest of the old one to the   *)
(* beginning of the new one.                                                 *)
LEMMA KeepKeepsInv == ASSUME HidInv, KeepOld PROVE HidInv'
<1> USE DEF HidInv, KeepOld, mouseVars, settingVars
<1>1. /\ oldI \in 1 .. Len(buttons) /\ newI \in 1 .. Len(incoming)
      /\ buttons[oldI] = incoming[newI]
      /\ Len(buttons) \in Nat /\ Len(incoming) \in Nat
  BY Comparing DEF Matches
<1>2. HidTypeOK'
  BY <1>1 DEF HidTypeOK
<1>3. Progress'
  <2>1. \A j \in 1 .. newI - 1 : \E k \in 1 .. oldI - 1 : incoming[j] = buttons[k]
    BY <1>1 DEF Progress
  <2>2. ASSUME NEW j \in 1 .. newI PROVE \E k \in 1 .. oldI : incoming[j] = buttons[k]
    <3>1. CASE j = newI
      BY <1>1, <3>1
    <3>2. CASE j # newI
      <4>1. j \in 1 .. newI - 1 /\ 1 .. oldI - 1 \subseteq 1 .. oldI
        BY <1>1, <3>2
      <4> QED
        BY <2>1, <4>1
    <3> QED
      BY <3>1, <3>2
  <2>3. newI' - 1 = newI /\ oldI' - 1 = oldI
    BY <1>1
  <2> QED
    BY <1>1, <2>2, <2>3 DEF Progress
<1>4. \A d \in Controls : known'[d] = 1 <=>
        \/ \E k \in oldI' .. Len(buttons') : buttons'[k] = d
        \/ \E k \in 1 .. newI' - 1 : incoming'[k] = d
  <2> SUFFICES ASSUME NEW d \in Controls
               PROVE  known[d] = 1 <=> \/ \E k \in oldI + 1 .. Len(buttons) : buttons[k] = d
                                       \/ \E k \in 1 .. newI : incoming[k] = d
    BY <1>1
  <2>1. known[d] = 1 <=> \/ \E k \in oldI .. Len(buttons) : buttons[k] = d
                         \/ \E k \in 1 .. newI - 1 : incoming[k] = d
    BY Comparing
  <2>2. (\E k \in oldI .. Len(buttons) : buttons[k] = d) <=>
          (buttons[oldI] = d \/ \E k \in oldI + 1 .. Len(buttons) : buttons[k] = d)
    BY <1>1
  <2>3. (\E k \in 1 .. newI : incoming[k] = d) <=>
          (incoming[newI] = d \/ \E k \in 1 .. newI - 1 : incoming[k] = d)
    BY <1>1
  <2> QED
    BY <1>1, <2>1, <2>2, <2>3
<1>5. DiffIsRight'
  <2>1. oldI' \in 1 .. Len(buttons') + 1 /\ newI' \in 1 .. Len(incoming') + 1
    BY <1>1
  <2> QED
    BY <1>2, <1>4, <2>1, Compared
<1>6. Known'
  BY DEF Known
<1> QED
  BY <1>2, <1>3, <1>5, <1>6

(* The rest of the new list was not in the old one.                          *)
LEMMA PressKeepsInv == ASSUME HidInv, PressNew PROVE HidInv'
<1> USE DEF HidInv, PressNew, mouseVars, settingVars
<1> DEFINE c == incoming[newI]
<1>1. /\ buttons \in Lists /\ incoming \in Lists
      /\ known \in [HidInputs -> SettingValues]
  BY DEF HidTypeOK
<1>2. oldI = Len(buttons) + 1 /\ newI \in 1 .. Len(incoming)
      /\ Len(buttons) \in Nat /\ Len(incoming) \in Nat
  BY Comparing
<1>3. c \in Controls /\ c \in HidInputs /\ c \notin MouseButtons /\ c \notin Settings
  BY <1>1, <1>2, ListFacts, HIDPP20ReportsAssumption DEF HidInputs
<1>4. known' = [known EXCEPT ![c] = 1]
  BY DEF Says
<1>5. HidTypeOK'
  <2>1. known' \in [HidInputs -> SettingValues]
    BY <1>1, <1>4, HIDPP20ReportsAssumption
  <2> QED
    BY <1>2, <2>1 DEF HidTypeOK
<1>6. Progress'
  BY <1>2 DEF Progress
<1>7. \A d \in Controls : known'[d] = IF d = c THEN 1 ELSE known[d]
  BY <1>1, <1>3, <1>4 DEF HidInputs
<1>8. \A d \in Controls : known'[d] = 1 <=>
        \/ \E k \in oldI' .. Len(buttons') : buttons'[k] = d
        \/ \E k \in 1 .. newI' - 1 : incoming'[k] = d
  <2> SUFFICES ASSUME NEW d \in Controls
               PROVE  known'[d] = 1 <=> \E k \in 1 .. newI : incoming[k] = d
    BY <1>2
  <2>1. known[d] = 1 <=> \E k \in 1 .. newI - 1 : incoming[k] = d
    BY <1>2, Comparing
  <2>2. (\E k \in 1 .. newI : incoming[k] = d) <=>
          (incoming[newI] = d \/ \E k \in 1 .. newI - 1 : incoming[k] = d)
    BY <1>2
  <2> QED
    BY <1>7, <2>1, <2>2
<1>9. DiffIsRight'
  <2>1. oldI' \in 1 .. Len(buttons') + 1 /\ newI' \in 1 .. Len(incoming') + 1
    BY <1>2
  <2> QED
    BY <1>5, <1>8, <2>1, Compared
<1>10. Known'
  BY <1>3, <1>4, <1>7 DEF Known, HidTypeOK, HidInputs
<1> QED
  BY <1>5, <1>6, <1>9, <1>10

(* When both lists were read, the script knows the new one.                  *)
LEMMA StoreKeepsInv == ASSUME HidInv, StoreNew PROVE HidInv'
<1> USE DEF HidInv, StoreNew, mouseVars, settingVars
<1>1. /\ oldI = Len(buttons) + 1 /\ newI = Len(incoming) + 1
      /\ Len(buttons) \in Nat /\ Len(incoming) \in Nat
  BY Comparing
<1>2. \A c \in Controls : known[c] = 1 <=> \E k \in 1 .. Len(incoming) : incoming[k] = c
  BY <1>1, Comparing
<1>3. \A c \in Controls : known[c] = 1 <=> c \in Elements(incoming)
  BY <1>2, ElementsOf DEF HidTypeOK
<1>4. HidTypeOK'
  BY DEF HidTypeOK
<1>5. Progress' /\ DiffIsRight'
  BY DEF Progress, DiffIsRight
<1>6. Known'
  BY <1>3 DEF Known, Bit
<1> QED
  BY <1>4, <1>5, <1>6

LEMMA NextKeepsHidInv == HidInv /\ [HidNext]_hidVars => HidInv'
<1> SUFFICES ASSUME HidInv, [HidNext]_hidVars PROVE HidInv'
  OBVIOUS
<1>1. CASE UNCHANGED hidVars
  BY <1>1 DEF HidInv, HidTypeOK, Progress, Known, DiffIsRight, hidVars
<1>2. CASE HidNext
  BY <1>2, MouseKeepsInv, SettingsKeepInv, DivertedKeepsInv, ReleaseKeepsInv, KeepKeepsInv,
     PressKeepsInv, StoreKeepsInv DEF HidNext
<1> QED
  BY <1>1, <1>2
--------------------------------------------------------------------------------
LEMMA HidInvariance == HidSpec => []HidInv
BY InitHidInv, NextKeepsHidInv, PTL DEF HidSpec

(* The features' states, the lists and their indices keep their types.        *)
THEOREM HidTypeCorrect == HidSpec => []HidTypeOK
<1>1. HidInv => HidTypeOK
  BY DEF HidInv
<1> QED
  BY <1>1, HidInvariance, PTL

(* The comparison of two lists in eventHandler finds every press and release,  *)
(* whatever controls they name in whatever order.                            *)
THEOREM ListsAreComparedRight == HidSpec => []DiffIsRight
<1>1. HidInv => DiffIsRight
  BY DEF HidInv
<1> QED
  BY <1>1, HidInvariance, PTL
--------------------------------------------------------------------------------
(* The state as InputDevice sees it, input by input.                         *)
LEMMA ValueOf ==
  ASSUME HidTypeOK
  PROVE  /\ HidValue \in [HidInputs -> SettingValues]
         /\ \A b \in MouseButtons : HidValue[b] = Bit(b \in mouse)
         /\ \A s \in Settings : HidValue[s] = current[s]
         /\ \A c \in Controls :
              HidValue[c] = Bit(c \in Elements(IF diverting THEN incoming ELSE buttons))
<1>1. \A b \in MouseButtons : Answer(b) = Bit(b \in mouse) /\ b \in HidInputs /\ b \notin Controls
  BY HIDPP20ReportsAssumption DEF Answer, HidInputs
<1>2. \A s \in Settings : Answer(s) = current[s] /\ s \in HidInputs /\ s \notin Controls
  BY HIDPP20ReportsAssumption DEF Answer, HidInputs
<1>3. \A c \in Controls : Answer(c) = Bit(c \in Elements(buttons)) /\ c \in HidInputs
  BY HIDPP20ReportsAssumption DEF Answer, HidInputs
<1>4. \A p : Bit(p) \in SettingValues
  BY HIDPP20ReportsAssumption DEF Bit
<1>5. \A i \in HidInputs : HidValue[i] \in SettingValues
  BY <1>1, <1>2, <1>3, <1>4 DEF HidValue, HidInputs, HidTypeOK
<1>6. HidValue \in [HidInputs -> SettingValues]
  BY <1>5 DEF HidValue
<1> QED
  BY <1>1, <1>2, <1>3, <1>6 DEF HidValue

LEMMA PendingInputs == HidTypeOK => HidPending \in SUBSET HidInputs
BY ListFacts DEF HidTypeOK, HidPending, Remaining, HidInputs

LEMMA HidInitPromise == HidInit => Said!DeviceInit
<1> SUFFICES ASSUME HidInit PROVE Said!DeviceInit
  OBVIOUS
<1>1. HidInv
  BY InitHidInv
<1>2. HidPending = {}
  BY DEF HidInit, HidPending
<1>3. HidValue \in [HidInputs -> SettingValues]
  BY <1>1, ValueOf DEF HidInv
<1>4. \A i \in HidInputs : known[i] = HidValue[i]
  BY <1>1, ValueOf DEF HidInv, HidInit, Known, HidInputs
<1>5. known = HidValue
  BY <1>1, <1>3, <1>4 DEF HidInv, HidTypeOK
<1> QED
  BY <1>2, <1>3, <1>5 DEF Said!DeviceInit

LEMMA SameValue ==
  UNCHANGED <<mouse, buttons, incoming, diverting, current>> => HidValue' = HidValue
BY DEF HidValue, Answer

(* An event about one input tells its state.                                 *)
LEMMA TellsOne ==
  ASSUME HidInv, HidInv', NEW i \in HidInputs,
         UNCHANGED <<mouse, buttons, incoming, diverting, current>>,
         known' = [known EXCEPT ![i] = HidValue[i]],
         HidPending' \subseteq HidPending, HidPending \ HidPending' \subseteq {i}
  PROVE  Said!Tell
<1>1. known \in [HidInputs -> SettingValues] /\ known' \in [HidInputs -> SettingValues]
  BY DEF HidInv, HidTypeOK
<1>2. \A j \in HidInputs : known'[j] \in {known[j], HidValue[j]}
  BY <1>1
<1>3. known'[i] = HidValue[i]
  BY <1>1
<1> QED
  BY <1>1, <1>2, <1>3, SameValue DEF Said!Tell

(* A report changes what its events will tell, and nothing else.             *)
LEMMA Reporting ==
  ASSUME HidInv, HidInv', Idle, UNCHANGED known,
         \A i \in HidInputs \ HidPending' : HidValue'[i] = HidValue[i]
  PROVE  Said!Report
<1>1. HidPending = {}
  BY DEF Idle, HidPending
<1>2. HidValue' \in [HidInputs -> SettingValues] /\ HidPending' \in SUBSET HidInputs
  <2>1. HidTypeOK'
    BY DEF HidInv
  <2>2. HidPending' \in SUBSET HidInputs
    BY <2>1, ListFacts DEF HidTypeOK, HidPending, Remaining, HidInputs
  <2>3. \A p : Bit(p) \in SettingValues
    BY HIDPP20ReportsAssumption DEF Bit
  <2>4. \A i \in HidInputs : HidValue'[i] \in SettingValues
    BY <2>1, <2>3, HIDPP20ReportsAssumption DEF HidValue, Answer, HidInputs, HidTypeOK
  <2>5. HidValue' \in [HidInputs -> SettingValues]
    BY <2>4 DEF HidValue
  <2> QED
    BY <2>2, <2>5
<1> QED
  BY <1>1, <1>2 DEF Said!Report

LEMMA MousePromise ==
  ASSUME HidInv, HidInv', \/ \E new \in SUBSET MouseButtons : MouseReport(new)
                         \/ \E b \in MouseButtons : SendButton(b)
  PROVE  [Said!DeviceNext]_(Said!deviceVars)
<1>1. ASSUME NEW new \in SUBSET MouseButtons, MouseReport(new) PROVE Said!Report
  <2> USE <1>1 DEF MouseReport, divertVars, settingVars
  <2>1. ASSUME NEW i \in HidInputs \ HidPending' PROVE HidValue'[i] = HidValue[i]
    <3>1. i \notin changed' /\ (i \in mouse' <=> i \in mouse)
      BY <2>1 DEF HidPending, Idle, HidInv, HidTypeOK
    <3>2. Bit(i \in mouse') = Bit(i \in mouse)
      BY <3>1 DEF Bit
    <3>3. UNCHANGED <<buttons, incoming, diverting, current>>
      OBVIOUS
    <3> QED
      BY <2>1, <3>2, <3>3, HIDPP20ReportsAssumption DEF HidValue, Answer, HidInputs
  <2> QED
    BY <2>1, Reporting
<1>2. ASSUME NEW b \in MouseButtons, SendButton(b) PROVE Said!Tell
  <2> USE <1>2 DEF SendButton, divertVars, settingVars
  <2>1. b \in HidInputs /\ HidValue[b] = Bit(b \in mouse)
    BY ValueOf DEF HidInputs, HidInv
  <2>2. HidPending' \subseteq HidPending /\ HidPending \ HidPending' \subseteq {b}
    BY DEF HidPending, Remaining
  <2> QED
    BY <2>1, <2>2, TellsOne DEF Says
<1> QED
  BY <1>1, <1>2 DEF Said!DeviceNext

LEMMA SettingsPromise ==
  ASSUME HidInv, HidInv', \/ \E s \in Settings, new \in SettingValues : SettingReport(s, new)
                         \/ \E s \in Settings : SendSetting(s)
  PROVE  [Said!DeviceNext]_(Said!deviceVars)
<1>1. ASSUME NEW s \in Settings, NEW new \in SettingValues, SettingReport(s, new) PROVE Said!Report
  <2> USE <1>1 DEF SettingReport, divertVars, mouseVars
  <2>1. ASSUME NEW i \in HidInputs \ HidPending' PROVE HidValue'[i] = HidValue[i]
    <3>1. i # s
      BY <2>1 DEF HidPending
    <3>2. i \in Settings => current'[i] = current[i]
      BY <3>1 DEF HidInv, HidTypeOK
    <3> QED
      BY <2>1, <3>2, HIDPP20ReportsAssumption DEF HidValue, Answer, HidInputs
  <2> QED
    BY <2>1, Reporting
<1>2. ASSUME NEW s \in Settings, SendSetting(s) PROVE Said!Tell
  <2> USE <1>2 DEF SendSetting, divertVars, mouseVars
  <2>1. s \in HidInputs /\ HidValue[s] = current[s]
    BY ValueOf DEF HidInputs, HidInv
  <2>2. HidPending' \subseteq HidPending /\ HidPending \ HidPending' \subseteq {s}
    BY DEF HidPending, Remaining
  <2> QED
    BY <2>1, <2>2, TellsOne DEF Says
<1> QED
  BY <1>1, <1>2 DEF Said!DeviceNext

(* A list is received: all it may change is pending.                         *)
LEMMA DivertedPromise ==
  ASSUME HidInv, HidInv', NEW new \in Lists, DivertedReport(new)
  PROVE  Said!Report
<1> USE DEF DivertedReport, mouseVars, settingVars
<1>1. ASSUME NEW i \in HidInputs \ HidPending' PROVE HidValue'[i] = HidValue[i]
  <2>1. CASE i \in Controls
    <3>1. i \notin Remaining'
      BY <1>1 DEF HidPending
    <3>2. /\ DOMAIN buttons = 1 .. Len(buttons) /\ DOMAIN new = 1 .. Len(new)
          /\ Len(buttons) \in Nat /\ Len(new) \in Nat
      BY ListFacts DEF HidInv, HidTypeOK
    <3>3. i \notin Elements(buttons) /\ i \notin Elements(new)
      BY <3>1, <3>2 DEF Remaining, Elements
    <3> QED
      BY <1>1, <2>1, <3>3, HIDPP20ReportsAssumption DEF HidValue, Answer, Idle, Bit
  <2>2. CASE i \notin Controls
    BY <1>1, <2>2, HIDPP20ReportsAssumption DEF HidValue, Answer, HidInputs
  <2> QED
    BY <2>1, <2>2
<1> QED
  BY <1>1, Reporting

(* What is still to come, by position.                                       *)
LEMMA RemainingBy ==
  ASSUME HidInv, diverting
  PROVE  \A c : c \in Remaining <=> \/ \E k \in oldI .. Len(buttons) : buttons[k] = c
                                   \/ \E k \in newI .. Len(incoming) : incoming[k] = c
<1>1. /\ DOMAIN buttons = 1 .. Len(buttons) /\ DOMAIN incoming = 1 .. Len(incoming)
  BY ListFacts DEF HidInv, HidTypeOK
<1>2. /\ Len(buttons) \in Nat /\ Len(incoming) \in Nat
      /\ oldI \in 1 .. Len(buttons) + 1 /\ newI \in 1 .. Len(incoming) + 1
  BY Comparing
<1>3. {j \in DOMAIN buttons : j >= oldI} = oldI .. Len(buttons)
  BY <1>1, <1>2
<1>4. {j \in DOMAIN incoming : j >= newI} = newI .. Len(incoming)
  BY <1>1, <1>2
<1> QED
  BY <1>3, <1>4 DEF Remaining

(* A release is passing if the control is named later in the new list.       *)
LEMMA ReleasePromise ==
  ASSUME HidInv, HidInv', ReleaseOld
  PROVE  Said!Tell \/ \E i \in HidInputs : Said!TellPassing(i)
<1> USE DEF ReleaseOld, mouseVars, settingVars
<1> DEFINE c == buttons[oldI]
<1>1. /\ buttons \in Lists /\ incoming \in Lists
      /\ oldI \in 1 .. Len(buttons) /\ newI \in 1 .. Len(incoming) + 1
      /\ Len(buttons) \in Nat /\ Len(incoming) \in Nat
  BY Comparing DEF HidInv, HidTypeOK
<1>2. c \in Controls /\ c \in HidInputs /\ c \notin changed \cup announced
  BY <1>1, ListFacts, HIDPP20ReportsAssumption DEF HidInputs, HidInv, HidTypeOK
<1>3. known' = [known EXCEPT ![c] = 0]
  BY DEF Says
<1>4. \A d : d \in Remaining <=> \/ \E k \in oldI .. Len(buttons) : buttons[k] = d
                                \/ \E k \in newI .. Len(incoming) : incoming[k] = d
  BY RemainingBy
<1>5. \A d : d \in Remaining' <=> \/ \E k \in oldI + 1 .. Len(buttons) : buttons[k] = d
                                 \/ \E k \in newI .. Len(incoming) : incoming[k] = d
  <2>1. /\ DOMAIN buttons = 1 .. Len(buttons) /\ DOMAIN incoming = 1 .. Len(incoming)
    BY <1>1, ListFacts
  <2>2. {j \in DOMAIN buttons : j >= oldI + 1} = oldI + 1 .. Len(buttons)
    BY <1>1, <2>1
  <2>3. {j \in DOMAIN incoming : j >= newI} = newI .. Len(incoming)
    BY <1>1, <2>1
  <2> QED
    BY <2>2, <2>3 DEF Remaining
<1>6. c \in Remaining /\ \A d : d # c => (d \in Remaining' <=> d \in Remaining)
  <2>1. \A d : (\E k \in oldI .. Len(buttons) : buttons[k] = d) <=>
                (buttons[oldI] = d \/ \E k \in oldI + 1 .. Len(buttons) : buttons[k] = d)
    BY <1>1
  <2> QED
    BY <1>4, <1>5, <2>1
<1>7. HidPending = changed \cup announced \cup Remaining
      /\ HidPending' = changed \cup announced \cup Remaining'
  BY DEF HidPending
<1>8. CASE \E k \in newI .. Len(incoming) : incoming[k] = c
  <2>1. c \in HidPending /\ HidPending' = HidPending
    BY <1>5, <1>6, <1>7, <1>8
  <2>2. known' \in [HidInputs -> SettingValues] /\ \A j \in HidInputs \ {c} : known'[j] = known[j]
    BY <1>3 DEF HidInv, HidTypeOK
  <2>3. HidValue' = HidValue
    BY SameValue
  <2>4. Said!TellPassing(c)
    BY <2>1, <2>2, <2>3 DEF Said!TellPassing
  <2> QED
    BY <1>2, <2>4
<1>9. CASE ~ \E k \in newI .. Len(incoming) : incoming[k] = c
  <2>1. ~ \E k \in 1 .. newI - 1 : incoming[k] = c
    <3> SUFFICES ASSUME NEW j \in 1 .. newI - 1, incoming[j] = c PROVE FALSE
      OBVIOUS
    <3>1. PICK k \in 1 .. oldI - 1 : incoming[j] = buttons[k]
      BY <1>1 DEF HidInv, Progress
    <3>2. k \in 1 .. Len(buttons) /\ k # oldI /\ buttons[k] = buttons[oldI]
      BY <1>1, <3>1
    <3> QED
      BY <1>1, <3>2, ListFacts
  <2>2. c \notin Elements(incoming)
    BY <1>1, <1>9, <2>1, ElementsOf
  <2>3. HidValue[c] = 0
    BY <1>2, <2>2, ValueOf DEF HidInv, Bit
  <2>4. HidPending' \subseteq HidPending /\ HidPending \ HidPending' \subseteq {c}
    BY <1>6, <1>7
  <2> QED
    BY <1>2, <1>3, <2>3, <2>4, TellsOne
<1> QED
  BY <1>8, <1>9

(* Both lists name the control: the script knows already.                    *)
LEMMA KeepPromise == ASSUME HidInv, HidInv', KeepOld PROVE Said!Tell
<1> USE DEF KeepOld, mouseVars, settingVars
<1> DEFINE c == buttons[oldI]
<1>1. /\ buttons \in Lists /\ incoming \in Lists
      /\ oldI \in 1 .. Len(buttons) /\ newI \in 1 .. Len(incoming) /\ incoming[newI] = c
      /\ Len(buttons) \in Nat /\ Len(incoming) \in Nat
  BY Comparing DEF HidInv, HidTypeOK, Matches
<1>2. c \in Controls /\ c \in HidInputs /\ c \in Elements(incoming)
  BY <1>1, ListFacts, ElementsOf DEF HidInputs
<1>3. known[c] = 1 /\ HidValue[c] = 1
  BY <1>1, <1>2, Comparing, ValueOf DEF HidInv, Bit
<1>4. known' = [known EXCEPT ![c] = HidValue[c]]
  BY <1>2, <1>3 DEF HidInv, HidTypeOK
<1>5. \A d : d \in Remaining <=> \/ \E k \in oldI .. Len(buttons) : buttons[k] = d
                                \/ \E k \in newI .. Len(incoming) : incoming[k] = d
  BY RemainingBy
<1>6. \A d : d \in Remaining' <=> \/ \E k \in oldI + 1 .. Len(buttons) : buttons[k] = d
                                 \/ \E k \in newI + 1 .. Len(incoming) : incoming[k] = d
  <2>1. /\ DOMAIN buttons = 1 .. Len(buttons) /\ DOMAIN incoming = 1 .. Len(incoming)
    BY <1>1, ListFacts
  <2>2. {j \in DOMAIN buttons : j >= oldI + 1} = oldI + 1 .. Len(buttons)
    BY <1>1, <2>1
  <2>3. {j \in DOMAIN incoming : j >= newI + 1} = newI + 1 .. Len(incoming)
    BY <1>1, <2>1
  <2> QED
    BY <2>2, <2>3 DEF Remaining
<1>7. \A d : d # c => (d \in Remaining' <=> d \in Remaining)
  <2>1. \A d : (\E k \in oldI .. Len(buttons) : buttons[k] = d) <=>
                (c = d \/ \E k \in oldI + 1 .. Len(buttons) : buttons[k] = d)
    BY <1>1
  <2>2. \A d : (\E k \in newI .. Len(incoming) : incoming[k] = d) <=>
                (c = d \/ \E k \in newI + 1 .. Len(incoming) : incoming[k] = d)
    BY <1>1
  <2> QED
    BY <1>5, <1>6, <2>1, <2>2
<1>8. c \in Remaining
  BY <1>1, <1>5
<1>9. HidPending' \subseteq HidPending /\ HidPending \ HidPending' \subseteq {c}
  BY <1>7, <1>8 DEF HidPending
<1> QED
  BY <1>2, <1>4, <1>9, TellsOne

(* A press is final: its control is in the new list.                         *)
LEMMA PressPromise == ASSUME HidInv, HidInv', PressNew PROVE Said!Tell
<1> USE DEF PressNew, mouseVars, settingVars
<1> DEFINE c == incoming[newI]
<1>1. /\ buttons \in Lists /\ incoming \in Lists
      /\ oldI = Len(buttons) + 1 /\ newI \in 1 .. Len(incoming)
      /\ Len(buttons) \in Nat /\ Len(incoming) \in Nat
  BY Comparing DEF HidInv, HidTypeOK
<1>2. c \in Controls /\ c \in HidInputs /\ c \in Elements(incoming)
  BY <1>1, ListFacts, ElementsOf DEF HidInputs
<1>3. HidValue[c] = 1
  BY <1>2, ValueOf DEF HidInv, Bit
<1>4. known' = [known EXCEPT ![c] = 1]
  BY DEF Says
<1>5. \A d : d \in Remaining <=> \E k \in newI .. Len(incoming) : incoming[k] = d
  BY <1>1, RemainingBy
<1>6. \A d : d \in Remaining' <=> \E k \in newI + 1 .. Len(incoming) : incoming[k] = d
  <2>1. /\ DOMAIN buttons = 1 .. Len(buttons) /\ DOMAIN incoming = 1 .. Len(incoming)
    BY <1>1, ListFacts
  <2>2. {j \in DOMAIN buttons : j >= oldI} = {}
    BY <1>1, <2>1
  <2>3. {j \in DOMAIN incoming : j >= newI + 1} = newI + 1 .. Len(incoming)
    BY <1>1, <2>1
  <2> QED
    BY <2>2, <2>3 DEF Remaining
<1>7. \A d : (\E k \in newI .. Len(incoming) : incoming[k] = d) <=>
              (c = d \/ \E k \in newI + 1 .. Len(incoming) : incoming[k] = d)
  BY <1>1
<1>8. HidPending' \subseteq HidPending /\ HidPending \ HidPending' \subseteq {c}
  BY <1>5, <1>6, <1>7 DEF HidPending
<1> QED
  BY <1>2, <1>3, <1>4, <1>8, TellsOne

(* Storing the new list changes nothing that a script that listens knows.     *)
LEMMA StorePromise == ASSUME HidInv, HidInv', StoreNew PROVE UNCHANGED Said!deviceVars
<1> USE DEF StoreNew, mouseVars, settingVars
<1>1. /\ oldI = Len(buttons) + 1 /\ newI = Len(incoming) + 1
      /\ Len(buttons) \in Nat /\ Len(incoming) \in Nat
  BY Comparing
<1>2. Remaining = {}
  BY <1>1, RemainingBy
<1>3. HidPending' = HidPending
  BY <1>2 DEF HidPending
<1>4. \A i \in HidInputs : HidValue'[i] = HidValue[i]
  BY HIDPP20ReportsAssumption DEF HidValue, Answer, HidInputs
<1>5. HidValue' = HidValue
  BY <1>4 DEF HidValue
<1> QED
  BY <1>3, <1>5 DEF Said!deviceVars

LEMMA HidNextPromise ==
  HidInv /\ HidInv' /\ [HidNext]_hidVars => [Said!DeviceNext]_(Said!deviceVars)
<1> SUFFICES ASSUME HidInv, HidInv', [HidNext]_hidVars
             PROVE  [Said!DeviceNext]_(Said!deviceVars)
  OBVIOUS
<1>1. CASE UNCHANGED hidVars
  <2>1. HidValue' = HidValue /\ HidPending' = HidPending /\ known' = known
    BY <1>1, SameValue DEF hidVars, HidPending, Remaining
  <2> QED
    BY <2>1 DEF Said!deviceVars
<1>2. CASE HidNext
  <2>1. ASSUME NEW new \in Lists, DivertedReport(new) PROVE Said!Report
    BY <2>1, DivertedPromise
  <2>2. ASSUME ReleaseOld PROVE Said!Tell \/ \E i \in HidInputs : Said!TellPassing(i)
    BY <2>2, ReleasePromise
  <2>3. ASSUME KeepOld \/ PressNew PROVE Said!Tell
    BY <2>3, KeepPromise, PressPromise
  <2>4. ASSUME StoreNew PROVE UNCHANGED Said!deviceVars
    BY <2>4, StorePromise
  <2> QED
    BY <1>2, <2>1, <2>2, <2>3, <2>4, MousePromise, SettingsPromise DEF HidNext, Said!DeviceNext
<1> QED
  BY <1>1, <1>2

(* Whoever applies the events of a HID++ 2.0 mouse knows its buttons, controls *)
(* and settings when eventHandler has returned: it implements InputDevice.    *)
THEOREM HidKeepsPromise == HidSpec => HidToldSpec
BY HidInitPromise, HidInvariance, HidNextPromise, PTL DEF HidSpec, HidToldSpec, Said!DeviceSpec
================================================================================
