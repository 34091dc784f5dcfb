--------------------------- MODULE ScriptInputsProofs ---------------------------
(***************************************************************************)
(* What scripts are told by kernel devices and by Wii remotes, what a remapper *)
(* sends and what an event filter lets through, which scripts the files of the  *)
(* configuration name, which classes a script's context gets and which profile  *)
(* a HID++ 2.0 mouse gets, for any size of the kernel's buffer and any sets of  *)
(* codes, sources, interfaces, rules, files, classes and profiles.              *)
(***************************************************************************)
EXTENDS EventReports, WiimoteEvents, Remapper, EventFilter, DefaultScripts, ClassRegistry,
        TemporaryProfile, WellFoundedInduction, FiniteSetTheorems, TLAPS

(* The type of what an event device's reader works with; a mark is only ever  *)
(* the first item of the kernel's buffer.                                    *)
Queued == [code : EvCodes, value : EvValues]

EvTypeOK ==
  /\ hardware \in [EvCodes -> EvValues]
  /\ buffer \in Seq(Queued \cup {SynDropped})
  /\ \A i \in 2 .. Len(buffer) : buffer[i] \in Queued
  /\ evState \in [EvCodes -> EvValues]
  /\ resync \in SUBSET EvCodes
  /\ heardEvents \in [EvCodes -> EvValues]

Dropped == buffer # <<>> /\ buffer[1] = SynDropped

(* The last event about c that the kernel still holds.                       *)
IsLast(i, c) == buffer[i].code = c /\ \A j \in i + 1 .. Len(buffer) : buffer[j].code # c

(* Unless events were dropped, the last event about a code tells its state,   *)
(* and one without an event has not changed.                                 *)
BufferIsCurrent ==
  Dropped \/ \A c \in EvCodes :
    \/ \E i \in 1 .. Len(buffer) : IsLast(i, c) /\ buffer[i].value = hardware[c]
    \/ (\A i \in 1 .. Len(buffer) : buffer[i].code # c) /\ evState[c] = hardware[c]

HeardIsRead == \A c \in EvCodes \ resync : heardEvents[c] = evState[c]

EvInv == EvTypeOK /\ BufferIsCurrent /\ HeardIsRead

LEMMA InitEvInv == EvInit => EvInv
BY DEF EvInit, EvInv, EvTypeOK, BufferIsCurrent, HeardIsRead

(* A mark is none of the device's events, so that a code is never SYN_DROPPED. *)
LEMMA HardwareKeepsEvInv ==
  ASSUME EvInv, NEW c \in EvCodes, NEW v \in EvValues, HardwareChanges(c, v)
  PROVE  EvInv'
<1> USE DEF EvInv, EvTypeOK, HardwareChanges, EvEvent, Queued
<1> DEFINE e == [code |-> c, value |-> v]
<1>1. CASE Len(buffer) < BufferSize
  <2>1. /\ buffer' = Append(buffer, e) /\ Len(buffer') = Len(buffer) + 1 /\ Len(buffer) \in Nat
        /\ buffer'[Len(buffer) + 1] = e
        /\ \A i \in 1 .. Len(buffer) : buffer'[i] = buffer[i]
    BY <1>1
  <2>2. EvTypeOK'
    <3>1. buffer' \in Seq(Queued \cup {SynDropped})
      BY <2>1
    <3>2. \A i \in 2 .. Len(buffer') : buffer'[i] \in Queued
      BY <2>1
    <3> QED
      BY <3>1, <3>2
  <2>3. BufferIsCurrent'
    <3>1. CASE Dropped
      BY <2>1, <3>1 DEF Dropped, BufferIsCurrent
    <3>2. CASE ~ Dropped
      <4> SUFFICES ASSUME NEW d \in EvCodes
                   PROVE  \/ \E i \in 1 .. Len(buffer') :
                               IsLast(i, d)' /\ buffer'[i].value = hardware'[d]
                          \/ /\ \A i \in 1 .. Len(buffer') : buffer'[i].code # d
                             /\ evState'[d] = hardware'[d]
        BY DEF BufferIsCurrent
      <4>1. CASE d = c
        <5> PICK n \in Nat : n = Len(buffer')
          BY <2>1
        <5>1. /\ n = Len(buffer') /\ n \in 1 .. n /\ n + 1 .. n = {}
              /\ buffer'[n].code = d /\ buffer'[n].value = v
          BY <2>1, <4>1
        <5>2. hardware'[d] = v
          BY <4>1
        <5>3. IsLast(n, d)'
          BY <5>1 DEF IsLast
        <5> QED
          BY <5>1, <5>2, <5>3
      <4>2. CASE d # c
        <5>1. hardware'[d] = hardware[d] /\ evState'[d] = evState[d]
          BY <4>2
        <5>2. CASE \E i \in 1 .. Len(buffer) : IsLast(i, d) /\ buffer[i].value = hardware[d]
          <6>1. PICK i \in 1 .. Len(buffer) : IsLast(i, d) /\ buffer[i].value = hardware[d]
            BY <5>2
          <6>2. IsLast(i, d)' /\ i \in 1 .. Len(buffer')
            BY <2>1, <4>2, <6>1 DEF IsLast
          <6> QED
            BY <2>1, <5>1, <6>1, <6>2
        <5>3. CASE (\A i \in 1 .. Len(buffer) : buffer[i].code # d) /\ evState[d] = hardware[d]
          BY <2>1, <4>2, <5>1, <5>3
        <5> QED
          BY <3>2, <5>2, <5>3 DEF BufferIsCurrent
      <4> QED
        BY <4>1, <4>2
    <3> QED
      BY <3>1, <3>2
  <2> QED
    BY <2>2, <2>3 DEF HeardIsRead
<1>2. CASE ~ (Len(buffer) < BufferSize)
  <2>1. buffer' = <<SynDropped, e>>
    BY <1>2
  <2>2. e \in Queued
    OBVIOUS
  <2>3. /\ buffer' \in Seq(Queued \cup {SynDropped})
        /\ Len(buffer') = 2 /\ buffer'[1] = SynDropped /\ buffer'[2] = e
    <3> HIDE DEF e, Queued, EvInv, HardwareChanges
    <3>1. {e, SynDropped} \subseteq Queued \cup {SynDropped}
      BY <2>2
    <3> QED
      BY <2>1, <3>1
  <2>4. \A i \in 2 .. Len(buffer') : buffer'[i] \in Queued
    BY <2>2, <2>3
  <2>5. Dropped'
    <3>1. buffer' # <<>>
      BY <2>3
    <3> QED
      BY <2>3, <3>1 DEF Dropped
  <2>6. BufferIsCurrent'
    BY <2>5 DEF BufferIsCurrent
  <2>7. EvTypeOK'
    BY <2>3, <2>4
  <2> QED
    BY <2>6, <2>7 DEF HeardIsRead
<1> QED
  BY <1>1, <1>2

LEMMA NormalKeepsEvInv == ASSUME EvInv, ReadNormalEvent PROVE EvInv'
<1> USE DEF EvInv, EvTypeOK, ReadNormalEvent
<1> DEFINE e == buffer[1]
<1>1. /\ Len(buffer) \in Nat \ {0} /\ buffer' = Tail(buffer) /\ Len(buffer') = Len(buffer) - 1
      /\ \A i \in 1 .. Len(buffer') : buffer'[i] = buffer[i + 1]
      /\ Head(buffer) = e
  OBVIOUS
<1>2. e \in Queued
  BY <1>1
<1>3. e.code \in EvCodes /\ e.value \in EvValues
  BY <1>2 DEF Queued
<1>4. EvTypeOK'
  <2>1. buffer' \in Seq(Queued \cup {SynDropped})
    BY <1>1
  <2>2. \A i \in 2 .. Len(buffer') : buffer'[i] \in Queued
    BY <1>1
  <2> QED
    BY <1>1, <1>3, <2>1, <2>2
<1>5. HeardIsRead'
  BY <1>1, <1>3 DEF HeardIsRead
<1>6. BufferIsCurrent'
  <2>1. ~ Dropped
    BY <1>1 DEF Dropped
  <2> SUFFICES ASSUME NEW d \in EvCodes
               PROVE  \/ \E i \in 1 .. Len(buffer') :
                           IsLast(i, d)' /\ buffer'[i].value = hardware'[d]
                      \/ /\ \A i \in 1 .. Len(buffer') : buffer'[i].code # d
                         /\ evState'[d] = hardware'[d]
    BY DEF BufferIsCurrent
  <2>2. CASE \E i \in 1 .. Len(buffer) : IsLast(i, d) /\ buffer[i].value = hardware[d]
    <3>1. PICK i \in 1 .. Len(buffer) : IsLast(i, d) /\ buffer[i].value = hardware[d]
      BY <2>2
    <3>2. CASE i = 1
      <4>1. \A j \in 1 .. Len(buffer') : buffer'[j].code # d
        BY <1>1, <3>1, <3>2 DEF IsLast
      <4>2. e.code = d /\ e.value = hardware[d]
        BY <3>1, <3>2 DEF IsLast
      <4> QED
        BY <1>1, <4>1, <4>2
    <3>3. CASE i # 1
      <4>1. i - 1 \in 1 .. Len(buffer') /\ buffer'[i - 1] = buffer[i]
        BY <1>1, <3>3
      <4>2. IsLast(i - 1, d)'
        BY <1>1, <3>1, <4>1 DEF IsLast
      <4> QED
        BY <3>1, <4>1, <4>2
    <3> QED
      BY <3>2, <3>3
  <2>3. CASE (\A i \in 1 .. Len(buffer) : buffer[i].code # d) /\ evState[d] = hardware[d]
    <3>1. e.code # d
      BY <1>1, <2>3
    <3>2. evState'[d] = evState[d]
      BY <1>1, <3>1
    <3> QED
      BY <1>1, <2>3, <3>2
  <2> QED
    BY <2>1, <2>2, <2>3 DEF BufferIsCurrent
<1> QED
  BY <1>4, <1>5, <1>6

LEMMA DroppedKeepsEvInv == ASSUME EvInv, ReadDropped PROVE EvInv'
BY DEF EvInv, EvTypeOK, ReadDropped, BufferIsCurrent, HeardIsRead, Dropped

LEMMA SyncKeepsEvInv ==
  ASSUME EvInv, NEW c \in EvCodes, ReadSyncEvent(c)
  PROVE  EvInv'
<1>1. EvTypeOK'
  BY DEF EvInv, EvTypeOK, ReadSyncEvent
<1>2. BufferIsCurrent'
  BY DEF EvInv, BufferIsCurrent, IsLast, Dropped, ReadSyncEvent
<1>3. HeardIsRead'
  BY DEF EvInv, EvTypeOK, HeardIsRead, ReadSyncEvent
<1> QED
  BY <1>1, <1>2, <1>3 DEF EvInv

LEMMA StutterKeepsEvInv == ASSUME EvInv, UNCHANGED evVars PROVE EvInv'
BY DEF EvInv, EvTypeOK, BufferIsCurrent, IsLast, Dropped, HeardIsRead, evVars

(* What the kernel holds and what a script knows add up to the device's state. *)
THEOREM EvInvariance == EvSpec => []EvInv
<1>1. EvInv /\ [EvNext]_evVars => EvInv'
  BY HardwareKeepsEvInv, NormalKeepsEvInv, DroppedKeepsEvInv, SyncKeepsEvInv,
     StutterKeepsEvInv DEF EvNext
<1> QED
  BY <1>1, InitEvInv, PTL DEF EvSpec

(* Though events are dropped, a script that applies those it gets knows the   *)
(* device's state when the reader has nothing left to read.                  *)
THEOREM EvNothingMissed == EvSpec => []NothingMissed
<1>1. EvInv => NothingMissed
  <2> SUFFICES ASSUME EvInv, buffer = <<>>, resync = {} PROVE heardEvents = hardware
    BY DEF NothingMissed
  <2>1. \A c \in EvCodes : evState[c] = hardware[c]
    <3>1. ~ Dropped /\ 1 .. Len(buffer) = {}
      BY DEF Dropped
    <3> QED
      BY <3>1 DEF EvInv, BufferIsCurrent
  <2>2. \A c \in EvCodes : heardEvents[c] = evState[c]
    BY DEF EvInv, HeardIsRead
  <2>3. hardware \in [EvCodes -> EvValues] /\ heardEvents \in [EvCodes -> EvValues]
    BY DEF EvInv, EvTypeOK
  <2> QED
    BY <2>1, <2>2, <2>3
<1> QED
  BY <1>1, EvInvariance, PTL

LEMMA EvInitPromise == EvInit => EvDevice!DeviceInit
BY DEF EvInit, EvDevice!DeviceInit

LEMMA EvStepPromise ==
  ASSUME EvInv, [EvNext]_evVars
  PROVE  [EvDevice!DeviceNext]_(EvDevice!deviceVars)
<1> USE DEF EvDevice!DeviceNext, EvDevice!deviceVars
<1>1. ASSUME NEW c \in EvCodes, NEW v \in EvValues, HardwareChanges(c, v)
      PROVE  UNCHANGED EvDevice!deviceVars
  BY <1>1 DEF HardwareChanges
<1>2. ASSUME ReadNormalEvent PROVE EvDevice!Ask
  <2>1. EvInv'
    BY <1>2, NormalKeepsEvInv
  <2> QED
    BY <1>2, <2>1 DEF EvInv, EvTypeOK, ReadNormalEvent, EvDevice!Ask
<1>3. ASSUME ReadDropped PROVE EvDevice!Report
  BY <1>3 DEF EvInv, EvTypeOK, ReadDropped, EvDevice!Report
<1>4. ASSUME NEW c \in EvCodes, ReadSyncEvent(c) PROVE EvDevice!Tell
  <2>1. EvInv'
    BY <1>4, SyncKeepsEvInv
  <2> QED
    BY <1>4, <2>1 DEF EvInv, EvTypeOK, ReadSyncEvent, EvDevice!Tell
<1>5. CASE UNCHANGED evVars
  BY <1>5 DEF evVars
<1> QED
  BY <1>1, <1>2, <1>3, <1>4, <1>5 DEF EvNext

(* EventDevice::readEvents tells the events of a kernel device as InputDevice  *)
(* promises, those libevdev makes up after a drop included.                  *)
THEOREM EvKeepsPromise == EvSpec => EvToldSpec
BY EvInvariance, EvInitPromise, EvStepPromise, PTL DEF EvSpec, EvToldSpec, EvDevice!DeviceSpec
--------------------------------------------------------------------------------
(* The events told of what is plugged in, as of the last one that was read;    *)
(* what waits in libxwiimote's queue is still to be told.                    *)
Announced ==
  /\ heardPlugged = available
  /\ watches = 0 => available = plugged

(* A source the report has come past is known.                               *)
SourcesKnown == \A i \in 1 .. Dots : at = 0 \/ i < at => heardSeen[i] = seen[i]

WiiInv == WiiTypeOK /\ Announced /\ heardKeys = keys /\ SourcesKnown

LEMMA InitWiiInv == WiiInit => WiiInv
<1> SUFFICES ASSUME WiiInit PROVE WiiInv
  OBVIOUS
<1>1. /\ seen \in [1 .. Dots -> Positions \cup {Lost}]
      /\ \A i \in 1 .. Dots : seen[i] = Lost
      /\ heardSeen = seen /\ at \in 0 .. Dots /\ watches \in 0 .. MaxWatches
  BY WiimoteAssumption DEF WiiInit
<1>2. WiiTypeOK
  BY <1>1 DEF WiiInit, WiiTypeOK
<1> QED
  BY <1>1, <1>2 DEF WiiInit, WiiInv, Announced, SourcesKnown

LEMMA InfraredKeepsWiiInv ==
  ASSUME WiiInv, NEW new \in [1 .. Dots -> Positions \cup {Lost}], ReadInfrared(new)
  PROVE  WiiInv'
<1>1. WiiTypeOK'
  BY WiimoteAssumption DEF WiiInv, WiiTypeOK, ReadInfrared
<1>2. SourcesKnown'
  BY WiimoteAssumption DEF SourcesKnown, ReadInfrared
<1> QED
  BY <1>1, <1>2 DEF WiiInv, Announced, ReadInfrared

LEMMA SourceKeepsWiiInv == ASSUME WiiInv, TellSource PROVE WiiInv'
<1> USE DEF TellSource
<1>1. at \in 1 .. Dots /\ Dots \in Nat
  BY WiimoteAssumption DEF WiiInv, WiiTypeOK
<1>2. heardSeen'[at] = seen[at]
  BY <1>1 DEF WiiInv, WiiTypeOK
<1>3. WiiTypeOK'
  <2>1. /\ heardSeen' \in [1 .. Dots -> Positions \cup {Lost}]
        /\ tracking' \in [1 .. Dots -> BOOLEAN]
        /\ at' \in 0 .. Dots
    BY <1>1 DEF WiiInv, WiiTypeOK
  <2>2. \A i \in 1 .. Dots : heardSeen'[i] # Lost => tracking'[i]
    BY <1>1, <1>2 DEF WiiInv, WiiTypeOK
  <2> QED
    BY <2>1, <2>2 DEF WiiInv, WiiTypeOK
<1>4. SourcesKnown'
  <2> SUFFICES ASSUME NEW i \in 1 .. Dots, at' = 0 \/ i < at'
               PROVE  heardSeen'[i] = seen[i]
    BY DEF SourcesKnown
  <2>1. CASE i = at
    BY <1>2, <2>1
  <2>2. CASE i # at
    <3>1. i < at
      BY <1>1, <2>2
    <3>2. heardSeen'[i] = heardSeen[i]
      BY <1>1, <2>2 DEF WiiInv, WiiTypeOK
    <3> QED
      BY <3>1, <3>2 DEF WiiInv, SourcesKnown
  <2> QED
    BY <2>1, <2>2
<1> QED
  BY <1>3, <1>4 DEF WiiInv, Announced

LEMMA KeyKeepsWiiInv == ASSUME WiiInv, NEW k \in WiiKeys, ReadKey(k) PROVE WiiInv'
<1>1. WiiTypeOK' /\ heardKeys' = keys'
  BY DEF WiiInv, WiiTypeOK, ReadKey
<1> QED
  BY <1>1 DEF WiiInv, Announced, SourcesKnown, ReadKey

LEMMA PlugKeepsWiiInv ==
  ASSUME WiiInv, NEW s \in SUBSET Interfaces, HotPlug(s) \/ OpenInterfaces(s) \/ CloseInterfaces(s)
  PROVE  WiiInv'
<1>1. CASE HotPlug(s)
  BY <1>1, WiimoteAssumption DEF WiiInv, WiiTypeOK, Announced, SourcesKnown, HotPlug
<1>2. CASE OpenInterfaces(s)
  BY <1>2 DEF WiiInv, WiiTypeOK, Announced, SourcesKnown, OpenInterfaces
<1>3. CASE CloseInterfaces(s)
  BY <1>3 DEF WiiInv, WiiTypeOK, Announced, SourcesKnown, CloseInterfaces
<1> QED
  BY <1>1, <1>2, <1>3

(* Twice the same change cancels out: what is added up is what is stored.      *)
LEMMA WatchKeepsWiiInv == ASSUME WiiInv, ReadWatch PROVE WiiInv'
<1>1. heardPlugged' = plugged
  <2> DEFINE changed == (available \cup plugged) \ (available \cap plugged)
  <2>1. heardPlugged' = (available \cup changed) \ (available \cap changed)
    BY DEF WiiInv, Announced, ReadWatch
  <2> QED
    BY <2>1
<1>2. WiiTypeOK'
  BY <1>1, WiimoteAssumption DEF WiiInv, WiiTypeOK, ReadWatch
<1> QED
  BY <1>1, <1>2 DEF WiiInv, Announced, SourcesKnown, ReadWatch

LEMMA GoneKeepsWiiInv == ASSUME WiiInv, RemoteGone \/ UNCHANGED wiiVars PROVE WiiInv'
BY DEF WiiInv, WiiTypeOK, Announced, SourcesKnown, RemoteGone, wiiVars

LEMMA WiiInvStep == ASSUME WiiInv, [WiiNext]_wiiVars PROVE WiiInv'
BY InfraredKeepsWiiInv, SourceKeepsWiiInv, KeyKeepsWiiInv, PlugKeepsWiiInv, WatchKeepsWiiInv,
   GoneKeepsWiiInv DEF WiiNext

(* What a Wii remote's reader has told, in every state.                      *)
THEOREM WiiInvariance == WiiSpec => []WiiInv
BY InitWiiInv, WiiInvStep, PTL DEF WiiSpec

(* A script that adds up what XWII_EVENT_WATCH says has changed knows what is  *)
(* plugged in once the queue is empty.                                      *)
THEOREM WiiChangesAddUp == WiiSpec => []ChangesAddUp
<1>1. WiiInv => ChangesAddUp
  BY DEF WiiInv, Announced, ChangesAddUp
<1> QED
  BY <1>1, WiiInvariance, PTL
--------------------------------------------------------------------------------
(* The state and what is known of it, as InputDevice sees them.               *)
WiiValue == [i \in WiiThings |-> SeenOr(seen, keys, i)]
WiiTold == [i \in WiiThings |-> SeenOr(heardSeen, heardKeys, i)]
WiiPending == IF at = 0 THEN {} ELSE at .. Dots

LEMMA WiiMapping ==
  ASSUME WiiTypeOK
  PROVE  /\ WiiValue \in [WiiThings -> Positions \cup {Lost, 0, 1}]
         /\ WiiTold \in [WiiThings -> Positions \cup {Lost, 0, 1}]
         /\ WiiPending \subseteq WiiThings
         /\ \A k \in WiiKeys : WiiValue[k] = (IF k \in keys THEN 1 ELSE 0)
         /\ \A k \in WiiKeys : WiiTold[k] = (IF k \in heardKeys THEN 1 ELSE 0)
         /\ \A i \in 1 .. Dots : WiiValue[i] = seen[i] /\ WiiTold[i] = heardSeen[i]
         /\ 1 .. Dots \subseteq WiiThings /\ WiiKeys \subseteq WiiThings
BY WiimoteAssumption DEF WiiTypeOK, WiiValue, WiiTold, WiiPending, WiiThings, SeenOr

LEMMA NextWiiMapping ==
  ASSUME WiiTypeOK'
  PROVE  /\ WiiValue' \in [WiiThings -> Positions \cup {Lost, 0, 1}]
         /\ WiiTold' \in [WiiThings -> Positions \cup {Lost, 0, 1}]
         /\ WiiPending' \subseteq WiiThings
         /\ \A k \in WiiKeys : WiiValue'[k] = (IF k \in keys' THEN 1 ELSE 0)
         /\ \A k \in WiiKeys : WiiTold'[k] = (IF k \in heardKeys' THEN 1 ELSE 0)
         /\ \A i \in 1 .. Dots : WiiValue'[i] = seen'[i] /\ WiiTold'[i] = heardSeen'[i]
BY WiimoteAssumption DEF WiiTypeOK, WiiValue, WiiTold, WiiPending, WiiThings, SeenOr

LEMMA WiiInitPromise == WiiInit => WiiToldDevice!DeviceInit
<1> SUFFICES ASSUME WiiInit PROVE WiiToldDevice!DeviceInit
  OBVIOUS
<1>1. WiiTypeOK
  BY InitWiiInv DEF WiiInv
<1>2. WiiValue \in [WiiThings -> Positions \cup {Lost, 0, 1}]
  BY <1>1, WiiMapping
<1> QED
  BY <1>2 DEF WiiInit, WiiToldDevice!DeviceInit, WiiValue

LEMMA WiiStepPromise ==
  ASSUME WiiInv, [WiiNext]_wiiVars
  PROVE  [WiiToldDevice!DeviceNext]_(WiiToldDevice!deviceVars)
<1> DEFINE Vals == Positions \cup {Lost, 0, 1}
<1>1. WiiTypeOK /\ WiiInv'
  BY WiiInvStep DEF WiiInv
<1>2. WiiTypeOK'
  BY <1>1 DEF WiiInv
<1>3. ASSUME NEW new \in [1 .. Dots -> Positions \cup {Lost}], ReadInfrared(new)
      PROVE  WiiToldDevice!Report
  <2>1. WiiPending = {} /\ WiiTold' = WiiTold
    BY <1>3 DEF ReadInfrared, WiiIdle, WiiPending, WiiTold
  <2>2. WiiValue' \in [WiiThings -> Vals] /\ WiiPending' \in SUBSET WiiThings
    BY <1>2, NextWiiMapping
  <2>3. \A i \in WiiThings \ WiiPending' : WiiValue'[i] = WiiValue[i]
    <3>1. 1 .. Dots \subseteq WiiPending'
      BY <1>3, WiimoteAssumption DEF ReadInfrared, WiiPending
    <3> QED
      BY <1>1, <1>2, <1>3, <3>1, WiiMapping, NextWiiMapping DEF ReadInfrared, WiiThings
  <2> QED
    BY <2>1, <2>2, <2>3 DEF WiiToldDevice!Report, WiiValue, WiiTold, WiiPending
<1>4. ASSUME TellSource PROVE WiiToldDevice!Tell
  <2>1. WiiValue' = WiiValue
    BY <1>4 DEF TellSource, WiiValue
  <2>2. WiiTold' \in [WiiThings -> Vals]
    BY <1>2, NextWiiMapping
  <2>3. at \in 1 .. Dots /\ heardSeen'[at] = seen[at]
    BY <1>1, <1>4 DEF WiiTypeOK, TellSource
  <2>4. \A i \in 1 .. Dots : heardSeen'[i] \in {heardSeen[i], seen[i]}
    BY <1>1, <1>4, <2>3 DEF WiiTypeOK, TellSource
  <2>5. \A i \in WiiThings : WiiTold'[i] \in {WiiTold[i], WiiValue[i]}
    BY <1>1, <1>2, <1>4, <2>4, WiiMapping, NextWiiMapping DEF TellSource, WiiThings
  <2>6. WiiPending' = WiiPending \ {at} /\ at \in WiiPending
    BY <1>4, <2>3, WiimoteAssumption DEF TellSource, WiiPending
  <2>7. WiiTold'[at] = WiiValue[at]
    BY <1>1, <1>2, <2>3, WiiMapping, NextWiiMapping
  <2> QED
    BY <2>1, <2>2, <2>5, <2>6, <2>7 DEF WiiToldDevice!Tell, WiiValue, WiiTold, WiiPending
<1>5. ASSUME NEW k \in WiiKeys, ReadKey(k) PROVE WiiToldDevice!Ask
  <2>1. WiiValue' \in [WiiThings -> Vals] /\ WiiTold' \in [WiiThings -> Vals]
    BY <1>2, NextWiiMapping
  <2>2. WiiPending' = WiiPending
    BY <1>5 DEF ReadKey, WiiPending
  <2>3. \A i \in 1 .. Dots : WiiValue'[i] = WiiValue[i] /\ WiiTold'[i] = WiiTold[i]
    BY <1>1, <1>2, <1>5, WiiMapping, NextWiiMapping DEF ReadKey
  <2>4. \A i \in WiiKeys : WiiTold'[i] = WiiValue'[i]
    BY <1>1, <1>2, NextWiiMapping DEF WiiInv
  <2> QED
    BY <2>1, <2>2, <2>3, <2>4 DEF WiiToldDevice!Ask, WiiValue, WiiTold, WiiPending, WiiThings
<1>6. ASSUME \/ \E s \in SUBSET Interfaces : HotPlug(s) \/ OpenInterfaces(s) \/ CloseInterfaces(s)
             \/ ReadWatch \/ RemoteGone \/ UNCHANGED wiiVars
      PROVE  UNCHANGED WiiToldDevice!deviceVars
  <2>1. UNCHANGED <<seen, heardSeen, keys, heardKeys, at>>
    BY <1>1, <1>6 DEF WiiInv, HotPlug, OpenInterfaces, CloseInterfaces, ReadWatch, RemoteGone, wiiVars
  <2> QED
    BY <2>1 DEF WiiToldDevice!deviceVars
<1> QED
  BY <1>3, <1>4, <1>5, <1>6 DEF WiiNext, WiiToldDevice!DeviceNext

(* WiimoteDevice::readEvents tells of light sources and buttons as InputDevice *)
(* promises, however many sources appear or are lost at once.                *)
THEOREM WiiKeepsPromise == WiiSpec => WiiToldSpec
BY WiiInvariance, WiiInitPromise, WiiStepPromise, PTL
   DEF WiiSpec, WiiToldSpec, WiiToldDevice!DeviceSpec
--------------------------------------------------------------------------------
(* What holds of a rule between the events of a report: a modifier that the    *)
(* rule does not know yet is still to be told; released, the output is the     *)
(* default; held, it is the source's, unless that is still to be told.        *)
RuleInv(r) ==
  /\ Modifiers(r) # {} /\ held[r] # TestModifiers(r) => Modifiers(r) \cap untold # {}
  /\ Modifiers(r) # {} /\ ~ held[r] /\ ~ TestModifiers(r) => output[r] = r.default
  /\ (Modifiers(r) = {} \/ held[r]) /\ TestModifiers(r) /\ r.source \notin untold =>
       output[r] = Expected(r)

RemapTypes ==
  /\ level \in [Sources -> Levels]
  /\ held \in [Rules -> BOOLEAN]
  /\ mapped \subseteq Rules
  /\ settled \subseteq mapped

RemapInv ==
  /\ RemapTypes
  /\ listening /\ reading /\ created => \A r \in settled : RuleInv(r)

LEMMA AgreesIsRuleInv == ASSUME NEW r \in Rules, Agrees(r) PROVE RuleInv(r)
BY DEF Agrees, RuleInv, Expected

LEMMA NextAgreesIsRuleInv == ASSUME NEW r \in Rules, Agrees(r)' PROVE RuleInv(r)'
BY DEF Agrees, RuleInv, Expected

LEMMA SameRuleInv ==
  ASSUME NEW r \in Rules, RuleInv(r), UNCHANGED <<level, untold, held, output>>
  PROVE  RuleInv(r)'
BY DEF RuleInv, Expected, TestModifiers

LEMMA InitRemapInv == RemapInit => RemapInv
BY DEF RemapInit, RemapInv, RemapTypes

LEMMA AddKeepsRemapInv == ASSUME RemapInv, NEW r \in Rules, AddEvent(r) PROVE RemapInv'
<1> USE DEF AddEvent, RemapInv, RemapTypes
<1>1. RemapTypes'
  OBVIOUS
<1>2. ASSUME listening' /\ reading' /\ created', NEW q \in settled' PROVE RuleInv(q)'
  <2>1. q \in Rules /\ RuleInv(q)
    BY <1>2, AgreesIsRuleInv
  <2> QED
    BY <2>1, SameRuleInv
<1> QED
  BY <1>1, <1>2

LEMMA ListenKeepsRemapInv == ASSUME RemapInv, Listen PROVE RemapInv'
<1> USE DEF Listen, RemapInv, RemapTypes
<1>1. ASSUME NEW q \in settled' PROVE RuleInv(q)'
  BY <1>1, AgreesIsRuleInv, SameRuleInv
<1> QED
  BY <1>1

LEMMA CreateKeepsRemapInv == ASSUME RemapInv, CreateOutput PROVE RemapInv'
<1> USE DEF CreateOutput, RemapInv, RemapTypes
<1>1. ASSUME NEW q \in settled' PROVE RuleInv(q)'
  <2>1. q \in Rules /\ Agrees(q)'
    BY <1>1
  <2> QED
    BY <2>1, NextAgreesIsRuleInv
<1> QED
  BY <1>1

LEMMA StopKeepsRemapInv ==
  ASSUME RemapInv, Unlisten \/ DestroyOutput \/ UNCHANGED remapVars
  PROVE  RemapInv'
<1>1. CASE Unlisten \/ DestroyOutput
  BY <1>1 DEF Unlisten, DestroyOutput, RemapInv, RemapTypes
<1>2. CASE UNCHANGED remapVars
  BY <1>2, SameRuleInv DEF remapVars, RemapInv, RemapTypes
<1> QED
  BY <1>1, <1>2

(* When a report is read every event of the last one has come: the outputs    *)
(* were right, and stay so where nothing changed.                            *)
LEMMA ReportKeepsRemapInv == ASSUME RemapInv, DeviceReport PROVE RemapInv'
<1> USE DEF DeviceReport, RemapInv, RemapTypes
<1>1. RemapTypes'
  OBVIOUS
<1>2. ASSUME listening /\ reading /\ created, NEW r \in settled PROVE RuleInv(r)'
  <2>1. r \in Rules /\ RuleInv(r)
    BY <1>2
  <2>2. r.source \in Sources /\ Modifiers(r) \subseteq Sources
    BY <2>1, RemapperAssumption
  <2>3. untold = {} /\ held'[r] = held[r] /\ output'[r] = output[r]
    BY <1>2
  <2>4. Modifiers(r) \cap untold' = {} => TestModifiers(r)' = TestModifiers(r)
    <3>1. \A m \in Sources : m \notin untold' => level'[m] = level[m]
      OBVIOUS
    <3> QED
      BY <2>2, <3>1 DEF TestModifiers
  <2>5. r.source \notin untold' => level'[r.source] = level[r.source]
    BY <2>2
  <2>6. Modifiers(r) # {} => held[r] = TestModifiers(r)
    BY <2>1, <2>3 DEF RuleInv
  <2>7. Modifiers(r) = {} => TestModifiers(r) /\ TestModifiers(r)'
    BY DEF TestModifiers
  <2>8. Modifiers(r) # {} /\ held'[r] # TestModifiers(r)' => Modifiers(r) \cap untold' # {}
    BY <2>3, <2>4, <2>6
  <2>9. Modifiers(r) # {} /\ ~ held'[r] /\ ~ TestModifiers(r)' => output'[r] = r.default
    BY <2>1, <2>3, <2>6 DEF RuleInv
  <2>10. ASSUME Modifiers(r) = {} \/ held'[r], TestModifiers(r)', r.source \notin untold'
         PROVE  output'[r] = Expected(r)'
    <3>1. TestModifiers(r)
      BY <2>3, <2>6, <2>7, <2>10
    <3>2. output[r] = Expected(r)
      BY <2>1, <2>3, <2>10, <3>1 DEF RuleInv
    <3> QED
      BY <2>3, <2>5, <2>10, <3>1, <3>2 DEF Expected
  <2> QED
    BY <2>8, <2>9, <2>10 DEF RuleInv
<1> QED
  BY <1>1, <1>2

(* An event either ends the reader, or is sent for all the rules it concerns.  *)
LEMMA EventKeepsRemapInv == ASSUME RemapInv, NEW s \in Sources, RemapEvent(s) PROVE RemapInv'
<1> DEFINE sends == IF listening THEN PassedOn(s) \cup Switched(s) ELSE {}
<1>1. /\ RemapTypes /\ untold' = untold \ {s}
      /\ UNCHANGED <<level, created, mapped, listening>>
  BY DEF RemapEvent, RemapInv
<1>2. CASE sends # {} /\ ~ created
  BY <1>1, <1>2 DEF RemapEvent, RemapInv, RemapTypes
<1>3. CASE ~ (sends # {} /\ ~ created)
  <2>1. /\ output' = [r \in Rules |-> IF r \in sends THEN Expected(r) ELSE output[r]]
        /\ held' = [r \in Rules |-> IF r \in sends \cap Switched(s) THEN ~ held[r] ELSE held[r]]
        /\ settled' = settled \cup
             {r \in sends : Modifiers(r) = {} \/ held'[r] = TestModifiers(r)}
        /\ reading' = reading
    BY <1>3 DEF RemapEvent
  <2>2. sends \subseteq mapped
    BY DEF PassedOn, Switched
  <2>3. RemapTypes'
    BY <1>1, <2>1, <2>2 DEF RemapTypes
  <2>4. ASSUME listening' /\ reading' /\ created', NEW r \in settled' PROVE RuleInv(r)'
    <3>1. r \in Rules /\ listening /\ r \in mapped
      BY <1>1, <2>1, <2>2, <2>4 DEF RemapTypes
    <3>2. TestModifiers(r)' = TestModifiers(r) /\ Expected(r)' = Expected(r)
      BY <1>1 DEF TestModifiers, Expected
    <3>3. held[r] \in BOOLEAN /\ TestModifiers(r) \in BOOLEAN
      BY <1>1, <3>1 DEF RemapTypes, TestModifiers
    <3>4. CASE r \in sends
      <4>1. output'[r] = Expected(r)
        BY <2>1, <3>1, <3>4
      <4>2. ~ TestModifiers(r) => Expected(r) = r.default
        BY DEF Expected
      <4>3. Modifiers(r) # {} /\ held'[r] # TestModifiers(r) => Modifiers(r) \cap untold' # {}
        <5> SUFFICES ASSUME Modifiers(r) # {}, held'[r] # TestModifiers(r)
                     PROVE  Modifiers(r) \cap untold' # {}
          OBVIOUS
        <5>1. r \notin Switched(s) /\ held'[r] = held[r]
          BY <2>1, <3>1, <3>3, <3>4 DEF Switched
        <5>2. r \in settled /\ RuleInv(r)
          BY <1>1, <2>1, <2>4, <3>1 DEF RemapInv
        <5>3. Modifiers(r) \cap untold # {} /\ s \notin Modifiers(r)
          BY <3>1, <5>1, <5>2 DEF RuleInv, Switched
        <5> QED
          BY <1>1, <5>3
      <4> QED
        BY <3>2, <4>1, <4>2, <4>3 DEF RuleInv
    <3>5. CASE r \notin sends
      <4>1. r \in settled /\ RuleInv(r)
        BY <1>1, <2>1, <2>4, <3>5 DEF RemapInv
      <4>2. output'[r] = output[r] /\ held'[r] = held[r]
        BY <2>1, <3>1, <3>5
      <4>3. s \in Modifiers(r) => held[r] = TestModifiers(r)
        BY <3>1, <3>5 DEF Switched
      <4>4. r.source = s => ~ TestModifiers(r)
        BY <3>1, <3>5 DEF PassedOn
      <4> QED
        BY <1>1, <3>2, <4>1, <4>2, <4>3, <4>4 DEF RuleInv
    <3> QED
      BY <3>4, <3>5
  <2> QED
    BY <2>3, <2>4 DEF RemapInv
<1> QED
  BY <1>2, <1>3

LEMMA RemapInvariance == RemapSpec => []RemapInv
<1>1. RemapInv /\ [RemapNext]_remapVars => RemapInv'
  BY AddKeepsRemapInv, ListenKeepsRemapInv, CreateKeepsRemapInv, StopKeepsRemapInv,
     ReportKeepsRemapInv, EventKeepsRemapInv DEF RemapNext
<1> QED
  BY <1>1, InitRemapInv, PTL DEF RemapSpec

(* Remapper::event, for any rules and whatever the order of the events of a    *)
(* report: an output is that of the source while the modifiers are held and    *)
(* the default while they are not.                                           *)
THEOREM RemapOutputFollows == RemapSpec => []OutputFollows
<1>1. RemapInv => OutputFollows
  <2> SUFFICES ASSUME RemapInv, listening /\ reading /\ created, NEW r \in settled,
                      ({r.source} \cup Modifiers(r)) \cap untold = {}
               PROVE  output[r] = Expected(r)
    BY DEF OutputFollows
  <2>1. r \in Rules /\ RuleInv(r)
    BY DEF RemapInv, RemapTypes
  <2>2. held[r] \in BOOLEAN /\ TestModifiers(r) \in BOOLEAN
    BY <2>1 DEF RemapInv, RemapTypes, TestModifiers
  <2>3. Modifiers(r) = {} => TestModifiers(r)
    BY DEF TestModifiers
  <2>4. ~ TestModifiers(r) => Expected(r) = r.default
    BY DEF Expected
  <2> QED
    BY <2>1, <2>2, <2>3, <2>4 DEF RuleInv
<1> QED
  BY <1>1, RemapInvariance, PTL
--------------------------------------------------------------------------------
(* The rules of an event filter: its two tables hold, with its test, each rule *)
(* that the script gave, and nothing else.                                   *)
FilterTypeOK ==
  /\ simpleOnly \in BOOLEAN /\ inverted \in BOOLEAN
  /\ simpleConn \in BOOLEAN /\ allConn \in BOOLEAN /\ touched \in BOOLEAN
  /\ emitting \in [event : DeviceEvents, simple : BOOLEAN, left : SUBSET Signals]
  /\ passed \in SUBSET Signals
  /\ given \in SUBSET MatchRules

SimpleEntry(r) == [type |-> r.type, test |-> TestOf(r)]
PropEntry(r) == [type |-> r.type, prop |-> r.prop, test |-> TestOf(r)]

TablesHoldRules ==
  /\ simpleFilters = {SimpleEntry(r) : r \in {g \in given : g.call \in SimpleCalls}}
  /\ propFilters = {PropEntry(r) : r \in {g \in given : g.call \in PropCalls}}

(* A simple event is emitted as such first.                                  *)
SimpleComesFirst ==
  /\ emitting.simple => DOMAIN emitting.event = {"type", "code", "value"}
  /\ "simple" \in emitting.left => emitting.simple /\ "event" \in emitting.left

(* What the rules say of the event in hand.                                  *)
Ruled(simple) == (\E r \in given : RuleMatches(r, emitting.event, simple)) # inverted

(* As long as the script leaves the filter alone, each of the signals that have *)
(* been emitted was passed on as the rules say.                              *)
PassedSoFar ==
  ~ touched =>
    /\ "simple" \in passed <=>
         "simple" \notin emitting.left /\ simpleConn /\ emitting.simple /\ Ruled(TRUE)
    /\ "event" \in passed <=> "event" \notin emitting.left /\ allConn /\ Ruled(FALSE)

FilterInv == FilterTypeOK /\ TablesHoldRules /\ SimpleComesFirst /\ PassedSoFar

(* A rule's test accepts what its call said.                                 *)
LEMMA TestsAccept ==
  ASSUME NEW r \in MatchRules, NEW v \in Int
  PROVE  /\ r.call = "type" => Accepts(TestOf(r), v)
         /\ r.call \in {"code", "prop"} => (Accepts(TestOf(r), v) <=> v = r.min)
         /\ r.call \in {"codeRange", "propRange"} =>
              (Accepts(TestOf(r), v) <=> v \in r.min .. r.max)
<1>1. CASE r.call = "type"
  <2>1. TestOf(r) = [kind |-> "any", min |-> 0, max |-> 0]
    BY <1>1 DEF TestOf
  <2> QED
    BY <1>1, <2>1 DEF Accepts
<1>2. CASE r.call \in {"code", "prop"}
  <2>1. TestOf(r) = [kind |-> "value", min |-> r.min, max |-> r.min]
    BY <1>2 DEF TestOf
  <2> QED
    BY <1>2, <2>1 DEF Accepts
<1>3. CASE r.call \in {"codeRange", "propRange"}
  <2>1. TestOf(r) = [kind |-> "range", min |-> r.min, max |-> r.max]
    BY <1>3 DEF TestOf
  <2>2. r.min \in Int /\ r.max \in Int
    BY EventFilterAssumption
  <2> QED
    BY <1>3, <2>1, <2>2 DEF Accepts
<1>4. r.call \in {"type", "code", "prop", "codeRange", "propRange"}
  BY EventFilterAssumption DEF SimpleCalls, PropCalls
<1> QED
  BY <1>1, <1>2, <1>3, <1>4

(* What a rule says of an event, by the kind of its call.                     *)
LEMMA RuleMeaning ==
  ASSUME NEW r \in MatchRules, NEW e \in DeviceEvents, NEW simple \in BOOLEAN
  PROVE  /\ r.call \in SimpleCalls =>
              (RuleMatches(r, e, simple) <=>
                 "code" \in DOMAIN e /\ e["type"] = r.type /\ Accepts(TestOf(r), e["code"]))
         /\ r.call \in PropCalls =>
              (RuleMatches(r, e, simple) <=>
                 /\ ~ simple
                 /\ e["type"] = r.type /\ r.prop \in DOMAIN e /\ Accepts(TestOf(r), e[r.prop]))
<1>1. \A p \in DOMAIN e : e[p] \in Int
  BY EventFilterAssumption
<1>2. CASE r.call = "type"
  BY <1>1, <1>2, TestsAccept DEF RuleMatches, SimpleCalls, PropCalls
<1>3. CASE r.call = "code"
  BY <1>1, <1>3, TestsAccept DEF RuleMatches, SimpleCalls, PropCalls
<1>4. CASE r.call = "codeRange"
  BY <1>1, <1>4, TestsAccept DEF RuleMatches, SimpleCalls, PropCalls
<1>5. CASE r.call = "prop"
  BY <1>1, <1>5, TestsAccept DEF RuleMatches, SimpleCalls, PropCalls
<1>6. CASE r.call = "propRange"
  BY <1>1, <1>6, TestsAccept DEF RuleMatches, SimpleCalls, PropCalls
<1> QED
  BY <1>2, <1>3, <1>4, <1>5, <1>6 DEF SimpleCalls, PropCalls

(* A type and a code survive the conversion.                                 *)
LEMMA TypesFit ==
  ASSUME NEW e \in DeviceEvents
  PROVE  /\ "type" \in DOMAIN e /\ e["type"] % CodeRange = e["type"]
         /\ "code" \in DOMAIN e => e["code"] % CodeRange = e["code"]
<1>1. CodeRange \in Nat \ {0}
  BY EventFilterAssumption
<1>2. \A v \in 0 .. CodeRange - 1 : v % CodeRange = v
  BY <1>1
<1>3. "type" \in DOMAIN e /\ e["type"] \in 0 .. CodeRange - 1
  BY EventFilterAssumption
<1>4. "code" \in DOMAIN e => e["code"] \in 0 .. CodeRange - 1
  BY EventFilterAssumption
<1> QED
  BY <1>2, <1>3, <1>4

(* The two tests are what the rules say.                                     *)
LEMMA TestsAsRuled ==
  ASSUME FilterTypeOK, TablesHoldRules, NEW e \in DeviceEvents
  PROVE  /\ "code" \in DOMAIN e =>
              (TestSimpleEvent(e["type"], e["code"]) <=>
                  \E r \in given : RuleMatches(r, e, TRUE))
         /\ TestEvent(e) <=> \E r \in given : RuleMatches(r, e, FALSE)
<1> DEFINE Says(r) == "code" \in DOMAIN e /\ e["type"] = r.type /\ Accepts(TestOf(r), e["code"])
           Tells(r) == e["type"] = r.type /\ r.prop \in DOMAIN e /\ Accepts(TestOf(r), e[r.prop])
<1>1. given \subseteq MatchRules /\ \A r \in given : r.call \in SimpleCalls \cup PropCalls
  BY EventFilterAssumption DEF FilterTypeOK
<1>2. \A r \in given : r.call \in SimpleCalls =>
        (RuleMatches(r, e, TRUE) <=> Says(r)) /\ (RuleMatches(r, e, FALSE) <=> Says(r))
  BY <1>1, RuleMeaning
<1>3. \A r \in given : r.call \in PropCalls =>
        ~ RuleMatches(r, e, TRUE) /\ (RuleMatches(r, e, FALSE) <=> Tells(r))
  BY <1>1, RuleMeaning
<1>4. "code" \in DOMAIN e =>
        (TestSimpleEvent(e["type"], e["code"]) <=>
            \E r \in given : r.call \in SimpleCalls /\ Says(r))
  <2>1. \A r \in given : r.call \in SimpleCalls => SimpleEntry(r) \in simpleFilters
    BY DEF TablesHoldRules
  <2>2. \A f \in simpleFilters : \E r \in given : r.call \in SimpleCalls /\ f = SimpleEntry(r)
    BY DEF TablesHoldRules
  <2>3. \A r : SimpleEntry(r).type = r.type /\ SimpleEntry(r).test = TestOf(r)
    BY DEF SimpleEntry
  <2> QED
    BY <2>1, <2>2, <2>3, Zenon DEF TestSimpleEvent
<1>5. (\E f \in propFilters : /\ f.type = e["type"] /\ f.prop \in DOMAIN e
                             /\ Accepts(f.test, e[f.prop]))
        <=> \E r \in given : r.call \in PropCalls /\ Tells(r)
  <2>1. \A r \in given : r.call \in PropCalls => PropEntry(r) \in propFilters
    BY DEF TablesHoldRules
  <2>2. \A f \in propFilters : \E r \in given : r.call \in PropCalls /\ f = PropEntry(r)
    BY DEF TablesHoldRules
  <2>3. \A r : /\ PropEntry(r).type = r.type /\ PropEntry(r).prop = r.prop
               /\ PropEntry(r).test = TestOf(r)
    BY DEF PropEntry
  <2>4. ASSUME NEW f \in propFilters, f.type = e["type"], f.prop \in DOMAIN e,
               Accepts(f.test, e[f.prop])
        PROVE  \E r \in given : r.call \in PropCalls /\ Tells(r)
    <3>1. PICK r \in given : r.call \in PropCalls /\ f = PropEntry(r)
      BY <2>2
    <3>2. Tells(r)
      BY <2>3, <2>4, <3>1
    <3> QED
      BY <3>1, <3>2
  <2>5. ASSUME NEW r \in given, r.call \in PropCalls, Tells(r)
        PROVE  \E f \in propFilters : /\ f.type = e["type"] /\ f.prop \in DOMAIN e
                                       /\ Accepts(f.test, e[f.prop])
    <3>1. PropEntry(r) \in propFilters
      BY <2>1, <2>5
    <3>2. /\ PropEntry(r).type = e["type"] /\ PropEntry(r).prop \in DOMAIN e
          /\ Accepts(PropEntry(r).test, e[PropEntry(r).prop])
      BY <2>3, <2>5
    <3> QED
      BY <3>1, <3>2
  <2> QED
    BY <2>4, <2>5
<1>6. TestEvent(e) <=> \/ "code" \in DOMAIN e /\ TestSimpleEvent(e["type"], e["code"])
                      \/ \E f \in propFilters : /\ f.type = e["type"] /\ f.prop \in DOMAIN e
                                                /\ Accepts(f.test, e[f.prop])
  BY TypesFit DEF TestEvent
<1> HIDE DEF Says, Tells
<1>7. ASSUME "code" \in DOMAIN e
      PROVE  TestSimpleEvent(e["type"], e["code"]) <=> \E r \in given : RuleMatches(r, e, TRUE)
  BY <1>1, <1>2, <1>3, <1>4, <1>7
<1>8. (\E r \in given : r.call \in SimpleCalls /\ Says(r)) => "code" \in DOMAIN e
  BY DEF Says
<1>9. TestEvent(e) <=> \E r \in given : RuleMatches(r, e, FALSE)
  BY <1>1, <1>2, <1>3, <1>4, <1>5, <1>6, <1>8
<1> QED
  BY <1>7, <1>9

LEMMA InitFilterInv == ASSUME FilterInit PROVE FilterInv
<1>1. FilterTypeOK
  <2>1. PICK e \in DeviceEvents : emitting = [event |-> e, simple |-> FALSE, left |-> {}]
    BY DEF FilterInit
  <2> QED
    BY <2>1 DEF FilterInit, FilterTypeOK
<1>2. TablesHoldRules
  BY DEF FilterInit, TablesHoldRules
<1>3. SimpleComesFirst /\ PassedSoFar
  BY DEF FilterInit, SimpleComesFirst, PassedSoFar
<1> QED
  BY <1>1, <1>2, <1>3 DEF FilterInv

LEMMA AddKeepsFilterInv == ASSUME FilterInv, NEW r \in MatchRules, AddMatch(r) PROVE FilterInv'
<1>1. FilterTypeOK' /\ SimpleComesFirst' /\ PassedSoFar'
  BY DEF FilterInv, AddMatch, FilterTypeOK, SimpleComesFirst, PassedSoFar
<1>2. CASE r.call \in PropCalls
  <2> DEFINE old == {g \in given : g.call \in PropCalls}
             new == {g \in given' : g.call \in PropCalls}
  <2>1. r.call \notin SimpleCalls
    BY <1>2 DEF SimpleCalls, PropCalls
  <2>2. /\ new = old \cup {r}
        /\ {g \in given' : g.call \in SimpleCalls} = {g \in given : g.call \in SimpleCalls}
    BY <1>2, <2>1 DEF AddMatch
  <2>3. propFilters = {PropEntry(g) : g \in old}
    BY DEF FilterInv, TablesHoldRules
  <2>4. propFilters' = propFilters \cup {PropEntry(r)} /\ simpleFilters' = simpleFilters
    BY <1>2 DEF AddMatch, PropEntry
  <2> HIDE DEF old, new
  <2>5. propFilters' = {PropEntry(g) : g \in new}
    BY <2>2, <2>3, <2>4
  <2>6. simpleFilters' = {SimpleEntry(g) : g \in {h \in given' : h.call \in SimpleCalls}}
    BY <2>2, <2>4 DEF FilterInv, TablesHoldRules
  <2>7. TablesHoldRules'
    BY <2>5, <2>6 DEF TablesHoldRules, new
  <2> QED
    BY <1>1, <2>7 DEF FilterInv
<1>3. CASE r.call \notin PropCalls
  <2> DEFINE old == {g \in given : g.call \in SimpleCalls}
             new == {g \in given' : g.call \in SimpleCalls}
  <2>1. r.call \in SimpleCalls
    BY <1>3, EventFilterAssumption
  <2>2. /\ new = old \cup {r}
        /\ {g \in given' : g.call \in PropCalls} = {g \in given : g.call \in PropCalls}
    BY <1>3, <2>1 DEF AddMatch
  <2>3. simpleFilters = {SimpleEntry(g) : g \in old}
    BY DEF FilterInv, TablesHoldRules
  <2>4. simpleFilters' = simpleFilters \cup {SimpleEntry(r)} /\ propFilters' = propFilters
    BY <1>3 DEF AddMatch, SimpleEntry
  <2> HIDE DEF old, new
  <2>5. simpleFilters' = {SimpleEntry(g) : g \in new}
    BY <2>2, <2>3, <2>4
  <2>6. propFilters' = {PropEntry(g) : g \in {h \in given' : h.call \in PropCalls}}
    BY <2>2, <2>4 DEF FilterInv, TablesHoldRules
  <2>7. TablesHoldRules'
    BY <2>5, <2>6 DEF TablesHoldRules, new
  <2> QED
    BY <1>1, <2>7 DEF FilterInv
<1> QED
  BY <1>2, <1>3

LEMMA SettingKeepsFilterInv ==
  ASSUME FilterInv, NEW b \in BOOLEAN,
         SetSimpleOnly(b) \/ SetInverted(b) \/ ConnectFilter \/ DisconnectFilter
  PROVE  FilterInv'
BY DEF FilterInv, FilterTypeOK, TablesHoldRules, SimpleComesFirst, PassedSoFar, Ruled,
       SetSimpleOnly, SetInverted, ConnectFilter, DisconnectFilter

LEMMA EventKeepsFilterInv ==
  ASSUME FilterInv, NEW e \in DeviceEvents, NEW simple \in BOOLEAN, DeviceEvent(e, simple)
  PROVE  FilterInv'
BY DEF FilterInv, FilterTypeOK, TablesHoldRules, SimpleComesFirst, PassedSoFar,
       DeviceEvent, Signals

LEMMA EmissionKeepsFilterInv == ASSUME FilterInv, EmitSimpleEvent \/ EmitEvent PROVE FilterInv'
<1> DEFINE e == emitting.event
<1>1. e \in DeviceEvents
  BY DEF FilterInv, FilterTypeOK
<1>2. /\ "code" \in DOMAIN e =>
           (TestSimpleEvent(e["type"], e["code"]) <=>
                  \E r \in given : RuleMatches(r, e, TRUE))
      /\ TestEvent(e) <=> \E r \in given : RuleMatches(r, e, FALSE)
  BY <1>1, TestsAsRuled DEF FilterInv
<1>3. FilterTypeOK' /\ TablesHoldRules' /\ SimpleComesFirst'
  BY DEF FilterInv, FilterTypeOK, TablesHoldRules, SimpleComesFirst, EmitSimpleEvent, EmitEvent,
         Signals
<1>4. Ruled(TRUE)' = Ruled(TRUE) /\ Ruled(FALSE)' = Ruled(FALSE)
  BY DEF FilterInv, FilterTypeOK, Ruled, EmitSimpleEvent, EmitEvent
<1>5. CASE EmitSimpleEvent
  <2>1. TestSimpleEvent(e["type"], e["code"]) # inverted <=> Ruled(TRUE)
    <3>1. "code" \in DOMAIN e
      BY <1>5 DEF EmitSimpleEvent, FilterInv, SimpleComesFirst
    <3>2. TestSimpleEvent(e["type"], e["code"]) = \E r \in given : RuleMatches(r, e, TRUE)
      BY <1>2, <3>1, Zenon DEF TestSimpleEvent
    <3> QED
      BY <3>2 DEF Ruled
  <2> QED
    BY <1>3, <1>4, <1>5, <2>1
    DEF FilterInv, FilterTypeOK, EmitSimpleEvent, PassedSoFar, SimpleComesFirst
<1>6. CASE EmitEvent
  <2>1. TestEvent(e) # inverted <=> Ruled(FALSE)
    <3>1. TestEvent(e) = \E r \in given : RuleMatches(r, e, FALSE)
      BY <1>2, Zenon DEF TestEvent
    <3> QED
      BY <3>1 DEF Ruled
  <2> QED
    BY <1>3, <1>4, <1>6, <2>1 DEF FilterInv, FilterTypeOK, EmitEvent, PassedSoFar
<1> QED
  BY <1>5, <1>6

(* FilterInv holds in every state of a filter: how its tables follow the       *)
(* calls, and what each signal of the event in hand came to.                  *)
THEOREM FilterInvariance == FilterSpec => []FilterInv
<1>1. ASSUME FilterInv, [FilterNext]_filterVars PROVE FilterInv'
  <2>1. CASE UNCHANGED filterVars
    BY <1>1, <2>1 DEF FilterInv, FilterTypeOK, TablesHoldRules, SimpleComesFirst, PassedSoFar,
                      Ruled, filterVars
  <2> QED
    BY <1>1, <2>1, AddKeepsFilterInv, SettingKeepsFilterInv, EventKeepsFilterInv,
       EmissionKeepsFilterInv DEF FilterNext
<1> QED
  BY <1>1, InitFilterInv, PTL DEF FilterSpec

(* Every filter, with any rules given at any time, passes on of an event whose  *)
(* signals find it unchanged exactly what the rules say.                      *)
THEOREM FilterPassesAsRuled == FilterSpec => []PassedAsRuled
<1>1. FilterInv => PassedAsRuled
  BY DEF FilterInv, FilterTypeOK, PassedSoFar, PassedAsRuled, Ruled
<1> QED
  BY <1>1, FilterInvariance, PTL
--------------------------------------------------------------------------------
(* What an entry of the configuration file says, and what it becomes.           *)
Useful(e) == e.kind = "object" /\ "file" \in DOMAIN e.props

RuleOf(e) ==
  [file |-> e.props["file"], rules |-> [k \in RuleNames \cap DOMAIN e.props |-> e.props[k]]]

(* The table holds the useful ones of the first n entries, in their order.      *)
IsTable(table, n) ==
  \E place \in [1 .. Len(table) -> 1 .. n] :
    /\ \A i \in 1 .. Len(table) :
         Useful(Entries[place[i]]) /\ table[i] = RuleOf(Entries[place[i]])
    /\ \A i, j \in 1 .. Len(table) : i < j => place[i] < place[j]
    /\ \A k \in 1 .. n : Useful(Entries[k]) => \E i \in 1 .. Len(table) : place[i] = k

(* A search is on its way to what UsersFileFirst says, and has missed the file   *)
(* that the user does not have.                                             *)
IsSearch(s) ==
  \E name, place, found, missed :
    /\ s = [name |-> name, place |-> place, found |-> found, missed |-> missed]
    /\ Due(s)
    /\ disk["user"][name] = "absent" => missed

Searching == search # << >> => \E s : search = <<s>> /\ IsSearch(s)

(* A file that was opened is the user's or the system's as UsersFileFirst says. *)
ConfigInv ==
  /\ env \in Environments /\ config \in Configurations /\ disk \in Disks
  /\ phase \in {"start", "ready", "died"}
  /\ phase = "ready" => rules \in Seq(ToSet(rules)) /\ IsTable(rules, Len(Entries))
  /\ device # << >> => phase = "ready" /\ \E d \in InputDevices : device = <<d>>
  /\ loaded \in Seq(ToSet(loaded))
  /\ Searching
  /\ UsersFileFirst
  /\ FirstRuleDecides

(* A sequence is one of its own elements.                                    *)
LEMMA OwnElements == ASSUME NEW S, NEW s \in Seq(S) PROVE s \in Seq(ToSet(s))
<1>1. s \in [1 .. Len(s) -> S] /\ Len(s) \in Nat
  OBVIOUS
<1>2. s \in [1 .. Len(s) -> ToSet(s)]
  BY <1>1 DEF ToSet
<1> QED
  BY <1>1, <1>2

(* Of a set of numbers, Min takes the least.                                 *)
LEMMA LeastElement ==
  ASSUME NEW S, S \subseteq Nat, S # {}
  PROVE  Min(S) \in S /\ \A y \in S : Min(S) <= y
<1>1. PICK x \in S : \A y \in S : <<y, x>> \notin OpToRel(<, Nat)
  BY WFMin, NatLessThanWellFounded, Zenon
<1>2. \A y \in S : x <= y
  <2>1. ASSUME NEW y \in S PROVE ~ (y < x)
    <3>1. y \in Nat /\ x \in Nat
      OBVIOUS
    <3> QED
      BY <1>1, <3>1, Zenon DEF OpToRel
  <2> QED
    BY <2>1
<1> QED
  BY <1>2 DEF Min

(* The recursive definition of the table defines something.                    *)
LEMMA RulesAfterDef ==
  ASSUME Len(Entries) \in Nat
  PROVE  RulesAfter = [k \in 0 .. Len(Entries) |->
                         IF k = 0 THEN << >> ELSE AddEntry(Entries[k], RulesAfter[k - 1])]
<1> DEFINE Fits(f, n) ==
             f = [k \in 0 .. n |-> IF k = 0 THEN << >> ELSE AddEntry(Entries[k], f[k - 1])]
           Bad == {n \in Nat : ~ \E f : Fits(f, n)}
<1>1. Bad = {}
  <2>1. SUFFICES ASSUME Bad # {} PROVE FALSE
    OBVIOUS
  <2>2. PICK m \in Bad : \A n \in Bad : m <= n
    BY <2>1, LeastElement
  <2>3. CASE m = 0
    <3>1. Fits([k \in 0 .. 0 |-> << >>], 0)
      OBVIOUS
    <3> QED
      BY <2>2, <2>3, <3>1
  <2>4. CASE m # 0
    <3>1. m \in Nat /\ m - 1 \in Nat /\ m - 1 \notin Bad
      <4>1. m \in Nat
        OBVIOUS
      <4> HIDE DEF Bad
      <4> QED
        BY <2>2, <2>4, <4>1
    <3>2. PICK f : Fits(f, m - 1)
      BY <3>1
    <3> DEFINE g == [k \in 0 .. m |-> IF k = m THEN AddEntry(Entries[m], f[m - 1]) ELSE f[k]]
    <3>3. \A k \in 0 .. m - 1 : g[k] = IF k = 0 THEN << >> ELSE AddEntry(Entries[k], g[k - 1])
      <4>1. \A k \in 0 .. m - 1 : g[k] = f[k]
        BY <3>1
      <4>2. \A k \in 0 .. m - 1 : f[k] = IF k = 0 THEN << >> ELSE AddEntry(Entries[k], f[k - 1])
        BY <3>2
      <4>3. \A k \in 0 .. m - 1 : k # 0 => k - 1 \in 0 .. m - 1
        BY <3>1
      <4> HIDE DEF g
      <4> QED
        BY <4>1, <4>2, <4>3
    <3>4. g[m] = AddEntry(Entries[m], g[m - 1])
      BY <3>1
    <3>5. \A k \in 0 .. m : k = m \/ k \in 0 .. m - 1
      BY <3>1
    <3>6. g = [k \in 0 .. m |-> IF k = 0 THEN << >> ELSE AddEntry(Entries[k], g[k - 1])]
      <4>1. \A k \in 0 .. m : g[k] = IF k = 0 THEN << >> ELSE AddEntry(Entries[k], g[k - 1])
        <5> HIDE DEF g
        <5> QED
          BY <2>4, <3>3, <3>4, <3>5
      <4>2. g = [k \in 0 .. m |-> g[k]]
        OBVIOUS
      <4> HIDE DEF g
      <4> QED
        BY <4>1, <4>2
    <3> QED
      BY <2>2, <3>6
  <2> QED
    BY <2>3, <2>4
<1>2. \E f : Fits(f, Len(Entries))
  BY <1>1
<1> QED
  BY <1>2, Zenon DEF RulesAfter

(* Each entry leaves in the table what it should.                             *)
LEMMA EntriesMakeTable ==
  ASSUME Entries \in Seq(ToSet(Entries)), NEW n \in 0 .. Len(Entries)
  PROVE  RulesAfter[n] \in Seq(ToSet(RulesAfter[n])) /\ IsTable(RulesAfter[n], n)
<1> DEFINE Is(k) == /\ RulesAfter[k] \in Seq(ToSet(RulesAfter[k]))
                    /\ IsTable(RulesAfter[k], k)
           Bad == {k \in 0 .. Len(Entries) : ~ Is(k)}
<1>1. Len(Entries) \in Nat
  OBVIOUS
<1>2. /\ RulesAfter[0] = << >>
      /\ \A k \in 1 .. Len(Entries) : RulesAfter[k] = AddEntry(Entries[k], RulesAfter[k - 1])
  <2>1. \A k \in 0 .. Len(Entries) :
          RulesAfter[k] = IF k = 0 THEN << >> ELSE AddEntry(Entries[k], RulesAfter[k - 1])
    BY <1>1, RulesAfterDef
  <2> QED
    BY <1>1, <2>1
<1>3. Is(0)
  <2>1. << >> \in Seq(ToSet(<< >>)) /\ Len(<< >>) = 0 /\ 1 .. 0 = {}
    OBVIOUS
  <2>2. \E place \in [1 .. 0 -> 1 .. 0] : TRUE
    <3>1. [i \in 1 .. 0 |-> i] \in [1 .. 0 -> 1 .. 0]
      OBVIOUS
    <3> QED
      BY <3>1
  <2>3. IsTable(<< >>, 0)
    BY <2>1, <2>2 DEF IsTable
  <2> QED
    BY <1>2, <2>1, <2>3
<1>4. ASSUME NEW k \in 1 .. Len(Entries), Is(k - 1) PROVE Is(k)
  <2> DEFINE e == Entries[k]
             before == RulesAfter[k - 1]
             after == RulesAfter[k]
  <2>1. after = AddEntry(e, before)
    BY <1>2
  <2>2. PICK place \in [1 .. Len(before) -> 1 .. k - 1] :
          /\ \A i \in 1 .. Len(before) :
               Useful(Entries[place[i]]) /\ before[i] = RuleOf(Entries[place[i]])
          /\ \A i, j \in 1 .. Len(before) : i < j => place[i] < place[j]
          /\ \A m \in 1 .. k - 1 : Useful(Entries[m]) =>
               \E i \in 1 .. Len(before) : place[i] = m
    BY <1>4 DEF IsTable
  <2>3. before \in Seq(ToSet(before)) /\ Len(before) \in Nat
    BY <1>4
  <2>4. k \in Nat /\ k >= 1 /\ \A m \in 1 .. k : m = k \/ m \in 1 .. k - 1
    BY <1>1
  <2> HIDE DEF before, after, e
  <2>5. CASE Useful(e)
    <3>1. after = Append(before, RuleOf(e))
      BY <2>1, <2>5 DEF AddEntry, Useful, RuleOf
    <3>2. /\ after \in Seq(ToSet(before) \cup {RuleOf(e)})
          /\ Len(after) = Len(before) + 1 /\ after[Len(before) + 1] = RuleOf(e)
          /\ \A i \in 1 .. Len(before) : after[i] = before[i]
      BY <2>3, <3>1
    <3> DEFINE next == [i \in 1 .. Len(after) |-> IF i = Len(after) THEN k ELSE place[i]]
    <3>3. \A i \in 1 .. Len(after) : i = Len(after) \/ i \in 1 .. Len(before)
      BY <2>3, <3>2
    <3>4. /\ next[Len(after)] = k
          /\ \A i \in 1 .. Len(before) : next[i] = place[i] /\ place[i] \in 1 .. k - 1
      <4>1. Len(after) \in 1 .. Len(after)
        BY <2>3, <3>2
      <4>2. \A i \in 1 .. Len(before) : i \in 1 .. Len(after) /\ i # Len(after)
        BY <2>3, <3>2
      <4>3. \A i \in 1 .. Len(before) : place[i] \in 1 .. k - 1
        BY <2>2
      <4> QED
        BY <4>1, <4>2, <4>3
    <3>5. next \in [1 .. Len(after) -> 1 .. k]
      <4>1. \A i \in 1 .. Len(after) : next[i] \in 1 .. k
        <5> HIDE DEF next
        <5> QED
          BY <2>4, <3>3, <3>4
      <4> QED
        BY <4>1
    <3> HIDE DEF next
    <3>6. \A i \in 1 .. Len(after) :
            Useful(Entries[next[i]]) /\ after[i] = RuleOf(Entries[next[i]])
      BY <2>2, <2>5, <3>2, <3>3, <3>4 DEF e
    <3>7. \A i, j \in 1 .. Len(after) : i < j => next[i] < next[j]
      <4>1. SUFFICES ASSUME NEW i \in 1 .. Len(after), NEW j \in 1 .. Len(after), i < j
                     PROVE  next[i] < next[j]
        OBVIOUS
      <4>2. i \in 1 .. Len(before)
        BY <2>3, <3>2, <4>1
      <4>3. CASE j = Len(after)
        BY <2>4, <3>4, <4>2, <4>3
      <4>4. CASE j \in 1 .. Len(before)
        BY <2>2, <3>4, <4>1, <4>2, <4>4
      <4> QED
        BY <3>3, <4>3, <4>4
    <3>8. \A m \in 1 .. k : Useful(Entries[m]) => \E i \in 1 .. Len(after) : next[i] = m
      <4>1. SUFFICES ASSUME NEW m \in 1 .. k, Useful(Entries[m])
                     PROVE  \E i \in 1 .. Len(after) : next[i] = m
        OBVIOUS
      <4>2. CASE m = k
        BY <2>3, <3>2, <3>4, <4>2
      <4>3. CASE m \in 1 .. k - 1
        <5>1. PICK i \in 1 .. Len(before) : place[i] = m
          BY <2>2, <4>1, <4>3
        <5>2. i \in 1 .. Len(after) /\ next[i] = place[i]
          BY <2>3, <3>2, <3>4, <5>1
        <5> QED
          BY <5>1, <5>2
      <4> QED
        BY <2>4, <4>2, <4>3
    <3>9. after \in Seq(ToSet(after))
      BY <3>2, OwnElements
    <3> QED
      BY <3>5, <3>6, <3>7, <3>8, <3>9 DEF IsTable, after
  <2>6. CASE ~ Useful(e)
    <3>1. after = before
      BY <2>1, <2>6 DEF AddEntry, Useful
    <3>2. place \in [1 .. Len(before) -> 1 .. k]
      BY <2>2, <2>4
    <3>3. \A m \in 1 .. k : Useful(Entries[m]) => \E i \in 1 .. Len(before) : place[i] = m
      BY <2>2, <2>4, <2>6 DEF e
    <3>4. IsTable(before, k)
      BY <2>2, <3>2, <3>3 DEF IsTable
    <3> QED
      BY <2>3, <3>1, <3>4 DEF after
  <2> QED
    BY <2>5, <2>6
<1>5. Bad = {}
  <2>1. SUFFICES ASSUME Bad # {} PROVE FALSE
    OBVIOUS
  <2>2. Bad \subseteq 0 .. Len(Entries) /\ Bad \subseteq Nat
    BY <1>1
  <2>3. PICK m \in Bad : \A k \in Bad : m <= k
    <3> HIDE DEF Bad
    <3> QED
      BY <2>1, <2>2, LeastElement
  <2>4. m # 0 /\ ~ Is(m)
    BY <1>3
  <2>5. m \in 1 .. Len(Entries) /\ m - 1 \in 0 .. Len(Entries) /\ m - 1 \notin Bad
    <3> HIDE DEF Bad, Is
    <3> QED
      BY <1>1, <2>2, <2>3, <2>4
  <2>6. Is(m - 1)
    BY <2>5
  <2> HIDE DEF Is, Bad
  <2> QED
    BY <1>4, <2>4, <2>5, <2>6
<1> QED
  BY <1>5

(* The entries that loadConfig goes through are those of the place that the     *)
(* user's environment and the files say.                                      *)
LEMMA EntriesOfPlace ==
  ASSUME config \in Configurations
  PROVE  LET asked == config[IF UserConfigPath # NoName /\ config["user"].kind # "absent"
                             THEN "user" ELSE "etc"]
         IN  IF asked.kind = "object" THEN Entries = asked.entries ELSE Entries = << >>
<1>1. DOMAIN config = {"user", "etc"} /\ NoName \notin Absolute
  BY DefaultScriptsAssumption
<1>2. CASE UserConfigPath # NoName /\ config["user"].kind # "absent"
  <2>1. ConfigPath = <<"user">>
    BY <1>1, <1>2 DEF ConfigPath
  <2> QED
    BY <1>2, <2>1 DEF Entries
<1>3. CASE ~ (UserConfigPath # NoName /\ config["user"].kind # "absent")
  <2>1. ConfigPath = IF config["etc"].kind # "absent" THEN <<"etc">> ELSE << >>
    BY <1>1, <1>3 DEF ConfigPath
  <2> QED
    BY <1>3, <2>1 DEF Entries
<1> QED
  BY <1>2, <1>3

LEMMA EntriesAreSequence ==
  ASSUME config \in Configurations
  PROVE  Entries \in Seq(ToSet(Entries))
<1>1. \A p \in {"user", "etc"} : config[p].entries \in Seq(ToSet(config[p].entries))
  BY DefaultScriptsAssumption
<1>2. << >> \in Seq(ToSet(<< >>))
  OBVIOUS
<1> QED
  BY <1>1, <1>2, EntriesOfPlace

(* The first entry that applies decides.                                     *)
LEMMA NewScriptsAsConfigured ==
  ASSUME ConfigInv, NEW d \in InputDevices, NewScript(d)
  PROVE  FirstRuleDecides'
<1> DEFINE asked == config[IF UserConfigPath # NoName /\ config["user"].kind # "absent"
                           THEN "user" ELSE "etc"]
           fit == IF asked.kind = "object"
                  THEN {k \in DOMAIN asked.entries : Applies(asked.entries[k], d)} ELSE {}
<1>1. PICK place \in [1 .. Len(rules) -> 1 .. Len(Entries)] :
        /\ \A i \in 1 .. Len(rules) :
             Useful(Entries[place[i]]) /\ rules[i] = RuleOf(Entries[place[i]])
        /\ \A i, j \in 1 .. Len(rules) : i < j => place[i] < place[j]
        /\ \A k \in 1 .. Len(Entries) : Useful(Entries[k]) =>
             \E i \in 1 .. Len(rules) : place[i] = k
  BY DEF ConfigInv, NewScript, IsTable
<1>2. /\ DOMAIN rules = 1 .. Len(rules) /\ Len(rules) \in Nat
      /\ DOMAIN Entries = 1 .. Len(Entries) /\ Len(Entries) \in Nat
  BY EntriesAreSequence DEF ConfigInv, NewScript
<1>3. IF asked.kind = "object" THEN Entries = asked.entries ELSE Entries = << >>
  BY EntriesOfPlace DEF ConfigInv
<1>4. fit = {k \in 1 .. Len(Entries) : Applies(Entries[k], d)}
  BY <1>2, <1>3
<1>5. \A i \in 1 .. Len(rules) : i \in Matching(d) <=> place[i] \in fit
  <2>1. SUFFICES ASSUME NEW i \in 1 .. Len(rules) PROVE i \in Matching(d) <=> place[i] \in fit
    OBVIOUS
  <2> DEFINE e == Entries[place[i]]
  <2>2. place[i] \in 1 .. Len(Entries) /\ Useful(e) /\ rules[i] = RuleOf(e)
    BY <1>1
  <2>3. /\ DOMAIN RuleOf(e).rules = RuleNames \cap DOMAIN e.props
        /\ \A k \in RuleNames \cap DOMAIN e.props : RuleOf(e).rules[k] = e.props[k]
    BY DEF RuleOf
  <2> HIDE DEF e
  <2>4. i \in Matching(d) <=> \A k \in RuleNames \cap DOMAIN e.props : e.props[k] = d[k]
    BY <1>2, <2>2, <2>3 DEF Matching
  <2>5. Applies(e, d) <=> \A k \in RuleNames \cap DOMAIN e.props : e.props[k] = d[k]
    BY <2>2 DEF Applies, Useful
  <2> QED
    BY <1>4, <2>2, <2>4, <2>5 DEF e
<1>6. Matching(d) \subseteq 1 .. Len(rules)
  BY <1>2 DEF Matching
<1>7. \A k \in fit : k \in 1 .. Len(Entries) /\ \E i \in 1 .. Len(rules) : place[i] = k
  BY <1>1, <1>4 DEF Applies, Useful
<1> HIDE DEF fit
<1>8. CASE Matching(d) = {}
  <2>1. fit = {}
    BY <1>5, <1>7, <1>8
  <2>2. filename' = NoName
    BY <1>8 DEF NewScript
  <2> QED
    BY <2>1, <2>2 DEF FirstRuleDecides, NewScript, ruleVars, UserConfigPath, fit
<1>9. CASE Matching(d) # {}
  <2> DEFINE i == Min(Matching(d))
  <2>1. i \in Matching(d) /\ \A j \in Matching(d) : i <= j
    BY <1>2, <1>6, <1>9, LeastElement
  <2>2. filename' = rules[i].file
    BY <1>9 DEF NewScript
  <2> HIDE DEF i
  <2>3. i \in 1 .. Len(rules) /\ place[i] \in fit
    BY <1>5, <1>6, <2>1
  <2>4. filename' = Entries[place[i]].props["file"]
    <3>1. rules[i] = RuleOf(Entries[place[i]])
      BY <1>1, <2>3
    <3> QED
      BY <2>2, <3>1 DEF RuleOf
  <2>5. ASSUME NEW k \in fit PROVE place[i] <= k
    <3>1. PICK j \in 1 .. Len(rules) : place[j] = k
      BY <1>7
    <3>2. i <= j
      BY <1>5, <2>1, <3>1
    <3>3. place[i] \in Nat /\ place[j] \in Nat
      BY <1>1, <1>2, <2>3
    <3> QED
      BY <1>1, <1>2, <2>3, <3>1, <3>2, <3>3
  <2>6. asked.kind = "object" /\ asked.entries = Entries
    BY <1>3, <2>3 DEF fit
  <2>7. \E k \in fit : filename' = asked.entries[k].props["file"] /\ \A j \in fit : k <= j
    BY <2>3, <2>4, <2>5, <2>6
  <2> QED
    BY <2>7 DEF FirstRuleDecides, NewScript, ruleVars, UserConfigPath, fit
<1> QED
  BY <1>8, <1>9

(* Due depends on the environment only.                                      *)
LEMMA SameDue == ASSUME UNCHANGED env, NEW s, Due(s) PROVE Due(s)'
BY DEF Due, UserConfigPath

LEMMA SameSearch == ASSUME Searching, UNCHANGED <<env, disk, search>> PROVE Searching'
BY DEF Searching, IsSearch, Due, UserConfigPath

(* A search begins at the first place.                                       *)
LEMMA SearchBegins ==
  ASSUME UNCHANGED <<env, disk>>, NEW name, search' = <<Search(name)>>
  PROVE  Searching'
<1>1. Due(Search(name))
  BY DEF Due, Search, FirstPlace
<1>2. Due(Search(name))'
  BY <1>1 DEF Due, Search, FirstPlace, UserConfigPath
<1>3. IsSearch(Search(name))'
  BY <1>2 DEF IsSearch, Search, FirstPlace, UserConfigPath
<1>4. search' = <<Search(name)'>>
  BY DEF Search, FirstPlace, UserConfigPath
<1> QED
  BY <1>3, <1>4 DEF Searching

LEMMA NotSearching == ASSUME search' = << >> PROVE Searching'
BY DEF Searching

LEMMA SearchesFor == ASSUME NEW n, search' = <<n>>, IsSearch(n)' PROVE Searching'
BY DEF Searching

(* A step of the search, or of the files.                                    *)
LEMMA Updates ==
  ASSUME NEW name, NEW place, NEW found, NEW missed, NEW m, NEW s,
         s = [name |-> name, place |-> place, found |-> found, missed |-> missed]
  PROVE  /\ [s EXCEPT !.found = m] =
              [name |-> name, place |-> place, found |-> m, missed |-> missed]
         /\ [s EXCEPT !.place = "etc"] =
              [name |-> name, place |-> "etc", found |-> found, missed |-> missed]
         /\ [s EXCEPT !.missed = m] =
              [name |-> name, place |-> place, found |-> found, missed |-> m]
<1>1. [s EXCEPT !.found = m] =
        [name |-> name, place |-> place, found |-> m, missed |-> missed]
  OBVIOUS
<1>2. [s EXCEPT !.place = "etc"] =
        [name |-> name, place |-> "etc", found |-> found, missed |-> missed]
  OBVIOUS
<1>3. [s EXCEPT !.missed = m] =
        [name |-> name, place |-> place, found |-> found, missed |-> m]
  OBVIOUS
<1> QED
  BY <1>1, <1>2, <1>3

LEMMA InitConfigInv == ASSUME ScriptFileInit PROVE ConfigInv
<1>1. << >> \in Seq(ToSet(<< >>)) /\ DOMAIN << >> = {}
  OBVIOUS
<1> QED
  BY <1>1 DEF ScriptFileInit, ConfigInv, Searching, UsersFileFirst, FirstRuleDecides

(* What only changes other variables keeps the two properties.                 *)
LEMMA SameLoaded ==
  ASSUME UsersFileFirst, UNCHANGED <<env, loaded>>
  PROVE  UsersFileFirst'
BY DEF UsersFileFirst, Due, UserConfigPath

LEMMA SameFile ==
  ASSUME FirstRuleDecides, UNCHANGED <<env, config, device, isSet, filename>>
  PROVE  FirstRuleDecides'
BY DEF FirstRuleDecides, UserConfigPath

LEMMA SameTable ==
  ASSUME IsTable(rules, Len(Entries)), UNCHANGED <<env, config, rules>>
  PROVE  IsTable(rules, Len(Entries))'
BY DEF IsTable, Entries, ConfigPath, UserConfigPath

LEMMA NothingLoaded ==
  ASSUME loaded' = << >>
  PROVE  (loaded \in Seq(ToSet(loaded)) /\ UsersFileFirst)'
<1>1. << >> \in Seq(ToSet(<< >>)) /\ DOMAIN << >> = {}
  OBVIOUS
<1> QED
  BY <1>1 DEF UsersFileFirst

LEMMA LastElement ==
  ASSUME NEW S, NEW s \in Seq(S), NEW e \in S
  PROVE  \A k \in DOMAIN Append(s, e) :
           (k \in DOMAIN s /\ Append(s, e)[k] = s[k]) \/ Append(s, e)[k] = e
<1>1. /\ DOMAIN s = 1 .. Len(s) /\ DOMAIN Append(s, e) = 1 .. (Len(s) + 1)
      /\ Append(s, e)[Len(s) + 1] = e
      /\ \A k \in 1 .. Len(s) : Append(s, e)[k] = s[k]
      /\ Len(s) \in Nat
  OBVIOUS
<1>2. \A k \in 1 .. (Len(s) + 1) : k \in 1 .. Len(s) \/ k = Len(s) + 1
  BY <1>1
<1> QED
  BY <1>1, <1>2, Zenon

LEMMA ConfigStep == ASSUME ConfigInv, [ScriptFileNext]_scriptFileVars PROVE ConfigInv'
<1>1. CASE LoadConfig
  <2>1. /\ UNCHANGED <<env, config, disk, device, filename, isSet, search, loaded>> /\ phase = "start"
        /\ device = << >>
    BY <1>1 DEF LoadConfig, ConfigInv
  <2>2. UsersFileFirst' /\ FirstRuleDecides' /\ Searching'
    BY <2>1, SameLoaded, SameFile, SameSearch DEF ConfigInv
  <2>3. Entries' = Entries
    BY <2>1 DEF Entries, ConfigPath, UserConfigPath
  <2>4. CASE phase' = "died"
    BY <2>1, <2>2, <2>4 DEF ConfigInv
  <2>5. CASE phase' = "ready" /\ rules' = RulesAfter[Len(Entries)]
    <3>1. Entries \in Seq(ToSet(Entries))
      BY EntriesAreSequence DEF ConfigInv
    <3>2. Len(Entries) \in 0 .. Len(Entries)
      BY <3>1
    <3>3. rules' \in Seq(ToSet(rules')) /\ IsTable(rules', Len(Entries))
      BY <2>5, <3>1, <3>2, EntriesMakeTable
    <3>4. IsTable(rules, Len(Entries))'
      BY <2>3, <3>3 DEF IsTable
    <3> QED
      BY <2>1, <2>2, <2>5, <3>3, <3>4 DEF ConfigInv
  <2> QED
    BY <1>1, <2>4, <2>5 DEF LoadConfig
<1>2. ASSUME NEW d \in InputDevices, NewScript(d) PROVE ConfigInv'
  <2>1. UNCHANGED <<env, config, disk, phase, rules, search>> /\ loaded' = << >>
    BY <1>2 DEF NewScript, ruleVars
  <2>2. FirstRuleDecides'
    BY <1>2, NewScriptsAsConfigured
  <2>3. phase = "ready" => IsTable(rules, Len(Entries))'
    BY <2>1, SameTable DEF ConfigInv
  <2> QED
    BY <1>2, <2>1, <2>2, <2>3, NothingLoaded, SameSearch DEF ConfigInv, NewScript
<1>3. CASE LoadScript
  <2>1. UNCHANGED <<env, config, disk, phase, rules, device, filename, isSet>> /\ loaded' = << >>
    BY <1>3 DEF LoadScript, ruleVars
  <2>2. FirstRuleDecides' /\ (phase = "ready" => IsTable(rules, Len(Entries))')
    BY <2>1, SameFile, SameTable DEF ConfigInv
  <2>3. Searching'
    <3>1. CASE search' = << >>
      BY <3>1 DEF Searching
    <3>2. CASE search' = <<Search(filename)>>
      BY <2>1, <3>2, SearchBegins
    <3> QED
      BY <1>3, <3>1, <3>2 DEF LoadScript
  <2> QED
    BY <2>1, <2>2, <2>3, NothingLoaded DEF ConfigInv
<1>4. ASSUME NEW name \in FileNames, ImportScript(name) PROVE ConfigInv'
  <2>1. /\ UNCHANGED <<env, config, disk, phase, rules, device, filename, isSet, loaded>>
        /\ search' = <<Search(name)>>
    BY <1>4 DEF ImportScript, ruleVars
  <2>2. FirstRuleDecides' /\ UsersFileFirst' /\ (phase = "ready" => IsTable(rules, Len(Entries))')
    BY <2>1, SameLoaded, SameFile, SameTable DEF ConfigInv
  <2>3. Searching'
    BY <2>1, SearchBegins
  <2> QED
    BY <2>1, <2>2, <2>3 DEF ConfigInv
<1>5. CASE TestFile
  <2>1. UNCHANGED <<env, config, disk, phase, rules, device, filename, isSet, loaded>>
    BY <1>5 DEF TestFile, ruleVars
  <2>2. FirstRuleDecides' /\ UsersFileFirst' /\ (phase = "ready" => IsTable(rules, Len(Entries))')
    BY <2>1, SameLoaded, SameFile, SameTable DEF ConfigInv
  <2>3. Searching'
    <3>1. PICK s : search = <<s>> /\ IsSearch(s)
      BY <1>5 DEF TestFile, ConfigInv, Searching
    <3>2. PICK name, place, found, missed :
            /\ s = [name |-> name, place |-> place, found |-> found, missed |-> missed]
            /\ Due(s)
            /\ disk["user"][name] = "absent" => missed
      BY <3>1 DEF IsSearch
    <3>3. CASE search' = << >>
      BY <3>3, NotSearching
    <3>4. CASE search' = <<[s EXCEPT !.found = TRUE]>>
      <4>1. PICK yes : yes = TRUE
        OBVIOUS
      <4>2. PICK n : n = [name |-> name, place |-> place, found |-> yes, missed |-> missed]
        OBVIOUS
      <4>3. [s EXCEPT !.found = yes] = n
        BY <3>2, <4>2, Updates
      <4>4. search' = <<[s EXCEPT !.found = yes]>>
        BY <3>4, <4>1
      <4>5. Due(n)
        BY <3>2, <4>2 DEF Due
      <4>6. IsSearch(n)'
        BY <2>1, <3>2, <4>2, <4>5 DEF IsSearch, Due, UserConfigPath
      <4> QED
        BY <4>3, <4>4, <4>6, SearchesFor
    <3>5. CASE /\ disk[s.place][s.name] = "absent" /\ s.place = "user"
               /\ search' = <<[s EXCEPT !.place = "etc"]>>
      <4>1. PICK n : n = [name |-> name, place |-> "etc", found |-> found, missed |-> missed]
        OBVIOUS
      <4>2. [s EXCEPT !.place = "etc"] = n
        BY <3>2, <4>1, Updates
      <4>3. missed /\ name \notin Absolute
        BY <3>2, <3>5 DEF Due
      <4>4. IsSearch(n)'
        BY <4>1, <4>3 DEF IsSearch, Due
      <4> QED
        BY <3>5, <4>2, <4>4, SearchesFor
    <3>6. search[1] = s
      BY <3>1
    <3> QED
      BY <1>5, <3>3, <3>4, <3>5, <3>6 DEF TestFile
  <2> QED
    BY <2>1, <2>2, <2>3 DEF ConfigInv
<1>6. CASE OpenFile
  <2>1. UNCHANGED <<env, config, disk, phase, rules, device, filename, isSet>> /\ search' = << >>
    BY <1>6 DEF OpenFile, ruleVars
  <2>2. FirstRuleDecides' /\ (phase = "ready" => IsTable(rules, Len(Entries))')
    BY <2>1, SameFile, SameTable DEF ConfigInv
  <2>3. PICK s : search = <<s>> /\ Due(s)
    BY <1>6 DEF OpenFile, ConfigInv, Searching, IsSearch
  <2>4. loaded' = loaded \/ loaded' = Append(loaded, s)
    BY <1>6, <2>3 DEF OpenFile
  <2>5. (loaded \in Seq(ToSet(loaded)) /\ UsersFileFirst)'
    <3>1. CASE loaded' = loaded
      BY <2>1, <3>1, SameLoaded DEF ConfigInv
    <3>2. CASE loaded' = Append(loaded, s)
      <4>1. loaded \in Seq(ToSet(loaded) \cup {s}) /\ s \in ToSet(loaded) \cup {s}
        BY DEF ConfigInv
      <4>2. loaded' \in Seq(ToSet(loaded) \cup {s})
        BY <3>2, <4>1
      <4>3. loaded' \in Seq(ToSet(loaded'))
        BY <4>2, OwnElements
      <4>4. ASSUME NEW k \in DOMAIN loaded' PROVE Due(loaded'[k])
        <5>1. (k \in DOMAIN loaded /\ loaded'[k] = loaded[k]) \/ loaded'[k] = s
          BY <3>2, <4>1, LastElement
        <5> QED
          BY <2>3, <5>1 DEF ConfigInv, UsersFileFirst
      <4>5. UsersFileFirst'
        BY <2>1, <4>4 DEF UsersFileFirst, Due, UserConfigPath
      <4> QED
        BY <4>3, <4>5
    <3> QED
      BY <2>4, <3>1, <3>2
  <2> QED
    BY <2>1, <2>2, <2>5 DEF ConfigInv, Searching
<1>7. ASSUME NEW name \in FileNames, SetFile(name) PROVE ConfigInv'
  <2>1. /\ UNCHANGED <<env, config, disk, phase, rules, device, search>>
        /\ isSet' = TRUE /\ loaded' = << >>
    BY <1>7 DEF SetFile, ruleVars
  <2>2. FirstRuleDecides' /\ (phase = "ready" => IsTable(rules, Len(Entries))')
    BY <2>1, SameTable DEF ConfigInv, FirstRuleDecides
  <2> QED
    BY <2>1, <2>2, NothingLoaded, SameSearch DEF ConfigInv
<1>8. CASE RemoveScript
  <2>1. UNCHANGED <<env, config, disk, phase, rules, search>> /\ device' = << >> /\ loaded' = << >>
    BY <1>8 DEF RemoveScript, ruleVars
  <2>2. FirstRuleDecides' /\ (phase = "ready" => IsTable(rules, Len(Entries))')
    BY <2>1, SameTable DEF ConfigInv, FirstRuleDecides
  <2> QED
    BY <2>1, <2>2, NothingLoaded, SameSearch DEF ConfigInv
<1>9. ASSUME NEW d \in Disks, FilesChange(d) PROVE ConfigInv'
  <2>1. disk' = d /\ UNCHANGED <<env, config, phase, rules, device, filename, isSet, loaded>>
    BY <1>9 DEF FilesChange, ruleVars
  <2>2. FirstRuleDecides' /\ UsersFileFirst' /\ (phase = "ready" => IsTable(rules, Len(Entries))')
    BY <2>1, SameLoaded, SameFile, SameTable DEF ConfigInv
  <2>3. search' = [k \in DOMAIN search |->
           [search[k] EXCEPT !.missed = @ \/ d["user"][search[k].name] = "absent"]]
    BY <1>9 DEF FilesChange
  <2>4. Searching'
    <3>1. CASE search = << >>
      <4>1. search' = << >>
        BY <2>3, <3>1
      <4> QED
        BY <4>1, NotSearching
    <3>2. CASE search # << >>
      <4>1. PICK s : search = <<s>> /\ IsSearch(s)
        BY <3>2 DEF ConfigInv, Searching
      <4>2. PICK name, place, found, missed :
              s = [name |-> name, place |-> place, found |-> found, missed |-> missed] /\ Due(s)
        BY <4>1 DEF IsSearch
      <4>3. PICK m : m = (missed \/ d["user"][name] = "absent")
        OBVIOUS
      <4>4. PICK n : n = [name |-> name, place |-> place, found |-> found, missed |-> m]
        OBVIOUS
      <4>5. DOMAIN search = {1} /\ search[1] = s /\ s.name = name /\ s.missed = missed
        BY <4>1, <4>2
      <4>6. [s EXCEPT !.missed = @ \/ d["user"][s.name] = "absent"] = [s EXCEPT !.missed = m]
        BY <4>3, <4>5
      <4>7. [s EXCEPT !.missed = m] = n
        BY <4>2, <4>4, Updates
      <4>8. search' = [k \in {1} |-> n]
        BY <2>3, <4>5, <4>6, <4>7
      <4>9. search' = <<n>>
        BY <4>8
      <4>10. IsSearch(n)'
        BY <2>1, <4>2, <4>3, <4>4 DEF IsSearch, Due, UserConfigPath
      <4> QED
        BY <4>9, <4>10, SearchesFor
    <3> QED
      BY <3>1, <3>2
  <2> QED
    BY <2>1, <2>2, <2>4 DEF ConfigInv
<1>10. CASE UNCHANGED scriptFileVars
  <2>1. UNCHANGED <<env, config, disk, phase, rules, device, filename, isSet, search, loaded>>
    BY <1>10 DEF scriptFileVars, ruleVars
  <2>2. FirstRuleDecides' /\ UsersFileFirst' /\ (phase = "ready" => IsTable(rules, Len(Entries))')
    BY <2>1, SameLoaded, SameFile, SameTable DEF ConfigInv
  <2> QED
    BY <2>1, <2>2, SameSearch DEF ConfigInv
<1> QED
  BY <1>1, <1>2, <1>3, <1>4, <1>5, <1>6, <1>7, <1>8, <1>9, <1>10 DEF ScriptFileNext

(* The table and the files that were opened are those of the configuration.     *)
THEOREM ConfigInvariance == ScriptFileSpec => []ConfigInv
BY InitConfigInv, ConfigStep, PTL DEF ScriptFileSpec

(* For configuration files of any length, any rules and any files that come and  *)
(* go, also while one is being opened: each device has the script of the first    *)
(* entry that applies to it, and what a script and its imports open is the user's *)
(* file unless there was none at some time of the search.                       *)
THEOREM ScriptsAreAsConfigured == ScriptFileSpec => []ScriptsAsConfigured
<1>1. ConfigInv => ScriptsAsConfigured
  BY DEF ConfigInv, ScriptsAsConfigured
<1> QED
  BY <1>1, ConfigInvariance, PTL
--------------------------------------------------------------------------------
(* What buildInheritanceTrees has made of the first n classes: trees of links to *)
(* declared parents, with the root of each class and with children that are the  *)
(* links' other side; who is left without its declared parent is the root of it. *)
LinksAreDeclared(n) ==
  \A c \in Classes :
    /\ parent[c] # NoClass => c <= n /\ parent[c] = declared[c] /\ root[c] = root[parent[c]]
    /\ parent[c] = NoClass => root[c] = c
    /\ c <= n /\ declared[c] \in Classes /\ parent[c] = NoClass => root[declared[c]] = c

LinksEnd == \A S \in SUBSET Classes : S # {} => \E c \in S : parent[c] \notin S

NoRepeat(s) == \A i, j \in 1 .. Len(s) : s[i] = s[j] => i = j

ChildrenAreLinked ==
  \A p \in Classes :
    ToSet(children[p]) = {c \in Classes : parent[c] = p} /\ NoRepeat(children[p])

TreesTo(n) ==
  /\ parent \in [Classes -> Classes \cup {NoClass}]
  /\ root \in [Classes -> Classes]
  /\ children \in [Classes -> Seq(Classes)]
  /\ trees \in Seq(Classes)
  /\ LinksAreDeclared(n)
  /\ LinksEnd
  /\ ChildrenAreLinked
  /\ ToSet(trees) = {c \in 1 .. n : declared[c] = NoClass} /\ NoRepeat(trees)

(* Before the first thread, while it builds, and ever after.                   *)
NotBuilt ==
  /\ parent = [c \in Classes |-> NoClass] /\ children = [c \in Classes |-> << >>]
  /\ trees = << >>
  /\ \A u \in Users : user[u].at \in {"idle", "reset"}
  /\ \A u, v \in Building : u = v

HalfBuilt ==
  \E u \in Users :
    /\ user[u].at = "build" /\ user[u].next \in Classes /\ TreesTo(user[u].next - 1)
    /\ \A v \in Users \ {u} : user[v].at = "idle"

Built == TreesTo(ClassCount) /\ Building = {}

(* The classes whose tree begins with one that has no parent.                  *)
Planted == {c \in Classes : declared[root[c]] = NoClass}

(* A thread has made some of these; those whose turn it is are on its stack.     *)
HasMade(u, c) == c \in ToSet(made[u])
Ready(u, c) == parent[c] = NoClass \/ HasMade(u, parent[c])

StackIsNext(u) ==
  /\ user[u].stack \in Seq(Classes) /\ NoRepeat(user[u].stack)
  /\ \A c \in ToSet(user[u].stack) : c \in Planted /\ ~ HasMade(u, c) /\ Ready(u, c)
  /\ \A c \in Planted : Ready(u, c) => HasMade(u, c) \/ c \in ToSet(user[u].stack)

(* What it has made is in order, each but once.                               *)
MadeInOrder(u) ==
  /\ NoRepeat(made[u])
  /\ \A k \in 1 .. Len(made[u]) : made[u][k] \in Classes
  /\ \A k \in 1 .. Len(made[u]) : declared[made[u][k]] # NoClass =>
       \E j \in 1 .. k - 1 : made[u][j] = declared[made[u][k]]

Complete(u) == MadeInOrder(u) /\ ToSet(made[u]) = {c \in Classes : Rooted(c)}

ClassTypeOK ==
  /\ declared \in [Classes -> Classes \cup {NoClass, Missing}]
  /\ \E c \in Classes : declared[c] = NoClass
  /\ user \in [Users -> [at : {"idle", "reset", "build", "push", "init", "done"},
                        next : 0 .. ClassCount + 1, stack : Seq(Classes)]]
  /\ made \in [Users -> Seq(Classes)]
  /\ raced \in BOOLEAN

ClassInv ==
  /\ ClassTypeOK
  /\ ~ raced => NotBuilt \/ HalfBuilt \/ Built
  /\ ~ raced => \A u \in Users :
       /\ user[u].at \in {"reset", "build", "push"} => made[u] = << >>
       /\ user[u].at = "init" =>
            StackIsNext(u) /\ MadeInOrder(u) /\ ToSet(made[u]) \subseteq Planted
  /\ \A u \in Users : user[u].at = "done" => Complete(u)

(* Met(next, c) is the least set that next[c] begins and `next' goes on with.    *)
LEMMA MetIsLeast ==
  ASSUME NEW next \in [Classes -> SUBSET Classes], NEW c \in Classes
  PROVE  /\ Met(next, c) \subseteq Classes
         /\ next[c] \subseteq Met(next, c)
         /\ \A b \in Met(next, c) : next[b] \subseteq Met(next, c)
         /\ \A S \in SUBSET Classes :
              next[c] \subseteq S /\ (\A b \in S : next[b] \subseteq S) => Met(next, c) \subseteq S
<1>1. Met(next, c) \subseteq Classes
  BY DEF Met
<1>2. next[c] \subseteq Classes /\ \A b \in Classes : next[b] \subseteq Classes
  OBVIOUS
<1>3. next[c] \subseteq Met(next, c)
  BY <1>2 DEF Met
<1>4. ASSUME NEW b \in Met(next, c) PROVE next[b] \subseteq Met(next, c)
  <2>1. ASSUME NEW a \in next[b], NEW S \in SUBSET Classes,
               next[c] \subseteq S, \A x \in S : next[x] \subseteq S
        PROVE  a \in S
    <3>1. b \in S
      BY <1>4, <2>1 DEF Met
    <3> QED
      BY <2>1, <3>1
  <2>2. b \in Classes
    BY <1>1
  <2> QED
    BY <1>2, <2>1, <2>2 DEF Met
<1>5. ASSUME NEW S \in SUBSET Classes, next[c] \subseteq S, \A b \in S : next[b] \subseteq S
      PROVE  Met(next, c) \subseteq S
  BY <1>5 DEF Met
<1> QED
  BY <1>1, <1>3, <1>4, <1>5

LEMMA AboveIsLeast ==
  ASSUME NEW c \in Classes
  PROVE  /\ Above(c) \subseteq Classes
         /\ parent[c] \in Classes => parent[c] \in Above(c)
         /\ \A b \in Above(c) : parent[b] \in Classes => parent[b] \in Above(c)
         /\ \A S \in SUBSET Classes :
              /\ parent[c] \in Classes => parent[c] \in S
              /\ \A b \in S : parent[b] \in Classes => parent[b] \in S
              => Above(c) \subseteq S
<1> DEFINE next == [a \in Classes |-> Classes \cap {parent[a]}]
<1>1. /\ next \in [Classes -> SUBSET Classes]
      /\ \A a \in Classes : next[a] = Classes \cap {parent[a]}
  OBVIOUS
<1>2. Above(c) = Met(next, c)
  BY DEF Above
<1> HIDE DEF next
<1>3. /\ Above(c) \subseteq Classes
      /\ next[c] \subseteq Above(c)
      /\ \A b \in Above(c) : next[b] \subseteq Above(c)
      /\ \A S \in SUBSET Classes :
           next[c] \subseteq S /\ (\A b \in S : next[b] \subseteq S) => Above(c) \subseteq S
  BY <1>1, <1>2, MetIsLeast
<1>4. ASSUME NEW S \in SUBSET Classes, parent[c] \in Classes => parent[c] \in S,
             \A b \in S : parent[b] \in Classes => parent[b] \in S
      PROVE  Above(c) \subseteq S
  <2>1. next[c] \subseteq S
    BY <1>1, <1>4
  <2>2. \A b \in S : next[b] \subseteq S
    BY <1>1, <1>4
  <2> QED
    BY <1>3, <2>1, <2>2
<1>5. parent[c] \in Classes => parent[c] \in Above(c)
  BY <1>1, <1>3
<1>6. \A b \in Above(c) : parent[b] \in Classes => parent[b] \in Above(c)
  BY <1>1, <1>3
<1> QED
  BY <1>3, <1>4, <1>5, <1>6

LEMMA BaseClassesIsLeast ==
  ASSUME NEW c \in Classes
  PROVE  /\ BaseClasses(c) \subseteq Classes
         /\ declared[c] \in Classes => declared[c] \in BaseClasses(c)
         /\ \A b \in BaseClasses(c) : declared[b] \in Classes => declared[b] \in BaseClasses(c)
         /\ \A S \in SUBSET Classes :
              /\ declared[c] \in Classes => declared[c] \in S
              /\ \A b \in S : declared[b] \in Classes => declared[b] \in S
              => BaseClasses(c) \subseteq S
<1> DEFINE next == [a \in Classes |-> Classes \cap {declared[a]}]
<1>1. /\ next \in [Classes -> SUBSET Classes]
      /\ \A a \in Classes : next[a] = Classes \cap {declared[a]}
  OBVIOUS
<1>2. BaseClasses(c) = Met(next, c)
  BY DEF BaseClasses
<1> HIDE DEF next
<1>3. /\ BaseClasses(c) \subseteq Classes
      /\ next[c] \subseteq BaseClasses(c)
      /\ \A b \in BaseClasses(c) : next[b] \subseteq BaseClasses(c)
      /\ \A S \in SUBSET Classes :
           next[c] \subseteq S /\ (\A b \in S : next[b] \subseteq S) => BaseClasses(c) \subseteq S
  BY <1>1, <1>2, MetIsLeast
<1>4. ASSUME NEW S \in SUBSET Classes, declared[c] \in Classes => declared[c] \in S,
             \A b \in S : declared[b] \in Classes => declared[b] \in S
      PROVE  BaseClasses(c) \subseteq S
  <2>1. next[c] \subseteq S
    BY <1>1, <1>4
  <2>2. \A b \in S : next[b] \subseteq S
    BY <1>1, <1>4
  <2> QED
    BY <1>3, <2>1, <2>2
<1>5. declared[c] \in Classes => declared[c] \in BaseClasses(c)
  BY <1>1, <1>3
<1>6. \A b \in BaseClasses(c) : declared[b] \in Classes => declared[b] \in BaseClasses(c)
  BY <1>1, <1>3
<1> QED
  BY <1>3, <1>4, <1>5, <1>6

LEMMA SubTreeIsLeast ==
  ASSUME NEW c \in Classes, children \in [Classes -> Seq(Classes)]
  PROVE  /\ SubTree(c) \subseteq Classes /\ c \in SubTree(c)
         /\ \A b \in SubTree(c) : ToSet(children[b]) \subseteq SubTree(c)
         /\ \A S \in SUBSET Classes :
              c \in S /\ (\A b \in S : ToSet(children[b]) \subseteq S) => SubTree(c) \subseteq S
<1> DEFINE next == [a \in Classes |-> ToSet(children[a])]
<1>1. next \in [Classes -> SUBSET Classes] /\ \A a \in Classes : next[a] = ToSet(children[a])
  BY DEF ToSet
<1>2. SubTree(c) = {c} \cup Met(next, c)
  BY DEF SubTree
<1> HIDE DEF next
<1>3. /\ Met(next, c) \subseteq Classes
      /\ next[c] \subseteq Met(next, c)
      /\ \A b \in Met(next, c) : next[b] \subseteq Met(next, c)
      /\ \A S \in SUBSET Classes :
           next[c] \subseteq S /\ (\A b \in S : next[b] \subseteq S) => Met(next, c) \subseteq S
  BY <1>1, MetIsLeast
<1>4. \A b \in SubTree(c) : ToSet(children[b]) \subseteq SubTree(c)
  BY <1>1, <1>2, <1>3
<1>5. ASSUME NEW S \in SUBSET Classes, c \in S, \A b \in S : ToSet(children[b]) \subseteq S
      PROVE  SubTree(c) \subseteq S
  <2>1. next[c] \subseteq S /\ \A b \in S : next[b] \subseteq S
    BY <1>1, <1>5
  <2> QED
    BY <1>2, <1>3, <1>5, <2>1
<1> QED
  BY <1>2, <1>3, <1>4, <1>5

(* Whoever goes up from a class comes to its root, and no further.              *)
LEMMA RootIsAbove ==
  ASSUME NEW n, TreesTo(n), NEW S \in SUBSET Classes, NEW c \in S,
         \A b \in S : parent[b] \in Classes => parent[b] \in S
  PROVE  root[c] \in S /\ parent[root[c]] = NoClass /\ root[root[c]] = root[c]
<1> DEFINE X == {d \in S : root[d] = root[c]}
<1>1. PICK s \in X : parent[s] \notin X
  <2>1. X \in SUBSET Classes /\ X # {}
    OBVIOUS
  <2> QED
    BY <2>1 DEF TreesTo, LinksEnd
<1>2. s \in S /\ s \in Classes /\ root[s] = root[c]
  OBVIOUS
<1>3. CASE parent[s] = NoClass
  BY <1>2, <1>3 DEF TreesTo, LinksAreDeclared
<1>4. CASE parent[s] # NoClass
  <2>1. parent[s] \in Classes /\ root[s] = root[parent[s]]
    BY <1>2, <1>4 DEF TreesTo, LinksAreDeclared
  <2> QED
    BY <1>1, <1>2, <2>1
<1> QED
  BY <1>3, <1>4

(* The tree below a root is the classes with that root.                        *)
LEMMA SubTreeOfRoot ==
  ASSUME NEW n, TreesTo(n), NEW c \in Classes, parent[c] = NoClass
  PROVE  SubTree(c) = {d \in Classes : root[d] = c}
<1> DEFINE T == {d \in Classes : root[d] = c}
<1>1. children \in [Classes -> Seq(Classes)]
  BY DEF TreesTo
<1>2. /\ SubTree(c) \subseteq Classes /\ c \in SubTree(c)
      /\ \A b \in SubTree(c) : ToSet(children[b]) \subseteq SubTree(c)
      /\ \A S \in SUBSET Classes :
           c \in S /\ (\A b \in S : ToSet(children[b]) \subseteq S) => SubTree(c) \subseteq S
  BY <1>1, SubTreeIsLeast
<1>3. /\ \A p \in Classes : ToSet(children[p]) = {d \in Classes : parent[d] = p}
      /\ \A d \in Classes : parent[d] # NoClass =>
           parent[d] \in Classes /\ root[d] = root[parent[d]]
      /\ \A d \in Classes : parent[d] = NoClass => root[d] = d
      /\ \A S \in SUBSET Classes : S # {} => \E d \in S : parent[d] \notin S
  <2>1. \A p \in Classes : ToSet(children[p]) = {d \in Classes : parent[d] = p}
    BY DEF TreesTo, ChildrenAreLinked
  <2>2. \A d \in Classes : parent[d] # NoClass =>
          parent[d] \in Classes /\ root[d] = root[parent[d]]
    BY DEF TreesTo, LinksAreDeclared
  <2>3. \A d \in Classes : parent[d] = NoClass => root[d] = d
    BY DEF TreesTo, LinksAreDeclared
  <2>4. \A S \in SUBSET Classes : S # {} => \E d \in S : parent[d] \notin S
    BY DEF TreesTo, LinksEnd
  <2> QED
    BY <2>1, <2>2, <2>3, <2>4
<1>4. SubTree(c) \subseteq T
  <2>1. c \in T
    BY <1>3
  <2>2. ASSUME NEW b \in T, NEW d \in ToSet(children[b]) PROVE d \in T
    <3>1. d \in Classes /\ parent[d] = b /\ b \in Classes /\ root[b] = c
      BY <1>3, <2>2
    <3>2. parent[d] # NoClass
      BY <3>1 DEF Classes, NoClass
    <3> QED
      BY <1>3, <3>1, <3>2
  <2>3. T \in SUBSET Classes /\ \A b \in T : ToSet(children[b]) \subseteq T
    BY <2>2
  <2> QED
    BY <1>2, <2>1, <2>3
<1>5. T \subseteq SubTree(c)
  <2> DEFINE X == T \ SubTree(c)
  <2>1. SUFFICES ASSUME X # {} PROVE FALSE
    OBVIOUS
  <2>2. PICK s \in X : parent[s] \notin X
    BY <1>3, <2>1
  <2>3. s \in Classes /\ root[s] = c /\ s \notin SubTree(c)
    OBVIOUS
  <2>4. parent[s] \in Classes /\ root[parent[s]] = c
    BY <1>2, <1>3, <2>3
  <2>5. parent[s] \in SubTree(c) /\ s \in ToSet(children[parent[s]])
    BY <1>3, <2>2, <2>3, <2>4
  <2> QED
    BY <1>2, <2>3, <2>5
<1> QED
  BY <1>4, <1>5

LEMMA AppendToSet ==
  ASSUME NEW S, NEW s \in Seq(S), NEW c \in S
  PROVE  /\ Append(s, c) \in Seq(S)
         /\ ToSet(Append(s, c)) = ToSet(s) \cup {c}
         /\ NoRepeat(s) /\ c \notin ToSet(s) => NoRepeat(Append(s, c))
<1>1. /\ Append(s, c) \in Seq(S) /\ Len(Append(s, c)) = Len(s) + 1
      /\ Append(s, c)[Len(s) + 1] = c /\ \A i \in 1 .. Len(s) : Append(s, c)[i] = s[i]
  OBVIOUS
<1>2. Len(s) \in Nat /\ ToSet(s) = {s[i] : i \in 1 .. Len(s)}
  BY DEF ToSet
<1>3. ToSet(Append(s, c)) = {Append(s, c)[i] : i \in 1 .. Len(s) + 1}
  BY <1>1 DEF ToSet
<1>4. ToSet(Append(s, c)) = ToSet(s) \cup {c}
  <2> HIDE DEF ToSet
  <2>1. 1 .. Len(s) + 1 = (1 .. Len(s)) \cup {Len(s) + 1}
    BY <1>2
  <2> QED
    BY <1>1, <1>2, <1>3, <2>1
<1>5. NoRepeat(s) /\ c \notin ToSet(s) => NoRepeat(Append(s, c))
  BY <1>1, <1>2 DEF NoRepeat
<1> QED
  BY <1>1, <1>4, <1>5

(* A link from a class to a parent in another tree makes one tree of the two.    *)
LEMMA AttachKeepsTrees ==
  ASSUME NEW c \in Classes, TreesTo(c - 1), UNCHANGED <<declared, trees>>,
         declared \in [Classes -> Classes \cup {NoClass, Missing}],
         declared[c] \in Classes, root[declared[c]] # c, Attach(c, declared[c])
  PROVE  TreesTo(c)'
<1> DEFINE p == declared[c]
<1>1. /\ parent \in [Classes -> Classes \cup {NoClass}] /\ root \in [Classes -> Classes]
      /\ children \in [Classes -> Seq(Classes)] /\ trees \in Seq(Classes)
      /\ ToSet(trees) = {d \in 1 .. c - 1 : declared[d] = NoClass} /\ NoRepeat(trees)
  BY DEF TreesTo
<1>2. \A d \in Classes :
        /\ parent[d] # NoClass =>
             d <= c - 1 /\ parent[d] = declared[d] /\ root[d] = root[parent[d]]
        /\ parent[d] = NoClass => root[d] = d
        /\ d <= c - 1 /\ declared[d] \in Classes /\ parent[d] = NoClass => root[declared[d]] = d
  BY DEF TreesTo, LinksAreDeclared
<1>3. ChildrenAreLinked /\ LinksEnd
  BY DEF TreesTo
<1>4. /\ ClassCount \in Nat /\ c \in Int /\ p \in Classes /\ p # NoClass
      /\ \A d \in Classes : d \in Int
  BY ClassRegistryAssumption DEF Classes, NoClass
<1>5. parent[c] = NoClass /\ root[c] = c
  BY <1>2, <1>4
<1>6. /\ parent' = [parent EXCEPT ![c] = p]
      /\ children' = [children EXCEPT ![p] = Append(@, c)]
      /\ root' = [d \in Classes |-> IF root[d] = c THEN root[p] ELSE root[d]]
  <2>1. SubTree(c) = {d \in Classes : root[d] = c}
    BY <1>5, SubTreeOfRoot
  <2> QED
    BY <2>1 DEF Attach
<1> HIDE DEF p
<1>7. /\ parent' \in [Classes -> Classes \cup {NoClass}] /\ root' \in [Classes -> Classes]
      /\ parent'[c] = p /\ \A d \in Classes : d # c => parent'[d] = parent[d]
  BY <1>1, <1>4, <1>6
<1>8. children' \in [Classes -> Seq(Classes)] /\ ChildrenAreLinked'
  <2>1. /\ children'[p] = Append(children[p], c) /\ children[p] \in Seq(Classes)
        /\ \A q \in Classes : q # p => children'[q] = children[q]
    BY <1>1, <1>4, <1>6
  <2>2. /\ ToSet(children[p]) = {d \in Classes : parent[d] = p} /\ NoRepeat(children[p])
        /\ c \notin ToSet(children[p])
    BY <1>3, <1>4, <1>5 DEF ChildrenAreLinked
  <2>3. /\ children'[p] \in Seq(Classes)
        /\ ToSet(children'[p]) = ToSet(children[p]) \cup {c} /\ NoRepeat(children'[p])
    BY <2>1, <2>2, AppendToSet
  <2>4. children' \in [Classes -> Seq(Classes)]
    BY <1>1, <1>4, <1>6, <2>1, <2>3
  <2>5. ASSUME NEW q \in Classes
        PROVE  ToSet(children'[q]) = {d \in Classes : parent'[d] = q} /\ NoRepeat(children'[q])
    <3>1. CASE q = p
      BY <1>7, <2>2, <2>3, <3>1
    <3>2. CASE q # p
      <4>1. {d \in Classes : parent'[d] = q} = {d \in Classes : parent[d] = q}
        <5>1. q # NoClass
          BY DEF Classes, NoClass
        <5> QED
          BY <1>5, <1>7, <3>2, <5>1
      <4> QED
        BY <1>3, <2>1, <3>2, <4>1 DEF ChildrenAreLinked
    <3> QED
      BY <3>1, <3>2
  <2> QED
    BY <2>4, <2>5 DEF ChildrenAreLinked
<1>9. LinksAreDeclared(c)'
  <2>1. root[p] # c /\ root'[p] = root[p] /\ root'[c] = root[p]
    BY <1>4, <1>5, <1>6 DEF p
  <2>2. \A d \in Classes : root'[d] = IF root[d] = c THEN root[p] ELSE root[d]
    BY <1>6
  <2>3. ASSUME NEW d \in Classes
        PROVE  /\ parent'[d] # NoClass =>
                    d <= c /\ parent'[d] = declared'[d] /\ root'[d] = root'[parent'[d]]
               /\ parent'[d] = NoClass => root'[d] = d
               /\ d <= c /\ declared'[d] \in Classes /\ parent'[d] = NoClass =>
                    root'[declared'[d]] = d
    <3>1. CASE d = c
      BY <1>4, <1>7, <2>1, <3>1 DEF p
    <3>2. CASE d # c
      <4>1. parent'[d] = parent[d] /\ declared'[d] = declared[d] /\ d \in Int
        BY <1>4, <1>7, <2>3, <3>2
      <4>2. CASE parent[d] = NoClass
        <5>1. root[d] = d /\ root'[d] = d
          BY <1>2, <2>2, <3>2, <4>2
        <5>2. d <= c => d <= c - 1
          BY <1>4, <3>2, <4>1
        <5>3. d <= c /\ declared[d] \in Classes => root'[declared[d]] = d
          BY <1>2, <2>2, <3>2, <4>2, <5>2
        <5> QED
          BY <4>1, <4>2, <5>1, <5>3
      <4>3. CASE parent[d] # NoClass
        <5>1. parent[d] \in Classes
          BY <1>1, <2>3, <4>3
        <5> QED
          <6>1. d <= c - 1 /\ parent[d] = declared[d] /\ root[d] = root[parent[d]]
            BY <1>2, <4>3
          <6>2. root'[d] = root'[parent[d]]
            BY <2>2, <5>1, <6>1
          <6>3. d <= c
            BY <1>4, <4>1, <6>1
          <6> QED
            BY <4>1, <4>3, <6>1, <6>2, <6>3
      <4> QED
        BY <4>2, <4>3
    <3> QED
      BY <3>1, <3>2
  <2> QED
    BY <2>3 DEF LinksAreDeclared
<1>10. LinksEnd'
  <2>1. SUFFICES ASSUME NEW S \in SUBSET Classes, S # {}, \A s \in S : parent'[s] \in S
                 PROVE  FALSE
    BY DEF LinksEnd
  <2>2. CASE c \notin S
    <3>1. \A s \in S : parent[s] \in S
      BY <1>7, <2>1, <2>2
    <3> QED
      BY <1>3, <2>1, <3>1 DEF LinksEnd
  <2>3. CASE c \in S
    <3> DEFINE T == {s \in S : root[s] = root[p]}
    <3>1. p \in T /\ c \notin T /\ T \in SUBSET Classes
      BY <1>5, <1>7, <2>1, <2>3 DEF p
    <3>2. PICK s \in T : parent[s] \notin T
      BY <1>3, <3>1 DEF LinksEnd
    <3>3. s \in Classes /\ s # c /\ root[s] = root[p] /\ parent[s] \in S
      BY <1>7, <2>1, <3>1
    <3>4. parent[s] # NoClass
      BY <3>3 DEF Classes, NoClass
    <3> QED
      BY <1>2, <3>2, <3>3, <3>4
  <2> QED
    BY <2>2, <2>3
<1>11. ToSet(trees') = {d \in 1 .. c : declared'[d] = NoClass} /\ NoRepeat(trees')
  <2>1. {d \in 1 .. c : declared[d] = NoClass} = {d \in 1 .. c - 1 : declared[d] = NoClass}
    BY <1>4 DEF p
  <2> QED
    BY <1>1, <2>1
<1> QED
  BY <1>1, <1>7, <1>8, <1>9, <1>10, <1>11 DEF TreesTo

(* What buildInheritanceTrees does for a class keeps the trees trees.           *)
LEMMA BuildKeepsTrees ==
  ASSUME NEW u \in Users, BuildTree(u), user[u].next \in Classes, TreesTo(user[u].next - 1),
         declared \in [Classes -> Classes \cup {NoClass, Missing}], NEW n, n = user[u].next
  PROVE  TreesTo(n)'
<1>1. n \in Classes /\ TreesTo(n - 1) /\ n \in Int /\ declared' = declared
  BY DEF BuildTree, Classes
<1>2. CASE declared[n] \in Classes /\ root[declared[n]] # n
  <2>1. Attach(n, declared[n]) /\ UNCHANGED <<declared, trees>>
    BY <1>2 DEF BuildTree, Classes, NoClass, Missing
  <2> QED
    BY <1>1, <1>2, <2>1, AttachKeepsTrees
<1>3. CASE ~ (declared[n] \in Classes /\ root[declared[n]] # n)
  <2>1. UNCHANGED <<parent, root, children>>
    BY <1>3 DEF BuildTree, Classes
  <2>2. /\ parent' \in [Classes -> Classes \cup {NoClass}] /\ root' \in [Classes -> Classes]
        /\ children' \in [Classes -> Seq(Classes)] /\ LinksEnd' /\ ChildrenAreLinked'
    BY <1>1, <2>1 DEF TreesTo, LinksEnd, ChildrenAreLinked
  <2>3. LinksAreDeclared(n)'
    <3>1. LinksAreDeclared(n - 1)
      BY <1>1 DEF TreesTo
    <3>2. ASSUME NEW c \in Classes
          PROVE  /\ parent'[c] # NoClass =>
                      c <= n /\ parent'[c] = declared'[c] /\ root'[c] = root'[parent'[c]]
                 /\ parent'[c] = NoClass => root'[c] = c
                 /\ c <= n /\ declared'[c] \in Classes /\ parent'[c] = NoClass =>
                      root'[declared'[c]] = c
      <4>1. c \in Int
        BY DEF Classes
      <4>2. CASE c = n
        BY <1>1, <1>3, <2>1, <3>1, <4>1, <4>2 DEF LinksAreDeclared
      <4>3. CASE c # n
        BY <1>1, <2>1, <3>1, <4>1, <4>3 DEF LinksAreDeclared
      <4> QED
        BY <4>2, <4>3
    <3> QED
      BY <3>2 DEF LinksAreDeclared
  <2>4. /\ trees' \in Seq(Classes) /\ NoRepeat(trees')
        /\ ToSet(trees') = {c \in 1 .. n : declared'[c] = NoClass}
    <3>1. /\ trees \in Seq(Classes) /\ NoRepeat(trees)
          /\ ToSet(trees) = {c \in 1 .. n - 1 : declared[c] = NoClass}
      BY <1>1 DEF TreesTo
    <3>2. CASE declared[n] = NoClass
      <4>1. trees' = Append(trees, n)
        BY <3>2 DEF BuildTree, Classes, NoClass, Missing
      <4>2. {c \in 1 .. n : declared[c] = NoClass} =
              {c \in 1 .. n - 1 : declared[c] = NoClass} \cup {n}
        BY <1>1, <3>2 DEF Classes
      <4>3. n \notin ToSet(trees)
        BY <1>1, <3>1
      <4> QED
        BY <1>1, <3>1, <4>1, <4>2, <4>3, AppendToSet
    <3>3. CASE declared[n] # NoClass
      <4>1. trees' = trees
        BY <3>3 DEF BuildTree
      <4>2. {c \in 1 .. n : declared[c] = NoClass} = {c \in 1 .. n - 1 : declared[c] = NoClass}
        BY <1>1, <3>3
      <4> QED
        BY <1>1, <3>1, <4>1, <4>2
    <3> QED
      BY <3>2, <3>3
  <2> QED
    BY <2>2, <2>3, <2>4 DEF TreesTo
<1> QED
  BY <1>2, <1>3

(* Once the trees are built a class has the root of its parent, also where the   *)
(* link to the parent was refused.                                            *)
LEMMA BuiltLinks ==
  ASSUME TreesTo(ClassCount), declared \in [Classes -> Classes \cup {NoClass, Missing}],
         NEW c \in Classes
  PROVE  /\ parent[c] = NoClass => root[c] = c
         /\ parent[c] # NoClass => parent[c] \in Classes /\ parent[c] = declared[c]
         /\ declared[c] \in Classes => root[c] = root[declared[c]]
         /\ declared[c] \in Classes /\ parent[c] # declared[c] =>
              parent[c] = NoClass /\ root[declared[c]] = c
<1>1. parent[c] \in Classes \cup {NoClass} /\ c <= ClassCount
  BY ClassRegistryAssumption DEF TreesTo, Classes
<1> QED
  BY <1>1 DEF TreesTo, LinksAreDeclared

(* A walk up the links does not come back.                                    *)
LEMMA LinksDoNotLoop ==
  ASSUME NEW n, TreesTo(n), NEW c \in Classes
  PROVE  c \notin Above(c)
<1> DEFINE X == {x \in Classes : x \in Above(x)}
<1>1. SUFFICES ASSUME X # {} PROVE FALSE
  OBVIOUS
<1>2. PICK x \in X : parent[x] \notin X
  BY <1>1 DEF TreesTo, LinksEnd
<1>3. x \in Classes /\ x \in Above(x)
  OBVIOUS
<1>4. parent[x] \in Classes
  <2>1. CASE parent[x] \notin Classes
    <3>1. \A S \in SUBSET Classes :
            /\ parent[x] \in Classes => parent[x] \in S
            /\ \A b \in S : parent[b] \in Classes => parent[b] \in S
            => Above(x) \subseteq S
      BY <1>3, AboveIsLeast
    <3>2. Above(x) \subseteq {}
      <4>1. {} \in SUBSET Classes
        OBVIOUS
      <4> QED
        BY <2>1, <3>1, <4>1
    <3> QED
      BY <1>3, <3>2
  <2> QED
    BY <2>1
<1> DEFINE d == parent[x]
<1>5. d \in Classes
  BY <1>4
<1>6. /\ Above(d) \subseteq Classes /\ (parent[d] \in Classes => parent[d] \in Above(d))
      /\ \A b \in Above(d) : parent[b] \in Classes => parent[b] \in Above(d)
  BY <1>5, AboveIsLeast
<1>7. Above(x) \subseteq Above(d) \cup {d}
  <2>1. Above(d) \cup {d} \in SUBSET Classes
    BY <1>5, <1>6
  <2>2. \A b \in Above(d) \cup {d} : parent[b] \in Classes => parent[b] \in Above(d) \cup {d}
    BY <1>6
  <2> HIDE DEF d
  <2>3. parent[x] \in Above(d) \cup {d}
    BY DEF d
  <2> QED
    BY <1>3, <2>1, <2>2, <2>3, AboveIsLeast
<1>8. d \in Above(d)
  <2>1. CASE x = d
    BY <1>3, <2>1
  <2>2. CASE x # d
    <3>1. x \in Above(d)
      BY <1>3, <1>7, <2>2
    <3> QED
      BY <1>4, <1>6, <3>1
  <2> QED
    BY <2>1, <2>2
<1> QED
  BY <1>2, <1>5, <1>8

(* Whatever is above a class has its root.                                    *)
LEMMA AboveHasRoot ==
  ASSUME NEW n, TreesTo(n), NEW c \in Classes, NEW a \in Above(c)
  PROVE  root[a] = root[c]
<1> DEFINE S == {x \in Classes : root[x] = root[c]}
<1>1. S \in SUBSET Classes
  OBVIOUS
<1>2. \A b \in S : parent[b] \in Classes => parent[b] \in S
  <2>1. \A b \in Classes : parent[b] \in Classes => root[b] = root[parent[b]]
    <3>1. \A b \in Classes : parent[b] \in Classes => parent[b] # NoClass
      BY DEF Classes, NoClass
    <3> QED
      BY <3>1 DEF TreesTo, LinksAreDeclared
  <2> QED
    BY <2>1
<1>3. parent[c] \in Classes => parent[c] \in S
  BY <1>2
<1>4. Above(c) \subseteq S
  <2> HIDE DEF S
  <2> QED
    BY <1>1, <1>2, <1>3, AboveIsLeast
<1> QED
  BY <1>4

(* A class that stands in a tree whose root has no parent's name is linked to the *)
(* class it names, which stands in the same tree.                               *)
LEMMA PlantedLinks ==
  ASSUME TreesTo(ClassCount), declared \in [Classes -> Classes \cup {NoClass, Missing}],
         NEW c \in Planted
  PROVE  /\ c \in Classes /\ declared[c] # Missing /\ parent[c] = declared[c]
         /\ declared[c] \in Classes => declared[c] \in Planted
         /\ \A d \in Classes : parent[d] = c => d \in Planted
<1>1. c \in Classes /\ declared[root[c]] = NoClass
  BY DEF Planted
<1>2. /\ parent[c] = NoClass => root[c] = c
      /\ parent[c] # NoClass => parent[c] \in Classes /\ parent[c] = declared[c]
      /\ declared[c] \in Classes => root[c] = root[declared[c]]
      /\ declared[c] \in Classes /\ parent[c] # declared[c] =>
           parent[c] = NoClass /\ root[declared[c]] = c
  BY <1>1, BuiltLinks
<1>3. parent[c] = declared[c]
  BY <1>1, <1>2
<1>4. declared[c] # Missing
  BY <1>2, <1>3 DEF Classes, NoClass, Missing
<1>5. declared[c] \in Classes => declared[c] \in Planted
  BY <1>1, <1>2 DEF Planted
<1>6. ASSUME NEW d \in Classes, parent[d] = c PROVE d \in Planted
  <2>1. parent[d] # NoClass
    BY <1>1, <1>6 DEF Classes, NoClass
  <2>2. root[d] = root[c]
    BY <1>1, <1>6, <2>1, BuiltLinks
  <2> QED
    BY <1>1, <2>2 DEF Planted
<1> QED
  BY <1>1, <1>3, <1>4, <1>5, <1>6

(* Where a class is its own base, the trees have refused a link; where it is not, *)
(* its declared parent is its parent.                                          *)
LEMMA LinkedUnlessLoop ==
  ASSUME TreesTo(ClassCount), declared \in [Classes -> Classes \cup {NoClass, Missing}],
         NEW c \in Classes, c \notin BaseClasses(c), declared[c] \in Classes
  PROVE  parent[c] = declared[c]
<1>1. SUFFICES ASSUME parent[c] # declared[c] PROVE FALSE
  OBVIOUS
<1>2. root[declared[c]] = c
  BY <1>1, BuiltLinks
<1> DEFINE S == BaseClasses(c)
<1>3. S \in SUBSET Classes /\ declared[c] \in S
  BY BaseClassesIsLeast
<1>4. \A b \in S : parent[b] \in Classes => parent[b] \in S
  <2>1. ASSUME NEW b \in S, parent[b] \in Classes PROVE parent[b] \in S
    <3>1. parent[b] = declared[b]
      <4>1. parent[b] # NoClass
        BY <2>1 DEF Classes, NoClass
      <4> QED
        BY <1>3, <4>1, BuiltLinks
    <3> QED
      BY <2>1, <3>1, BaseClassesIsLeast
  <2> QED
    BY <2>1
<1>5. root[declared[c]] \in S
  <2> HIDE DEF S
  <2> QED
    BY <1>3, <1>4, RootIsAbove
<1> QED
  BY <1>2, <1>5

(* The trees whose root has no parent's name hold the classes that the           *)
(* registrations tie to one.                                                  *)
LEMMA PlantedAreRooted ==
  ASSUME TreesTo(ClassCount), declared \in [Classes -> Classes \cup {NoClass, Missing}]
  PROVE  Planted = {c \in Classes : Rooted(c)}
<1>1. Planted \in SUBSET Classes
  BY DEF Planted
<1>2. ASSUME NEW c \in Planted PROVE Rooted(c)
  <2>1. c \in Classes /\ declared[c] # Missing
    BY <1>2, PlantedLinks
  <2>2. BaseClasses(c) \subseteq Planted
    <3>1. \A b \in Planted : declared[b] \in Classes => declared[b] \in Planted
      BY PlantedLinks
    <3> QED
      BY <1>1, <1>2, <2>1, <3>1, BaseClassesIsLeast
  <2>3. ASSUME NEW a \in Planted PROVE declared[a] # Missing /\ a \notin BaseClasses(a)
    <3> DEFINE S == Above(a) \cap Planted
    <3>1. a \in Classes /\ declared[a] # Missing
      BY <2>3, PlantedLinks
    <3>2. S \in SUBSET Classes
      BY <1>1
    <3>3. declared[a] \in Classes => declared[a] \in S
      BY <2>3, <3>1, PlantedLinks, AboveIsLeast
    <3>4. \A b \in S : declared[b] \in Classes => declared[b] \in S
      BY <3>1, PlantedLinks, AboveIsLeast
    <3>5. BaseClasses(a) \subseteq S
      <4> HIDE DEF S
      <4> QED
        BY <3>1, <3>2, <3>3, <3>4, BaseClassesIsLeast
    <3>6. a \notin Above(a)
      BY <3>1, LinksDoNotLoop
    <3> QED
      BY <3>1, <3>5, <3>6
  <2> QED
    BY <1>2, <2>2, <2>3 DEF Rooted
<1>3. ASSUME NEW c \in Classes, Rooted(c) PROVE c \in Planted
  <2> DEFINE S == BaseClasses(c) \cup {c}
             r == root[c]
  <2>1. /\ BaseClasses(c) \subseteq Classes
        /\ declared[c] \in Classes => declared[c] \in BaseClasses(c)
        /\ \A b \in BaseClasses(c) : declared[b] \in Classes => declared[b] \in BaseClasses(c)
    BY BaseClassesIsLeast
  <2>2. S \in SUBSET Classes /\ c \in S
    BY <2>1
  <2>3. ASSUME NEW b \in S, parent[b] \in Classes PROVE parent[b] \in S
    <3>1. parent[b] # NoClass
      BY <2>3 DEF Classes, NoClass
    <3>2. parent[b] = declared[b]
      BY <2>2, <3>1, BuiltLinks
    <3> QED
      BY <2>1, <2>3, <3>2
  <2>4. r \in S /\ parent[r] = NoClass /\ root[r] = r
    <3> HIDE DEF S
    <3> QED
      BY <2>2, <2>3, RootIsAbove
  <2>5. r \in Classes /\ declared[r] # Missing /\ r \notin BaseClasses(r)
    BY <1>3, <2>2, <2>4 DEF Rooted
  <2>6. declared[r] \notin Classes
    <3>1. SUFFICES ASSUME declared[r] \in Classes PROVE FALSE
      OBVIOUS
    <3> HIDE DEF r
    <3>2. parent[r] = declared[r]
      BY <2>5, <3>1, LinkedUnlessLoop
    <3> QED
      BY <2>4, <3>1, <3>2 DEF Classes, NoClass
  <2>7. declared[r] = NoClass
    BY <2>5, <2>6
  <2> QED
    BY <1>3, <2>7 DEF Planted
<1> QED
  BY <1>1, <1>2, <1>3

(* While the trees stand, a pointer converts as the registrations say.           *)
LEMMA BuiltInherits ==
  ASSUME TreesTo(ClassCount), declared \in [Classes -> Classes \cup {NoClass, Missing}],
         NEW c \in Classes, NEW p \in Classes
  PROVE  /\ c \notin BaseClasses(c) /\ (\A a \in BaseClasses(c) : a \notin BaseClasses(a)) =>
              (Inherits(c, p) <=> p \in BaseClasses(c) \cup {c})
         /\ c # p => ~ (Inherits(c, p) /\ Inherits(p, c))
<1>1. ASSUME c \notin BaseClasses(c), \A a \in BaseClasses(c) : a \notin BaseClasses(a)
      PROVE  Inherits(c, p) <=> p \in BaseClasses(c) \cup {c}
  <2>1. /\ BaseClasses(c) \subseteq Classes
        /\ declared[c] \in Classes => declared[c] \in BaseClasses(c)
        /\ \A b \in BaseClasses(c) : declared[b] \in Classes => declared[b] \in BaseClasses(c)
    BY BaseClassesIsLeast
  <2>2. /\ Above(c) \subseteq Classes /\ (parent[c] \in Classes => parent[c] \in Above(c))
        /\ \A b \in Above(c) : parent[b] \in Classes => parent[b] \in Above(c)
    BY AboveIsLeast
  <2>3. \A a \in BaseClasses(c) \cup {c} : declared[a] \in Classes => parent[a] = declared[a]
    BY <1>1, <2>1, LinkedUnlessLoop
  <2>4. \A a \in Classes : parent[a] \in Classes => parent[a] = declared[a]
    <3>1. \A a \in Classes : parent[a] \in Classes => parent[a] # NoClass
      BY DEF Classes, NoClass
    <3> QED
      BY <3>1, BuiltLinks
  <2>5. Above(c) \subseteq BaseClasses(c)
    <3>1. \A b \in BaseClasses(c) : parent[b] \in Classes => parent[b] \in BaseClasses(c)
      BY <2>1, <2>4
    <3>2. parent[c] \in Classes => parent[c] \in BaseClasses(c)
      BY <2>1, <2>4
    <3> QED
      BY <2>1, <3>1, <3>2, AboveIsLeast
  <2>6. BaseClasses(c) \subseteq Above(c)
    <3>1. \A b \in Above(c) : declared[b] \in Classes => declared[b] \in Above(c)
      BY <2>2, <2>3, <2>5
    <3>2. declared[c] \in Classes => declared[c] \in Above(c)
      BY <2>2, <2>3
    <3> QED
      BY <2>2, <3>1, <3>2, BaseClassesIsLeast
  <2>7. \A a \in Above(c) : root[a] = root[c]
    BY AboveHasRoot
  <2> QED
    BY <2>5, <2>6, <2>7 DEF Inherits
<1>2. ASSUME c # p, Inherits(c, p), Inherits(p, c) PROVE FALSE
  <2>1. p \in Above(c) /\ c \in Above(p)
    BY <1>2 DEF Inherits
  <2>2. Above(p) \subseteq Above(c)
    BY <2>1, AboveIsLeast
  <2> QED
    BY <2>1, <2>2, LinksDoNotLoop
<1> QED
  BY <1>1, <1>2

LEMMA LastAndFront ==
  ASSUME NEW S, NEW s \in Seq(S), s # << >>, NoRepeat(s)
  PROVE  /\ Last(s) \in S /\ Last(s) \in ToSet(s)
         /\ Front(s) \in Seq(S) /\ NoRepeat(Front(s)) /\ ToSet(Front(s)) = ToSet(s) \ {Last(s)}
<1>1. Len(s) \in Nat \ {0} /\ Last(s) = s[Len(s)] /\ ToSet(s) = {s[i] : i \in 1 .. Len(s)}
  BY DEF Last, ToSet
<1>2. /\ Front(s) \in Seq(S) /\ Len(Front(s)) = Len(s) - 1
      /\ \A i \in 1 .. Len(s) - 1 : Front(s)[i] = s[i]
  <2>1. Front(s) = SubSeq(s, 1, Len(s) - 1)
    BY DEF Front
  <2>2. SubSeq(s, 1, Len(s) - 1) \in Seq(S) /\ Len(SubSeq(s, 1, Len(s) - 1)) = Len(s) - 1
    <3> DEFINE l == Len(s) - 1
    <3>1. l \in Nat /\ l <= Len(s) /\ \A i \in 1 .. l : s[i] \in S
      BY <1>1
    <3> HIDE DEF l
    <3>2. SubSeq(s, 1, l) \in Seq(S) /\ Len(SubSeq(s, 1, l)) = l
      BY <3>1
    <3> QED
      BY <3>2 DEF l
  <2>3. \A i \in 1 .. Len(s) - 1 : SubSeq(s, 1, Len(s) - 1)[i] = s[i]
    BY <1>1
  <2> QED
    BY <2>1, <2>2, <2>3
<1>3. ToSet(Front(s)) = {Front(s)[i] : i \in 1 .. Len(s) - 1}
  BY <1>1, <1>2 DEF ToSet
<1>4. Last(s) \in S /\ Last(s) \in ToSet(s)
  BY <1>1
<1>5. ToSet(Front(s)) = ToSet(s) \ {Last(s)}
  <2>1. \A i \in 1 .. Len(s) : s[i] = s[Len(s)] => i = Len(s)
    BY <1>1 DEF NoRepeat
  <2> QED
    BY <1>1, <1>2, <1>3, <2>1
<1>6. NoRepeat(Front(s))
  BY <1>1, <1>2 DEF NoRepeat
<1> QED
  BY <1>2, <1>4, <1>5, <1>6

LEMMA ConcatToSet ==
  ASSUME NEW S, NEW s \in Seq(S), NEW t \in Seq(S)
  PROVE  /\ s \o t \in Seq(S) /\ ToSet(s \o t) = ToSet(s) \cup ToSet(t)
         /\ NoRepeat(s) /\ NoRepeat(t) /\ ToSet(s) \cap ToSet(t) = {} => NoRepeat(s \o t)
<1>1. /\ Len(s) \in Nat /\ Len(t) \in Nat /\ s \o t \in Seq(S) /\ Len(s \o t) = Len(s) + Len(t)
      /\ \A i \in 1 .. Len(s) : (s \o t)[i] = s[i]
      /\ \A i \in Len(s) + 1 .. Len(s) + Len(t) : (s \o t)[i] = t[i - Len(s)]
  OBVIOUS
<1>2. /\ ToSet(s) = {s[i] : i \in 1 .. Len(s)} /\ ToSet(t) = {t[i] : i \in 1 .. Len(t)}
      /\ ToSet(s \o t) = {(s \o t)[i] : i \in 1 .. Len(s) + Len(t)}
  BY <1>1 DEF ToSet
<1> DEFINE w == s \o t
<1> HIDE DEF w
<1>3. /\ \A i \in 1 .. Len(s) : w[i] = s[i]
      /\ \A i \in 1 .. Len(t) : Len(s) + i \in 1 .. Len(s) + Len(t) /\ w[Len(s) + i] = t[i]
  <2>1. ASSUME NEW i \in 1 .. Len(t)
        PROVE  Len(s) + i \in 1 .. Len(s) + Len(t) /\ w[Len(s) + i] = t[i]
    <3>1. Len(s) + i \in Len(s) + 1 .. Len(s) + Len(t) /\ (Len(s) + i) - Len(s) = i
      BY <1>1
    <3> QED
      BY <1>1, <3>1 DEF w
  <2> QED
    BY <1>1, <2>1 DEF w
<1>4. \A k \in 1 .. Len(s) + Len(t) :
        k \in 1 .. Len(s) \/ \E i \in 1 .. Len(t) : k = Len(s) + i
  <2>1. \A k \in 1 .. Len(s) + Len(t) :
          k \in 1 .. Len(s) \/ (k - Len(s) \in 1 .. Len(t) /\ k = Len(s) + (k - Len(s)))
    BY <1>1
  <2> QED
    BY <2>1
<1>5. ToSet(w) = ToSet(s) \cup ToSet(t)
  <2>1. ToSet(w) = {w[k] : k \in 1 .. Len(s) + Len(t)}
    BY <1>2 DEF w
  <2>2. ToSet(w) \subseteq ToSet(s) \cup ToSet(t)
    <3>1. \A k \in 1 .. Len(s) + Len(t) : w[k] \in ToSet(s) \/ w[k] \in ToSet(t)
      <4>1. ASSUME NEW k \in 1 .. Len(s) + Len(t)
            PROVE  w[k] \in ToSet(s) \/ w[k] \in ToSet(t)
        <5>1. CASE k \in 1 .. Len(s)
          BY <1>2, <1>3, <5>1
        <5>2. CASE \E i \in 1 .. Len(t) : k = Len(s) + i
          BY <1>2, <1>3, <5>2
        <5> QED
          BY <1>4, <5>1, <5>2
      <4> QED
        BY <4>1
    <3> QED
      BY <2>1, <3>1
  <2>3. ToSet(s) \subseteq ToSet(w)
    <3>1. \A i \in 1 .. Len(s) : i \in 1 .. Len(s) + Len(t)
      BY <1>1
    <3> QED
      BY <1>2, <1>3, <2>1, <3>1
  <2>4. ToSet(t) \subseteq ToSet(w)
    BY <1>2, <1>3, <2>1
  <2> QED
    BY <2>2, <2>3, <2>4
<1>6. ASSUME NoRepeat(s), NoRepeat(t), ToSet(s) \cap ToSet(t) = {} PROVE NoRepeat(w)
  <2>1. ASSUME NEW i \in 1 .. Len(s) + Len(t), NEW j \in 1 .. Len(s) + Len(t), w[i] = w[j]
        PROVE  i = j
    <3>1. CASE i \in 1 .. Len(s) /\ j \in 1 .. Len(s)
      BY <1>3, <1>6, <2>1, <3>1 DEF NoRepeat
    <3>2. CASE i \in 1 .. Len(s) /\ j \notin 1 .. Len(s)
      <4>1. PICK l \in 1 .. Len(t) : j = Len(s) + l
        BY <1>4, <3>2
      <4>2. s[i] = t[l]
        BY <1>3, <2>1, <3>2, <4>1
      <4> QED
        BY <1>2, <1>6, <3>2, <4>2
    <3>3. CASE i \notin 1 .. Len(s) /\ j \in 1 .. Len(s)
      <4>1. PICK l \in 1 .. Len(t) : i = Len(s) + l
        BY <1>4, <3>3
      <4>2. s[j] = t[l]
        BY <1>3, <2>1, <3>3, <4>1
      <4> QED
        BY <1>2, <1>6, <3>3, <4>2
    <3>4. CASE i \notin 1 .. Len(s) /\ j \notin 1 .. Len(s)
      <4>1. PICK l \in 1 .. Len(t) : i = Len(s) + l
        BY <1>4, <3>4
      <4>2. PICK m \in 1 .. Len(t) : j = Len(s) + m
        BY <1>4, <3>4
      <4>3. t[l] = t[m]
        BY <1>3, <2>1, <4>1, <4>2
      <4> QED
        BY <1>6, <4>1, <4>2, <4>3 DEF NoRepeat
    <3> QED
      BY <3>1, <3>2, <3>3, <3>4
  <2>2. Len(w) = Len(s) + Len(t)
    BY <1>1 DEF w
  <2> QED
    BY <2>1, <2>2 DEF NoRepeat
<1> QED
  BY <1>1, <1>5, <1>6 DEF w

(* What a thread makes next has its parent made; what it has put on its stack    *)
(* after that are the classes whose turn it is.                                 *)
LEMMA InitClassKeepsOrder ==
  ASSUME NEW u \in Users, InitClass(u), TreesTo(ClassCount), ClassTypeOK,
         StackIsNext(u), MadeInOrder(u), ToSet(made[u]) \subseteq Planted
  PROVE  StackIsNext(u)' /\ MadeInOrder(u)' /\ (ToSet(made[u]) \subseteq Planted)'
<1> DEFINE s == user[u].stack
           c == Last(s)
           m == made[u]
           t == Front(s) \o children[c]
<1>1. /\ declared \in [Classes -> Classes \cup {NoClass, Missing}] /\ m \in Seq(Classes)
      /\ children \in [Classes -> Seq(Classes)] /\ ChildrenAreLinked
      /\ parent \in [Classes -> Classes \cup {NoClass}]
  BY DEF ClassTypeOK, TreesTo
<1>2. /\ s \in Seq(Classes) /\ s # << >> /\ NoRepeat(s)
      /\ \A d \in ToSet(s) : d \in Planted /\ d \notin ToSet(m)
                             /\ (parent[d] = NoClass \/ parent[d] \in ToSet(m))
      /\ \A d \in Planted : parent[d] = NoClass \/ parent[d] \in ToSet(m) =>
           d \in ToSet(m) \/ d \in ToSet(s)
  BY DEF StackIsNext, InitClass, HasMade, Ready
<1>3. /\ UNCHANGED <<declared, parent, root, children>>
      /\ user'[u].stack = t
      /\ parent[c] = NoClass \/ parent[c] \in ToSet(m) => made'[u] = Append(m, c)
  BY DEF InitClass, ClassTypeOK
<1> HIDE DEF s, m
<1>4. /\ c \in Classes /\ c \in ToSet(s) /\ Front(s) \in Seq(Classes) /\ NoRepeat(Front(s))
      /\ ToSet(Front(s)) = ToSet(s) \ {c}
  BY <1>2, LastAndFront
<1>5. c \in Planted /\ c \notin ToSet(m) /\ made'[u] = Append(m, c)
  BY <1>2, <1>3, <1>4
<1> HIDE DEF c
<1>6. /\ children[c] \in Seq(Classes) /\ NoRepeat(children[c])
      /\ ToSet(children[c]) = {d \in Classes : parent[d] = c}
  BY <1>1, <1>4 DEF ChildrenAreLinked
<1>7. c # NoClass
  BY <1>4 DEF Classes, NoClass
<1>8. /\ t \in Seq(Classes) /\ ToSet(t) = (ToSet(s) \ {c}) \cup {d \in Classes : parent[d] = c}
      /\ NoRepeat(t)
  <2>1. ToSet(Front(s)) \cap ToSet(children[c]) = {}
    BY <1>2, <1>4, <1>5, <1>6, <1>7
  <2> QED
    BY <1>4, <1>6, <2>1, ConcatToSet
<1> HIDE DEF t
<1>9. /\ made'[u] \in Seq(Classes) /\ ToSet(made'[u]) = ToSet(m) \cup {c}
      /\ NoRepeat(m) => NoRepeat(made'[u])
  BY <1>1, <1>4, <1>5, AppendToSet
<1>10. /\ NoRepeat(m)
       /\ \A k \in 1 .. Len(m) : declared[m[k]] # NoClass =>
            \E j \in 1 .. k - 1 : m[j] = declared[m[k]]
  BY DEF MadeInOrder, m
<1>11. Planted' = Planted
  BY <1>3 DEF Planted
<1>12. StackIsNext(u)'
  <2>1. ASSUME NEW d \in ToSet(t)
        PROVE  /\ d \in Planted /\ d \notin ToSet(made'[u])
               /\ parent[d] = NoClass \/ parent[d] \in ToSet(made'[u])
    <3>1. CASE d \in ToSet(s) \ {c}
      BY <1>2, <1>9, <3>1
    <3>2. CASE d \in Classes /\ parent[d] = c
      <4>1. d \in Planted /\ declared[d] = c
        <5>1. d \in Planted
          BY <1>1, <1>5, <3>2, PlantedLinks
        <5> QED
          BY <1>1, <3>2, <5>1, PlantedLinks
      <4>2. d \notin ToSet(m)
        <5>1. SUFFICES ASSUME d \in ToSet(m) PROVE FALSE
          OBVIOUS
        <5>2. PICK k \in 1 .. Len(m) : m[k] = d
          <6>1. ToSet(m) = {m[k] : k \in 1 .. Len(m)}
            BY <1>1 DEF ToSet
          <6> QED
            BY <5>1, <6>1
        <5>3. PICK j \in 1 .. k - 1 : m[j] = c
          BY <1>7, <1>10, <4>1, <5>2
        <5>4. j \in 1 .. Len(m)
          BY <1>1, <5>2, <5>3
        <5>5. c \in ToSet(m)
          BY <1>1, <5>3, <5>4 DEF ToSet
        <5> QED
          BY <1>5, <5>5
      <4>3. d # c
        <5>1. \E e \in {d} : parent[e] \notin {d}
          BY <3>2 DEF TreesTo, LinksEnd
        <5> QED
          BY <3>2, <5>1
      <4> QED
        BY <1>9, <3>2, <4>1, <4>2, <4>3
    <3> QED
      BY <1>8, <3>1, <3>2
  <2>2. ASSUME NEW d \in Planted, parent[d] = NoClass \/ parent[d] \in ToSet(made'[u])
        PROVE  d \in ToSet(made'[u]) \/ d \in ToSet(t)
    <3>1. d \in Classes
      BY <2>2 DEF Planted
    <3> QED
      BY <1>2, <1>8, <1>9, <2>2, <3>1
  <2> QED
    BY <1>3, <1>8, <1>11, <2>1, <2>2 DEF StackIsNext, HasMade, Ready
<1>13. MadeInOrder(u)'
  <2>1. /\ Len(m) \in Nat /\ Len(made'[u]) = Len(m) + 1 /\ made'[u][Len(m) + 1] = c
        /\ \A k \in 1 .. Len(m) : made'[u][k] = m[k] /\ m[k] \in Classes
    BY <1>1, <1>4, <1>5
  <2>2. ASSUME NEW k \in 1 .. Len(m) + 1, declared[made'[u][k]] # NoClass
        PROVE  \E j \in 1 .. k - 1 : made'[u][j] = declared[made'[u][k]]
    <3>1. CASE k \in 1 .. Len(m)
      <4>1. PICK j \in 1 .. k - 1 : m[j] = declared[m[k]]
        BY <1>10, <2>1, <2>2, <3>1
      <4>2. j \in 1 .. Len(m)
        BY <2>1, <3>1, <4>1
      <4> QED
        BY <2>1, <3>1, <4>1, <4>2
    <3>2. CASE k = Len(m) + 1
      <4>1. parent[c] = declared[c]
        BY <1>1, <1>5, PlantedLinks
      <4>2. declared[c] \in ToSet(m)
        BY <1>2, <1>4, <2>1, <2>2, <3>2, <4>1
      <4>3. PICK j \in 1 .. Len(m) : m[j] = declared[c]
        <5>1. ToSet(m) = {m[i] : i \in 1 .. Len(m)}
          BY <1>1 DEF ToSet
        <5> QED
          BY <4>2, <5>1
      <4>4. j \in 1 .. k - 1
        BY <2>1, <3>2, <4>3
      <4> QED
        BY <2>1, <3>2, <4>3, <4>4
    <3> QED
      BY <2>1, <3>1, <3>2
  <2>3. \A k \in 1 .. Len(m) + 1 : made'[u][k] \in Classes
    BY <1>4, <2>1
  <2> QED
    BY <1>3, <1>9, <1>10, <2>1, <2>2, <2>3 DEF MadeInOrder
<1>14. (ToSet(made[u]) \subseteq Planted)'
  <2>1. ToSet(m) \subseteq Planted
    BY DEF m
  <2> QED
    BY <1>5, <1>9, <1>11, <2>1
<1> QED
  BY <1>12, <1>13, <1>14

(* With nothing left on its stack, a thread has made all there is to make.       *)
LEMMA AllIsMade ==
  ASSUME NEW u \in Users, user[u].stack = << >>, TreesTo(ClassCount), ClassTypeOK,
         StackIsNext(u), MadeInOrder(u), ToSet(made[u]) \subseteq Planted
  PROVE  Complete(u)
<1>1. declared \in [Classes -> Classes \cup {NoClass, Missing}]
  BY DEF ClassTypeOK
<1>2. \A c \in Planted :
        parent[c] = NoClass \/ parent[c] \in ToSet(made[u]) => c \in ToSet(made[u])
  <2>1. ToSet(<< >>) = {}
    BY DEF ToSet
  <2> QED
    BY <2>1 DEF StackIsNext, Ready, HasMade
<1>3. Planted \subseteq ToSet(made[u])
  <2> DEFINE X == Planted \ ToSet(made[u])
  <2>1. SUFFICES ASSUME X # {} PROVE FALSE
    OBVIOUS
  <2>2. X \in SUBSET Classes
    BY DEF Planted
  <2>3. PICK x \in X : parent[x] \notin X
    BY <2>1, <2>2 DEF TreesTo, LinksEnd
  <2>4. x \in Planted /\ x \in Classes /\ parent[x] # NoClass /\ parent[x] \notin ToSet(made[u])
    BY <1>2, <2>2
  <2>5. parent[x] \in Classes /\ parent[x] = declared[x]
    BY <1>1, <2>4, BuiltLinks
  <2>6. parent[x] \in Planted
    BY <1>1, <2>4, <2>5, PlantedLinks
  <2> QED
    BY <2>3, <2>4, <2>6
<1>4. ToSet(made[u]) = {c \in Classes : Rooted(c)}
  BY <1>1, <1>3, PlantedAreRooted
<1> QED
  BY <1>4 DEF Complete

LEMMA NoRepeatCounts ==
  ASSUME NEW S, NEW s \in Seq(S), NoRepeat(s)
  PROVE  Len(s) = Cardinality(ToSet(s))
<1> DEFINE f == [i \in 1 .. Len(s) |-> s[i]]
<1>1. Len(s) \in Nat /\ ToSet(s) = {s[i] : i \in 1 .. Len(s)}
  BY DEF ToSet
<1>2. f \in Bijection(1 .. Len(s), ToSet(s))
  BY <1>1 DEF NoRepeat, Bijection, Injection, Surjection, IsInjective
<1>3. ExistsBijection(1 .. Len(s), ToSet(s))
  BY <1>2 DEF ExistsBijection
<1> QED
  BY <1>1, <1>3, FS_CountingElements

(* Before there is a thread, there are no trees.                               *)
LEMMA ClassInvInit == ClassInit => ClassInv
<1> SUFFICES ASSUME ClassInit PROVE ClassInv
  OBVIOUS
<1>1. << >> \in Seq(Classes) /\ 0 \in 0 .. ClassCount + 1
  BY ClassRegistryAssumption
<1>2. \A u \in Users :
        user[u].at = "idle" /\ user[u] = [at |-> "idle", next |-> 0, stack |-> << >>]
  BY DEF ClassInit
<1>3. ClassTypeOK
  BY <1>1, <1>2 DEF ClassInit, ClassTypeOK
<1>4. NotBuilt
  BY <1>2 DEF ClassInit, NotBuilt, Building
<1> QED
  BY <1>2, <1>3, <1>4 DEF ClassInv

(* Who is where while no thread has come upon trees that another one builds.     *)
LEMMA ClassPhase ==
  ASSUME ClassInv, ~ raced, NEW u \in Users
  PROVE  /\ user[u].at \in {"push", "init", "done"} => Built
         /\ user[u].at = "build" =>
              /\ user[u].next \in Classes /\ TreesTo(user[u].next - 1)
              /\ \A v \in Users \ {u} : user[v].at = "idle"
         /\ user[u].at = "reset" => NotBuilt /\ \A v \in Users \ {u} : user[v].at = "idle"
<1>1. NotBuilt \/ HalfBuilt \/ Built
  BY DEF ClassInv
<1>2. CASE NotBuilt
  <2>1. user[u].at \in {"idle", "reset"}
    BY <1>2 DEF NotBuilt
  <2>2. ASSUME user[u].at = "reset", NEW v \in Users \ {u} PROVE user[v].at = "idle"
    <3>1. v \in Users /\ user[v].at \in {"idle", "reset"}
      BY <1>2 DEF NotBuilt
    <3>2. user[v].at = "reset" => v = u
      BY <1>2, <2>2, <3>1 DEF NotBuilt, Building
    <3> QED
      BY <3>1, <3>2
  <2> QED
    BY <1>2, <2>1, <2>2
<1>3. CASE HalfBuilt
  BY <1>3 DEF HalfBuilt
<1>4. CASE Built
  BY <1>4 DEF Built, Building
<1> QED
  BY <1>1, <1>2, <1>3, <1>4

(* A thread that does nothing is as it was, while the trees are.                 *)
LEMMA OtherKeeps ==
  ASSUME NEW v \in Users, user'[v] = user[v], made'[v] = made[v], declared' = declared
  PROVE  /\ Complete(v) => Complete(v)'
         /\ UNCHANGED <<parent, root>> =>
              /\ StackIsNext(v) => StackIsNext(v)'
              /\ MadeInOrder(v) => MadeInOrder(v)'
              /\ ToSet(made[v]) \subseteq Planted => (ToSet(made[v]) \subseteq Planted)'
<1>1. ASSUME NEW c \in Classes PROVE Rooted(c)' <=> Rooted(c)
  <2>1. \A a : BaseClasses(a)' = BaseClasses(a)
    BY DEF BaseClasses, Met
  <2> QED
    BY <2>1 DEF Rooted
<1>2. MadeInOrder(v) => MadeInOrder(v)'
  BY DEF MadeInOrder
<1>3. Complete(v) => Complete(v)'
  BY <1>1, <1>2 DEF Complete
<1>4. ASSUME UNCHANGED <<parent, root>> PROVE Planted' = Planted
  BY <1>4 DEF Planted
<1>5. ASSUME UNCHANGED <<parent, root>>, StackIsNext(v) PROVE StackIsNext(v)'
  <2>1. Planted' = Planted
    BY <1>4, <1>5
  <2> QED
    BY <1>5, <2>1 DEF StackIsNext, Ready, HasMade
<1> QED
  BY <1>2, <1>3, <1>4, <1>5

(* What the invariant says of one thread.                                      *)
UserInv(u) ==
  /\ ~ raced =>
       /\ user[u].at \in {"reset", "build", "push"} => made[u] = << >>
       /\ user[u].at = "init" =>
            StackIsNext(u) /\ MadeInOrder(u) /\ ToSet(made[u]) \subseteq Planted
  /\ user[u].at = "done" => Complete(u)

(* A step of one thread that keeps what the other ones stand on.                 *)
LEMMA OneThread ==
  ASSUME ClassInv, NEW u \in Users, ClassTypeOK', UserInv(u)', declared' = declared,
         raced => raced',
         \A v \in Users \ {u} : user'[v] = user[v] /\ made'[v] = made[v],
         UNCHANGED <<parent, root>> \/ \A v \in Users \ {u} : user[v].at = "idle",
         ~ raced' => (NotBuilt \/ HalfBuilt \/ Built)'
  PROVE  ClassInv'
<1>1. ASSUME NEW v \in Users PROVE UserInv(v)'
  <2>1. CASE v = u
    BY <2>1
  <2>2. CASE v # u
    <3>1. user'[v] = user[v] /\ made'[v] = made[v]
      BY <2>2
    <3>2. UserInv(v)
      BY DEF ClassInv, UserInv
    <3>3. CASE user[v].at = "idle"
      BY <3>1, <3>3 DEF UserInv
    <3>4. CASE UNCHANGED <<parent, root>>
      BY <3>1, <3>2, <3>4, OtherKeeps DEF UserInv
    <3> QED
      BY <2>2, <3>3, <3>4
  <2> QED
    BY <2>1, <2>2
<1>2. \A v \in Users : UserInv(v)'
  BY <1>1
<1> QED
  BY <1>2 DEF ClassInv, UserInv

LEMMA InitClassesStep ==
  ASSUME ClassInv, NEW u \in Users, InitClasses(u)
  PROVE  ClassInv'
<1> DEFINE a == IF trees = << >> THEN "reset" ELSE "push"
<1>1. ClassTypeOK /\ user[u].at = "idle" /\ ~ raced /\ raced' = (Building # {})
  BY DEF ClassInv, InitClasses
<1>2. UNCHANGED <<declared, parent, root, children, trees>> /\ made' = [made EXCEPT ![u] = << >>]
  BY DEF InitClasses
<1>3. /\ user'[u].at = a /\ \A v \in Users \ {u} : user'[v] = user[v]
      /\ user' \in [Users -> [at : {"idle", "reset", "build", "push", "init", "done"},
                              next : 0 .. ClassCount + 1, stack : Seq(Classes)]]
  BY <1>1 DEF InitClasses, ClassTypeOK
<1>4. /\ made' \in [Users -> Seq(Classes)] /\ made'[u] = << >>
      /\ \A v \in Users \ {u} : made'[v] = made[v]
  BY <1>1, <1>2 DEF ClassTypeOK
<1> HIDE DEF a
<1>5. ClassTypeOK'
  BY <1>1, <1>2, <1>3, <1>4 DEF ClassTypeOK
<1>6. UserInv(u)'
  BY <1>3, <1>4 DEF UserInv, a
<1>7. ASSUME ~ raced' PROVE (NotBuilt \/ HalfBuilt \/ Built)'
  <2>1. Building = {}
    BY <1>1, <1>7
  <2>2. CASE NotBuilt
    <3>1. a = "reset"
      BY <2>2 DEF NotBuilt, a
    <3>2. \A v \in Users : user'[v].at \in {"idle", "reset"}
      BY <1>3, <2>2, <3>1 DEF NotBuilt
    <3>3. Building' = {u}
      BY <1>3, <2>1, <3>1 DEF Building
    <3> QED
      BY <1>2, <2>2, <3>2, <3>3 DEF NotBuilt
  <2>3. CASE HalfBuilt
    BY <2>1, <2>3 DEF HalfBuilt, Building
  <2>4. CASE Built
    <3>1. trees # << >>
      <4>1. PICK c \in Classes : declared[c] = NoClass
        BY <1>1 DEF ClassTypeOK
      <4>2. c \in ToSet(trees)
        BY <2>4, <4>1 DEF Built, TreesTo, Classes
      <4> QED
        BY <4>2 DEF ToSet
    <3>2. Building' = {}
      BY <1>3, <2>1, <3>1 DEF Building, a
    <3>3. TreesTo(ClassCount)'
      BY <1>2, <2>4 DEF Built, TreesTo, LinksAreDeclared, LinksEnd, ChildrenAreLinked
    <3> QED
      BY <3>2, <3>3 DEF Built
  <2>5. NotBuilt \/ HalfBuilt \/ Built
    BY <1>1 DEF ClassInv
  <2> QED
    BY <2>2, <2>3, <2>4, <2>5
<1> QED
  BY <1>1, <1>2, <1>3, <1>4, <1>5, <1>6, <1>7, OneThread

LEMMA ResetRootsStep ==
  ASSUME ClassInv, NEW u \in Users, ResetRoots(u)
  PROVE  ClassInv'
<1>1. ClassTypeOK /\ user[u].at = "reset" /\ ~ raced
  BY DEF ClassInv, ResetRoots
<1>2. /\ UNCHANGED <<declared, parent, children, trees, made, raced>>
      /\ root' = [c \in Classes |-> c]
  BY DEF ResetRoots
<1>3. /\ user'[u].at = "build" /\ user'[u].next = 1 /\ \A v \in Users \ {u} : user'[v] = user[v]
      /\ user' \in [Users -> [at : {"idle", "reset", "build", "push", "init", "done"},
                              next : 0 .. ClassCount + 1, stack : Seq(Classes)]]
  <2>1. 1 \in 0 .. ClassCount + 1
    BY ClassRegistryAssumption
  <2> QED
    BY <1>1, <2>1 DEF ResetRoots, ClassTypeOK
<1>4. ClassTypeOK'
  BY <1>1, <1>2, <1>3 DEF ClassTypeOK
<1>5. NotBuilt /\ \A v \in Users \ {u} : user[v].at = "idle"
  BY <1>1, ClassPhase
<1>6. made[u] = << >>
  BY <1>1 DEF ClassInv
<1>7. UserInv(u)'
  BY <1>2, <1>3, <1>6 DEF UserInv
<1>8. TreesTo(0)'
  <2>1. \A c \in Classes : c \in Nat /\ c > 0
    BY ClassRegistryAssumption DEF Classes
  <2>2. /\ parent' = [c \in Classes |-> NoClass] /\ children' = [c \in Classes |-> << >>]
        /\ trees' = << >>
    BY <1>2, <1>5 DEF NotBuilt
  <2>3. LinksAreDeclared(0)'
    BY <1>2, <2>1, <2>2 DEF LinksAreDeclared
  <2>4. LinksEnd'
    <3>1. ASSUME NEW S \in SUBSET Classes, S # {} PROVE \E c \in S : parent'[c] \notin S
      <4>1. PICK c \in S : TRUE
        BY <3>1
      <4>2. parent'[c] \notin S
        BY <2>2, <4>1 DEF Classes, NoClass
      <4> QED
        BY <4>2
    <3> QED
      BY <3>1 DEF LinksEnd
  <2>5. << >> \in Seq(Classes) /\ ToSet(<< >>) = {} /\ NoRepeat(<< >>)
    BY DEF ToSet, NoRepeat
  <2>6. ChildrenAreLinked'
    <3>1. \A p \in Classes : {c \in Classes : parent'[c] = p} = {}
      BY <2>2 DEF Classes, NoClass
    <3> QED
      BY <2>2, <2>5, <3>1 DEF ChildrenAreLinked
  <2>7. {c \in 1 .. 0 : declared'[c] = NoClass} = {}
    OBVIOUS
  <2>8. /\ parent' \in [Classes -> Classes \cup {NoClass}] /\ root' \in [Classes -> Classes]
        /\ children' \in [Classes -> Seq(Classes)]
    BY <1>2, <2>2, <2>5
  <2> QED
    BY <2>2, <2>3, <2>4, <2>5, <2>6, <2>7, <2>8 DEF TreesTo
<1>9. HalfBuilt'
  <2>1. user'[u].next - 1 = 0 /\ user'[u].next \in Classes
    BY <1>3, ClassRegistryAssumption DEF Classes
  <2> QED
    BY <1>3, <1>5, <1>8, <2>1 DEF HalfBuilt
<1> QED
  BY <1>1, <1>2, <1>3, <1>4, <1>5, <1>7, <1>9, OneThread

LEMMA BuildTreeStep ==
  ASSUME ClassInv, NEW u \in Users, BuildTree(u)
  PROVE  ClassInv'
<1>0. PICK n : n = user[u].next
  OBVIOUS
<1> DEFINE a == IF n + 1 \in Classes THEN "build" ELSE "push"
<1>1. ClassTypeOK /\ user[u].at = "build" /\ ~ raced
  BY DEF ClassInv, BuildTree
<1>2. UNCHANGED <<declared, made, raced>>
  BY DEF BuildTree
<1>3. n \in Classes /\ TreesTo(n - 1) /\ \A v \in Users \ {u} : user[v].at = "idle"
  BY <1>0, <1>1, ClassPhase
<1>4. /\ user'[u].at = a /\ user'[u].next = n + 1 /\ \A v \in Users \ {u} : user'[v] = user[v]
      /\ user' \in [Users -> [at : {"idle", "reset", "build", "push", "init", "done"},
                              next : 0 .. ClassCount + 1, stack : Seq(Classes)]]
  <2>1. n + 1 \in 0 .. ClassCount + 1
    BY <1>3, ClassRegistryAssumption DEF Classes
  <2> QED
    BY <1>0, <1>1, <2>1 DEF BuildTree, ClassTypeOK
<1>5. ClassTypeOK'
  BY <1>1, <1>2, <1>4 DEF ClassTypeOK
<1>6. made[u] = << >>
  BY <1>1 DEF ClassInv
<1>7. UserInv(u)'
  BY <1>2, <1>4, <1>6 DEF UserInv
<1>8. TreesTo(n)'
  <2>1. declared \in [Classes -> Classes \cup {NoClass, Missing}]
    BY <1>1 DEF ClassTypeOK
  <2> QED
    BY <1>0, <1>3, <2>1, BuildKeepsTrees
<1>9. CASE n + 1 \in Classes
  <2>1. HalfBuilt'
    <3>1. user'[u].next - 1 = n /\ user'[u].next \in Classes /\ user'[u].at = "build"
      BY <1>3, <1>4, <1>9 DEF Classes
    <3>2. TreesTo(user[u].next - 1)'
      BY <1>8, <3>1
    <3> QED
      BY <1>3, <1>4, <3>1, <3>2 DEF HalfBuilt
  <2> QED
    BY <1>1, <1>2, <1>3, <1>4, <1>5, <1>7, <2>1, OneThread
<1>10. CASE n + 1 \notin Classes
  <2>1. Built'
    <3>1. n = ClassCount
      BY <1>3, <1>10, ClassRegistryAssumption DEF Classes
    <3>2. Building' = {}
      BY <1>3, <1>4, <1>10 DEF Building
    <3>3. TreesTo(ClassCount)'
      BY <1>8, <3>1
    <3> QED
      BY <3>3, <3>1, <3>2 DEF Built
  <2> QED
    BY <1>1, <1>2, <1>3, <1>4, <1>5, <1>7, <2>1, OneThread
<1> QED
  BY <1>9, <1>10

LEMMA PushTreesStep ==
  ASSUME ClassInv, NEW u \in Users, PushTrees(u)
  PROVE  ClassInv'
<1>1. ClassTypeOK /\ user[u].at = "push" /\ ~ raced
  BY DEF ClassInv, PushTrees
<1>2. UNCHANGED <<declared, parent, root, children, trees, made, raced>>
  BY DEF PushTrees
<1>3. TreesTo(ClassCount) /\ Building = {}
  BY <1>1, ClassPhase DEF Built
<1>4. /\ trees \in Seq(Classes) /\ NoRepeat(trees)
      /\ ToSet(trees) = {c \in Classes : declared[c] = NoClass}
  BY <1>3 DEF TreesTo, Classes
<1>5. /\ user'[u].at = "init" /\ user'[u].stack = trees
      /\ \A v \in Users \ {u} : user'[v] = user[v]
      /\ user' \in [Users -> [at : {"idle", "reset", "build", "push", "init", "done"},
                              next : 0 .. ClassCount + 1, stack : Seq(Classes)]]
  BY <1>1, <1>4 DEF PushTrees, ClassTypeOK
<1>6. ClassTypeOK'
  BY <1>1, <1>2, <1>5 DEF ClassTypeOK
<1>7. made[u] = << >> /\ ToSet(<< >>) = {}
  BY <1>1 DEF ClassInv, ToSet
<1>8. declared \in [Classes -> Classes \cup {NoClass, Missing}]
  BY <1>1 DEF ClassTypeOK
<1>9. Planted' = Planted
  BY <1>2 DEF Planted
<1>10. \A c \in ToSet(trees) : c \in Planted /\ parent[c] = NoClass
  <2>1. ASSUME NEW c \in ToSet(trees) PROVE c \in Planted /\ parent[c] = NoClass
    <3>1. c \in Classes /\ declared[c] = NoClass
      BY <1>4, <2>1
    <3>2. parent[c] = NoClass /\ root[c] = c
      BY <1>3, <1>8, <3>1, BuiltLinks DEF Classes, NoClass
    <3> QED
      BY <3>1, <3>2 DEF Planted
  <2> QED
    BY <2>1
<1>11. \A c \in Planted : parent[c] = NoClass => c \in ToSet(trees)
  <2>1. ASSUME NEW c \in Planted, parent[c] = NoClass PROVE c \in ToSet(trees)
    <3>1. c \in Classes /\ parent[c] = declared[c]
      BY <1>3, <1>8, <2>1, PlantedLinks
    <3> QED
      BY <1>4, <2>1, <3>1
  <2> QED
    BY <2>1
<1>12. StackIsNext(u)'
  BY <1>2, <1>4, <1>5, <1>7, <1>9, <1>10, <1>11 DEF StackIsNext, Ready, HasMade
<1>13. MadeInOrder(u)' /\ (ToSet(made[u]) \subseteq Planted)'
  BY <1>2, <1>7 DEF MadeInOrder, NoRepeat
<1>14. UserInv(u)'
  BY <1>5, <1>12, <1>13 DEF UserInv
<1>15. Built'
  <2>1. TreesTo(ClassCount)'
    BY <1>2, <1>3 DEF TreesTo, LinksAreDeclared, LinksEnd, ChildrenAreLinked
  <2>2. Building' = {}
    BY <1>3, <1>5 DEF Building
  <2> QED
    BY <2>1, <2>2 DEF Built
<1> QED
  BY <1>1, <1>2, <1>5, <1>6, <1>14, <1>15, OneThread

LEMMA InitClassStep ==
  ASSUME ClassInv, NEW u \in Users, InitClass(u)
  PROVE  ClassInv'
<1>1. ClassTypeOK /\ user[u].at = "init" /\ ~ raced
  BY DEF ClassInv, InitClass
<1>2. UNCHANGED <<declared, parent, root, children, trees, raced>>
  BY DEF InitClass
<1>3. TreesTo(ClassCount) /\ Building = {}
  BY <1>1, ClassPhase DEF Built
<1>4. StackIsNext(u) /\ MadeInOrder(u) /\ ToSet(made[u]) \subseteq Planted
  BY <1>1 DEF ClassInv
<1>5. StackIsNext(u)' /\ MadeInOrder(u)' /\ (ToSet(made[u]) \subseteq Planted)'
  BY <1>1, <1>3, <1>4, InitClassKeepsOrder
<1>6. /\ user'[u].at = "init" /\ \A v \in Users \ {u} : user'[v] = user[v]
      /\ user' \in [Users -> [at : {"idle", "reset", "build", "push", "init", "done"},
                              next : 0 .. ClassCount + 1, stack : Seq(Classes)]]
  <2>1. Front(user[u].stack) \o children[Last(user[u].stack)] \in Seq(Classes)
    BY <1>1, <1>5 DEF StackIsNext, InitClass, ClassTypeOK
  <2> QED
    BY <1>1, <2>1 DEF InitClass, ClassTypeOK
<1>7. made' \in [Users -> Seq(Classes)] /\ \A v \in Users \ {u} : made'[v] = made[v]
  <2>1. Last(user[u].stack) \in Classes
    BY <1>4, LastAndFront DEF StackIsNext, InitClass
  <2> QED
    BY <1>1, <2>1 DEF InitClass, ClassTypeOK
<1>8. ClassTypeOK'
  BY <1>1, <1>2, <1>6, <1>7 DEF ClassTypeOK
<1>9. UserInv(u)'
  BY <1>5, <1>6 DEF UserInv
<1>10. Built'
  <2>1. TreesTo(ClassCount)'
    BY <1>2, <1>3 DEF TreesTo, LinksAreDeclared, LinksEnd, ChildrenAreLinked
  <2>2. Building' = {}
    BY <1>3, <1>6 DEF Building
  <2> QED
    BY <2>1, <2>2 DEF Built
<1> QED
  BY <1>1, <1>2, <1>6, <1>7, <1>8, <1>9, <1>10, OneThread

LEMMA ClassesInitialisedStep ==
  ASSUME ClassInv, NEW u \in Users, ClassesInitialised(u)
  PROVE  ClassInv'
<1>1. ClassTypeOK /\ user[u].at = "init" /\ user[u].stack = << >> /\ ~ raced
  BY DEF ClassInv, ClassesInitialised
<1>2. UNCHANGED <<declared, parent, root, children, trees, made, raced>>
  BY DEF ClassesInitialised
<1>3. TreesTo(ClassCount) /\ Building = {}
  BY <1>1, ClassPhase DEF Built
<1>4. StackIsNext(u) /\ MadeInOrder(u) /\ ToSet(made[u]) \subseteq Planted
  BY <1>1 DEF ClassInv
<1>5. /\ user'[u].at = "done" /\ \A v \in Users \ {u} : user'[v] = user[v]
      /\ user' \in [Users -> [at : {"idle", "reset", "build", "push", "init", "done"},
                              next : 0 .. ClassCount + 1, stack : Seq(Classes)]]
  BY <1>1 DEF ClassesInitialised, ClassTypeOK
<1>6. ClassTypeOK'
  BY <1>1, <1>2, <1>5 DEF ClassTypeOK
<1>7. Complete(u)'
  <2>1. Complete(u)
    BY <1>1, <1>3, <1>4, AllIsMade
  <2>2. \A a : BaseClasses(a)' = BaseClasses(a)
    BY <1>2 DEF BaseClasses, Met
  <2>3. {c \in Classes : Rooted(c)}' = {c \in Classes : Rooted(c)}
    BY <1>2, <2>2 DEF Rooted
  <2> QED
    BY <1>2, <2>1, <2>3 DEF Complete, MadeInOrder
<1>8. UserInv(u)'
  BY <1>5, <1>7 DEF UserInv
<1>9. Built'
  <2>1. TreesTo(ClassCount)'
    BY <1>2, <1>3 DEF TreesTo, LinksAreDeclared, LinksEnd, ChildrenAreLinked
  <2>2. Building' = {}
    BY <1>3, <1>5 DEF Building
  <2> QED
    BY <2>1, <2>2 DEF Built
<1> QED
  BY <1>1, <1>2, <1>5, <1>6, <1>8, <1>9, OneThread

LEMMA ContextEndsStep ==
  ASSUME ClassInv, NEW u \in Users, ContextEnds(u)
  PROVE  ClassInv'
<1>1. ClassTypeOK /\ user[u].at = "done"
  BY DEF ClassInv, ContextEnds
<1>2. UNCHANGED <<declared, parent, root, children, trees, made, raced>>
  BY DEF ContextEnds
<1>3. /\ user'[u].at = "idle" /\ \A v \in Users \ {u} : user'[v] = user[v]
      /\ user' \in [Users -> [at : {"idle", "reset", "build", "push", "init", "done"},
                              next : 0 .. ClassCount + 1, stack : Seq(Classes)]]
  BY <1>1 DEF ContextEnds, ClassTypeOK
<1>4. ClassTypeOK'
  BY <1>1, <1>2, <1>3 DEF ClassTypeOK
<1>5. UserInv(u)'
  BY <1>3 DEF UserInv
<1>6. ASSUME ~ raced' PROVE Built'
  <2>1. TreesTo(ClassCount) /\ Building = {}
    BY <1>1, <1>2, <1>6, ClassPhase DEF Built
  <2>2. TreesTo(ClassCount)'
    BY <1>2, <2>1 DEF TreesTo, LinksAreDeclared, LinksEnd, ChildrenAreLinked
  <2>3. Building' = {}
    BY <1>3, <2>1 DEF Building
  <2> QED
    BY <2>2, <2>3 DEF Built
<1> QED
  BY <1>1, <1>2, <1>3, <1>4, <1>5, <1>6, OneThread

LEMMA ClassStep == ClassInv /\ [ClassNext]_classVars => ClassInv'
<1> SUFFICES ASSUME ClassInv, [ClassNext]_classVars PROVE ClassInv'
  OBVIOUS
<1>1. CASE UNCHANGED classVars
  <2>1. \A a : BaseClasses(a)' = BaseClasses(a)
    BY <1>1 DEF BaseClasses, Met, classVars
  <2>2. {c \in Classes : Rooted(c)}' = {c \in Classes : Rooted(c)}
    BY <1>1, <2>1 DEF Rooted, classVars
  <2>3. /\ ClassTypeOK' = ClassTypeOK /\ NotBuilt' = NotBuilt /\ HalfBuilt' = HalfBuilt
        /\ Built' = Built /\ Planted' = Planted
    BY <1>1 DEF classVars, ClassTypeOK, NotBuilt, HalfBuilt, Built, Building, Planted, TreesTo,
                LinksAreDeclared, LinksEnd, ChildrenAreLinked
  <2>4. \A u \in Users : /\ Complete(u)' = Complete(u) /\ MadeInOrder(u)' = MadeInOrder(u)
                         /\ StackIsNext(u)' = StackIsNext(u)
    BY <1>1, <2>2, <2>3 DEF classVars, Complete, MadeInOrder, StackIsNext, Ready, HasMade
  <2> QED
    BY <1>1, <2>3, <2>4 DEF ClassInv, classVars
<1>2. ASSUME NEW u \in Users, InitClasses(u) PROVE ClassInv'
  BY <1>2, InitClassesStep
<1>3. ASSUME NEW u \in Users, ResetRoots(u) PROVE ClassInv'
  BY <1>3, ResetRootsStep
<1>4. ASSUME NEW u \in Users, BuildTree(u) PROVE ClassInv'
  BY <1>4, BuildTreeStep
<1>5. ASSUME NEW u \in Users, PushTrees(u) PROVE ClassInv'
  BY <1>5, PushTreesStep
<1>6. ASSUME NEW u \in Users, InitClass(u) PROVE ClassInv'
  BY <1>6, InitClassStep
<1>7. ASSUME NEW u \in Users, ClassesInitialised(u) PROVE ClassInv'
  BY <1>7, ClassesInitialisedStep
<1>8. ASSUME NEW u \in Users, ContextEnds(u) PROVE ClassInv'
  BY <1>8, ContextEndsStep
<1> QED
  BY <1>1, <1>2, <1>3, <1>4, <1>5, <1>6, <1>7, <1>8 DEF ClassNext

(* Threads that make the classes of their contexts one after another, or at the  *)
(* same time once the trees are built, work with trees of the declared links.    *)
THEOREM ClassInvariance == ClassSpec => []ClassInv
<1>1. ClassInit => ClassInv
  BY ClassInvInit
<1>2. ClassInv /\ [ClassNext]_classVars => ClassInv'
  BY ClassStep
<1> QED
  BY <1>1, <1>2, PTL DEF ClassSpec

(* For any number of classes and threads and any declared parents: a context gets *)
(* each class with a complete line of ancestors once and after its parent, and    *)
(* pointers convert as the registrations say (ClassManager::initClasses, inherits).*)
THEOREM ClassesAreAsRegistered == ClassSpec => []ClassesAsRegistered
<1>1. ClassInv => ClassesAsRegistered
  <2> SUFFICES ASSUME ClassInv PROVE ClassesAsRegistered
    OBVIOUS
  <2>1. /\ declared \in [Classes -> Classes \cup {NoClass, Missing}]
        /\ made \in [Users -> Seq(Classes)]
    BY DEF ClassInv, ClassTypeOK
  <2>2. ContextIsComplete
    <3>1. ASSUME NEW u \in Users, user[u].at = "done"
          PROVE  /\ ToSet(made[u]) = {c \in Classes : Rooted(c)}
                 /\ Len(made[u]) = Cardinality(ToSet(made[u]))
                 /\ \A k \in DOMAIN made[u] : declared[made[u][k]] # NoClass =>
                      \E j \in 1 .. k - 1 : made[u][j] = declared[made[u][k]]
      <4>1. Complete(u)
        BY <3>1 DEF ClassInv
      <4>2. DOMAIN made[u] = 1 .. Len(made[u])
        BY <2>1, <3>1
      <4>3. Len(made[u]) = Cardinality(ToSet(made[u]))
        BY <2>1, <3>1, <4>1, NoRepeatCounts DEF Complete, MadeInOrder
      <4> QED
        BY <4>1, <4>2, <4>3 DEF Complete, MadeInOrder
    <3> QED
      BY <3>1 DEF ContextIsComplete
  <2>3. InheritsAsRegistered
    <3>1. ASSUME ~ raced, NEW u \in Users, user[u].at = "done" PROVE TreesTo(ClassCount)
      BY <3>1, ClassPhase DEF Built
    <3> QED
      BY <2>1, <3>1, BuiltInherits DEF InheritsAsRegistered
  <2> QED
    BY <2>2, <2>3 DEF ClassesAsRegistered
<1> QED
  BY <1>1, ClassInvariance, PTL
--------------------------------------------------------------------------------
(* A profile that was made from what a call asked for.                         *)
Made(profile, wish) ==
  \E p \in Profiles, wraps \in BOOLEAN :
    wish = <<p>> /\ Valid(p) /\ profile = <<ProfileOf(p, wraps)>>

(* The memory holds the whole of the profile that is being asked for once it is *)
(* written, and the mouse uses one that a call made and wrote.                  *)
ProfileInv ==
  /\ stage \in {"idle", "throws", "built", "written"}
  /\ stage = "built" => Made(built, asking)
  /\ stage = "written" => Made(memory, asking)
  /\ loadedAs # << >> => Made(inUse, loadedAs)

(* A button that was made is as asked, but for bits that do not fit.           *)
LEMMA ButtonsAsAsked ==
  ASSUME NEW props, NEW wraps \in BOOLEAN
  PROVE  ButtonAsAsked(ButtonOf(props, wraps), props)
<1> DEFINE button == ButtonOf(props, wraps)
           key == Code(props, "key") % 256
           mods == BitField(Given(props, "modifiers"), 8, wraps)
           isKey == key # 0 \/ InRange(Given(props, "modifiers"), 8) # {}
<1>1. \A values, width : BitField(values, width, wraps) = InRange(values, width) \/ TooBig(values)
  BY DEF BitField, InRange, TooBig
<1>2. CASE key # 0 \/ mods # {}
  <2>1. button = [type |-> "key", bits |-> mods, code |-> key]
    BY <1>2 DEF ButtonOf
  <2>2. isKey \/ TooBig(Given(props, "modifiers"))
    BY <1>1, <1>2
  <2> QED
    BY <1>1, <2>1, <2>2 DEF ButtonAsAsked
<1>3. CASE ~ (key # 0 \/ mods # {})
  <2>1. ~ isKey
    BY <1>3 DEF BitField, InRange
  <2>2. CASE "special" \in DOMAIN props
    <3>1. button = [type |-> "special", bits |-> {}, code |-> Code(props, "special")]
      BY <1>3, <2>2 DEF ButtonOf
    <3> QED
      BY <2>1, <2>2, <3>1 DEF ButtonAsAsked
  <2>3. CASE "special" \notin DOMAIN props /\ "mouse-buttons" \in DOMAIN props
    <3>1. button = [type |-> "mouse-buttons", code |-> 0,
                    bits |-> BitField(props["mouse-buttons"][2], 16, wraps)]
      BY <1>3, <2>3 DEF ButtonOf
    <3> QED
      BY <1>1, <2>1, <2>3, <3>1 DEF ButtonAsAsked
  <2>4. CASE /\ "special" \notin DOMAIN props /\ "mouse-buttons" \notin DOMAIN props
             /\ "consumer-control" \in DOMAIN props
    <3>1. button = [type |-> "consumer-control", bits |-> {},
                    code |-> Code(props, "consumer-control")]
      BY <1>3, <2>4 DEF ButtonOf
    <3> QED
      BY <2>1, <2>4, <3>1 DEF ButtonAsAsked
  <2>5. CASE {"special", "mouse-buttons", "consumer-control"} \cap DOMAIN props = {}
    <3>1. button = [type |-> "disabled", bits |-> {}, code |-> 0]
      BY <1>3, <2>5 DEF ButtonOf, Disabled
    <3> QED
      BY <2>1, <2>5, <3>1 DEF ButtonAsAsked
  <2> QED
    BY <2>2, <2>3, <2>4, <2>5
<1> QED
  BY <1>2, <1>3

(* A call that loads, fails at any point or ends changes the profile in use only *)
(* for a whole one.                                                          *)
LEMMA ProfileStep == ASSUME ProfileInv, [ProfileNext]_profileVars PROVE ProfileInv'
<1>1. ASSUME NEW p \in Profiles, LoadTemporaryProfile(p) PROVE ProfileInv'
  <2>1. CASE Valid(p)
    <3>1. PICK wraps \in BOOLEAN : built' = <<ProfileOf(p, wraps)>>
      BY <1>1, <2>1 DEF LoadTemporaryProfile
    <3>2. Made(built', asking')
      BY <1>1, <2>1, <3>1 DEF LoadTemporaryProfile, Made
    <3> QED
      BY <1>1, <2>1, <3>2 DEF LoadTemporaryProfile, ProfileInv, Made
  <2>2. CASE ~ Valid(p)
    BY <1>1, <2>2 DEF LoadTemporaryProfile, ProfileInv, Made
  <2> QED
    BY <2>1, <2>2
<1>2. CASE WriteProfile
  BY <1>2 DEF WriteProfile, ProfileInv, Made
<1>3. CASE ProfileFails
  BY <1>3 DEF ProfileFails, ProfileInv, Made
<1>4. CASE LoadProfile
  BY <1>4 DEF LoadProfile, ProfileInv, Made
<1>5. CASE UNCHANGED profileVars
  BY <1>5 DEF profileVars, ProfileInv, Made
<1> QED
  BY <1>1, <1>2, <1>3, <1>4, <1>5 DEF ProfileNext

(* The profile in use is always a whole one that one call asked for, whatever    *)
(* fails while the next is built, written or loaded.                            *)
THEOREM ProfileInvariance == ProfileSpec => []ProfileInv
<1>1. ProfileInit => ProfileInv
  BY DEF ProfileInit, ProfileInv
<1> QED
  BY <1>1, ProfileStep, PTL DEF ProfileSpec

(* For every description of settings, modes and buttons, each setting, mode and  *)
(* button of the profile in use is as the script asked.                         *)
THEOREM ProfileIsAsAsked == ProfileSpec => []ProfileAsAsked
<1>1. ASSUME ProfileInv, loadedAs # << >> PROVE ProfileAsAsked
  <2>1. PICK p \in Profiles, wraps \in BOOLEAN :
          loadedAs = <<p>> /\ inUse = <<ProfileOf(p, wraps)>>
    BY <1>1 DEF ProfileInv, Made
  <2> DEFINE used == ProfileOf(p, wraps)
             Same(asked, desc, got) ==
               /\ DOMAIN got = Known(asked, desc)
               /\ \A n \in DOMAIN got :
                    \/ got[n] = asked[n][2]
                    \/ desc[n] = "Boolean" /\ asked[n][2] # 0 /\ got[n] = 1
  <2>2. \A asked, desc : Same(asked, desc, Converted(asked, desc))
    BY DEF Converted, SettingConvert
  <2>3. /\ used.settings = Converted(p.settings, GeneralSettings)
        /\ used.buttons = [k \in DOMAIN p.buttons |-> ButtonOf(p.buttons[k], wraps)]
        /\ used.modes = [k \in DOMAIN p.modes |-> Converted(p.modes[k], ModeSettings)]
    BY DEF ProfileOf
  <2>4. \A k \in DOMAIN p.buttons : ButtonAsAsked(used.buttons[k], p.buttons[k])
    BY <2>3, ButtonsAsAsked
  <2>5. Same(p.settings, GeneralSettings, used.settings)
    BY <2>2, <2>3
  <2>6. \A k \in DOMAIN p.modes : Same(p.modes[k], ModeSettings, used.modes[k])
    BY <2>2, <2>3
  <2>7. DOMAIN used.modes = DOMAIN p.modes /\ DOMAIN used.buttons = DOMAIN p.buttons
    BY <2>3
  <2>8. loadedAs[1] = p /\ inUse[1] = used /\ inUse # << >>
    BY <2>1
  <2> QED
    BY <2>4, <2>5, <2>6, <2>7, <2>8 DEF ProfileAsAsked
<1>2. ProfileInv => ProfileAsAsked
  BY <1>1 DEF ProfileAsAsked
<1> QED
  BY <1>2, ProfileInvariance, PTL
================================================================================
