------------------------------ MODULE WiimoteEvents ------------------------------
(***************************************************************************)
(* WiimoteDevice: what the reader thread tells a script of the infrared      *)
(* camera, of buttons and of the extensions that are plugged into the        *)
(* remote. libxwiimote queues its events; scripts open and close interfaces. *)
(***************************************************************************)
EXTENDS Integers, FiniteSets

CONSTANTS
  Dots,         \* number of light sources the camera tracks
  Positions,    \* where it sees one
  Interfaces,   \* core, infrared, extensions
  WiiKeys,
  Infrared,     \* the camera's interface
  Lost,         \* not seen
  MaxWatches    \* bound: hotplug events that wait to be read

ASSUME WiimoteAssumption ==
  /\ Dots \in Nat
  /\ Infrared \in Interfaces
  /\ Lost \notin Positions
  /\ WiiKeys \cap 1 .. Dots = {}
  /\ MaxWatches \in Nat

VARIABLES
  seen,         \* the last report of the camera, by source
  tracking,     \* _tracking
  at,           \* the source the reader has come to; 0: not reading a report
  keys,         \* the buttons that are down
  plugged,      \* xwii_iface_available
  available,    \* _available
  opened,       \* _opened, and xwii_iface_opened
  watches,      \* hotplug events in libxwiimote's queue
  gone,         \* the reader has ended
  heardSeen, heardKeys,  \* what the events told the script
  heardPlugged           \* the interfaces, by adding up what changed

wiiVars == <<seen, tracking, at, keys, plugged, available, opened, watches, gone,
             heardSeen, heardKeys, heardPlugged>>

(* _tracking is not initialized by the constructor.                          *)
WiiInit ==
  /\ seen = [i \in 1 .. Dots |-> Lost]
  /\ tracking \in [1 .. Dots -> BOOLEAN]
  /\ at = 0
  /\ keys = {}
  /\ plugged \in SUBSET Interfaces
  /\ available = plugged
  /\ opened = {}
  /\ watches = 0
  /\ gone = FALSE
  /\ heardSeen = seen
  /\ heardKeys = keys
  /\ heardPlugged = available

WiiIdle == at = 0 /\ ~ gone
--------------------------------------------------------------------------------
(* XWII_EVENT_IR comes while the camera's interface is open.                 *)
ReadInfrared(new) ==
  /\ WiiIdle /\ Infrared \in opened
  /\ seen' = new
  /\ at' = IF Dots = 0 THEN 0 ELSE 1
  /\ UNCHANGED <<tracking, keys, plugged, available, opened, watches, gone,
                 heardSeen, heardKeys, heardPlugged>>

(* Plausible mistake: a source that is lost is told once all are lost.        *)
TellSource_AllLost ==
  /\ at # 0
  /\ tracking' = [tracking EXCEPT ![at] = seen[at] # Lost]
  /\ heardSeen' = IF seen[at] # Lost \/ \A i \in 1 .. Dots : seen[i] = Lost
                  THEN [heardSeen EXCEPT ![at] = seen[at]] ELSE heardSeen
  /\ at' = IF at = Dots THEN 0 ELSE at + 1
  /\ UNCHANGED <<seen, keys, plugged, available, opened, watches, gone, heardKeys, heardPlugged>>

(* One turn of the loop over the sources; a script's handler may run.         *)
TellSource ==
  /\ at # 0
  /\ tracking' = [tracking EXCEPT ![at] = seen[at] # Lost]
  /\ heardSeen' = IF seen[at] # Lost \/ tracking[at]
                  THEN [heardSeen EXCEPT ![at] = seen[at]] ELSE heardSeen
  /\ at' = IF at = Dots THEN 0 ELSE at + 1
  /\ UNCHANGED <<seen, keys, plugged, available, opened, watches, gone, heardKeys, heardPlugged>>

(* XWII_EVENT_KEY: the state is the event's, 0 for up.                       *)
ReadKey(k) ==
  /\ WiiIdle
  /\ keys' = IF k \in keys THEN keys \ {k} ELSE keys \cup {k}
  /\ heardKeys' = IF k \in keys' THEN heardKeys \cup {k} ELSE heardKeys \ {k}
  /\ UNCHANGED <<seen, tracking, at, plugged, available, opened, watches, gone,
                 heardSeen, heardPlugged>>

(* An extension is plugged in or out; one that is gone is closed.             *)
HotPlug(new) ==
  /\ new # plugged /\ ~ gone /\ watches < MaxWatches
  /\ plugged' = new
  /\ opened' = opened \cap new
  /\ watches' = watches + 1
  /\ UNCHANGED <<seen, tracking, at, keys, available, gone, heardSeen, heardKeys, heardPlugged>>

(* XWII_EVENT_WATCH: the event tells what there is now, and what has changed  *)
(* since the last one.                                                      *)
ReadWatch ==
  /\ WiiIdle /\ watches > 0
  /\ available' = plugged
  /\ LET changed == (available \cup plugged) \ (available \cap plugged)
     IN  heardPlugged' = (heardPlugged \cup changed) \ (heardPlugged \cap changed)
  /\ watches' = watches - 1
  /\ UNCHANGED <<seen, tracking, at, keys, plugged, opened, gone, heardSeen, heardKeys>>

(* XWII_EVENT_GONE, or an error of libxwiimote.                              *)
RemoteGone ==
  /\ WiiIdle
  /\ gone' = TRUE
  /\ UNCHANGED <<seen, tracking, at, keys, plugged, available, opened, watches,
                 heardSeen, heardKeys, heardPlugged>>

(* Plausible mistake: open knows what there is, and stores it.               *)
OpenInterfaces_Stores(ifaces) ==
  /\ opened' = opened \cup (ifaces \cap plugged)
  /\ available' = plugged
  /\ UNCHANGED <<seen, tracking, at, keys, plugged, watches, gone,
                 heardSeen, heardKeys, heardPlugged>>

(* WiimoteDevice::open, by a script: it throws when not all could be opened,  *)
(* after _opened was updated.                                               *)
OpenInterfaces(ifaces) ==
  /\ opened' = opened \cup (ifaces \cap plugged)
  /\ UNCHANGED <<seen, tracking, at, keys, plugged, available, watches, gone,
                 heardSeen, heardKeys, heardPlugged>>

CloseInterfaces(ifaces) ==
  /\ opened' = opened \ ifaces
  /\ UNCHANGED <<seen, tracking, at, keys, plugged, available, watches, gone,
                 heardSeen, heardKeys, heardPlugged>>

WiiNext ==
  \/ \E new \in [1 .. Dots -> Positions \cup {Lost}] : ReadInfrared(new)
  \/ TellSource
  \/ \E k \in WiiKeys : ReadKey(k)
  \/ \E s \in SUBSET Interfaces : HotPlug(s) \/ OpenInterfaces(s) \/ CloseInterfaces(s)
  \/ ReadWatch
  \/ RemoteGone

WiiSpec == WiiInit /\ [][WiiNext]_wiiVars
--------------------------------------------------------------------------------
(* Types; what a script knows to be seen is what the reader tracks.           *)
WiiTypeOK ==
  /\ {seen, heardSeen} \subseteq [1 .. Dots -> Positions \cup {Lost}]
  /\ tracking \in [1 .. Dots -> BOOLEAN]
  /\ at \in 0 .. Dots
  /\ {keys, heardKeys} \subseteq SUBSET WiiKeys
  /\ {plugged, available, opened, heardPlugged} \subseteq SUBSET Interfaces
  /\ watches \in 0 .. MaxWatches
  /\ gone \in BOOLEAN
  /\ \A i \in 1 .. Dots : heardSeen[i] # Lost => tracking[i]

(* However the reader is delayed and whatever is plugged meanwhile: a script   *)
(* that adds up the changes of the events knows what is plugged in when the   *)
(* queue is empty, for the first of several events tells of all of them and   *)
(* the others of no change.                                                 *)
ChangesAddUp == watches = 0 => heardPlugged = plugged

(* Light sources and buttons are told as InputDevice promises.               *)
WiiThings == (1 .. Dots) \cup WiiKeys
SeenOr(s, k, i) == IF i \notin WiiKeys THEN s[i] ELSE IF i \in k THEN 1 ELSE 0

WiiToldDevice == INSTANCE InputDevice WITH
  Inputs  <- WiiThings,
  Values  <- Positions \cup {Lost, 0, 1},
  value   <- [i \in WiiThings |-> SeenOr(seen, keys, i)],
  told    <- [i \in WiiThings |-> SeenOr(heardSeen, heardKeys, i)],
  pending <- IF at = 0 THEN {} ELSE at .. Dots
WiiToldSpec == WiiToldDevice!DeviceSpec
================================================================================
