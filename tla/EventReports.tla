------------------------------ MODULE EventReports ------------------------------
(***************************************************************************)
(* EventDevice::readEvents: events of a kernel input device are told as they *)
(* are read. The kernel's buffer for a reader is small: when the reader is    *)
(* late, for instance in a script's handler, events are dropped, and         *)
(* libevdev tells instead what changed meanwhile.                           *)
(***************************************************************************)
EXTENDS Naturals, Sequences

CONSTANTS
  EvCodes,      \* keys and axes
  EvValues,
  BufferSize    \* of the kernel, in events

ASSUME EventReportsAssumption == BufferSize \in Nat \ {0}

VARIABLES
  hardware,     \* the device's state
  buffer,       \* the kernel's queue of events
  evState,      \* libevdev's copy, which getSimpleEvent reads
  resync,       \* codes libevdev will return from LIBEVDEV_READ_FLAG_SYNC
  heardEvents   \* what the events told the script

evVars == <<hardware, buffer, evState, resync, heardEvents>>

EvEvent(c, v) == [code |-> c, value |-> v]
SynDropped == [code |-> "SYN_DROPPED", value |-> 0]

EvInit ==
  /\ hardware \in [EvCodes -> EvValues]
  /\ buffer = <<>>
  /\ evState = hardware
  /\ resync = {}
  /\ heardEvents = hardware
--------------------------------------------------------------------------------
(* The kernel: evdev clears a full buffer and leaves a mark.                 *)
HardwareChanges(c, v) ==
  /\ v # hardware[c]
  /\ hardware' = [hardware EXCEPT ![c] = v]
  /\ buffer' = IF Len(buffer) < BufferSize THEN Append(buffer, EvEvent(c, v))
               ELSE <<SynDropped, EvEvent(c, v)>>
  /\ UNCHANGED <<evState, resync, heardEvents>>

(* libevdev returns LIBEVDEV_READ_STATUS_SUCCESS.                            *)
ReadNormalEvent ==
  /\ resync = {} /\ buffer # <<>> /\ Head(buffer) # SynDropped
  /\ buffer' = Tail(buffer)
  /\ LET e == Head(buffer)
     IN  /\ evState' = [evState EXCEPT ![e.code] = e.value]
         /\ heardEvents' = [heardEvents EXCEPT ![e.code] = e.value]
  /\ UNCHANGED <<hardware, resync>>

(* Plausible mistake: LIBEVDEV_READ_STATUS_SYNC is taken for success, reading  *)
(* goes on without the flag, and libevdev forgets the differences.           *)
ReadDropped_ReadsOn ==
  /\ resync = {} /\ buffer # <<>> /\ Head(buffer) = SynDropped
  /\ buffer' = <<>>
  /\ evState' = hardware
  /\ UNCHANGED <<hardware, resync, heardEvents>>

(* LIBEVDEV_READ_STATUS_SYNC: libevdev has asked the kernel for the state.    *)
ReadDropped ==
  /\ resync = {} /\ buffer # <<>> /\ Head(buffer) = SynDropped
  /\ buffer' = <<>>
  /\ evState' = hardware
  /\ resync' = {c \in EvCodes : evState[c] # hardware[c]}
  /\ UNCHANGED <<hardware, heardEvents>>

(* A turn of the loop with LIBEVDEV_READ_FLAG_SYNC.                          *)
ReadSyncEvent(c) ==
  /\ c \in resync
  /\ resync' = resync \ {c}
  /\ heardEvents' = [heardEvents EXCEPT ![c] = evState[c]]
  /\ UNCHANGED <<hardware, buffer, evState>>

EvNext ==
  \/ \E c \in EvCodes, v \in EvValues : HardwareChanges(c, v)
  \/ ReadNormalEvent \/ ReadDropped
  \/ \E c \in EvCodes : ReadSyncEvent(c)

EvSpec == EvInit /\ [][EvNext]_evVars
--------------------------------------------------------------------------------
(* Though events are dropped, a script that applies those it gets knows the   *)
(* device's state when the reader has nothing left to read.                  *)
NothingMissed == buffer = <<>> /\ resync = {} => heardEvents = hardware

(* The events of a kernel device are told as InputDevice promises.           *)
EvDevice == INSTANCE InputDevice WITH
  Inputs  <- EvCodes,
  Values  <- EvValues,
  value   <- evState,
  told    <- heardEvents,
  pending <- resync
EvToldSpec == EvDevice!DeviceSpec
================================================================================
