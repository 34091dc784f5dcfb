------------------------------ MODULE UdevDevices ------------------------------
(***************************************************************************)
(* From the kernel to scripts: the udev monitor thread, the event and Wii   *)
(* remote drivers it calls, the script manager, and main, which serves DBus *)
(* and shuts everything down. Scripts are stopped as ScriptThread describes; *)
(* here Thread::stop returns.                                              *)
(***************************************************************************)
EXTENDS Naturals, Sequences, FiniteSets

CONSTANTS
  Paths,      \* syspaths of tagged devices
  Late,       \* the Wii remotes whose type is unknown when they are added
  MaxPlugs,   \* bound: how often a device is plugged in
  MaxObjects  \* bound: how many device objects are created

ASSUME UdevDevicesAssumption ==
  /\ Late \subseteq Paths
  /\ {MaxPlugs, MaxObjects} \subseteq Nat

VARIABLES
  present,    \* plugged devices
  typed,      \* plugged devices whose type the kernel knows
  uevents,    \* what the udev monitor has received and nobody has read
  plugs,
  udev,       \* where the udev thread is
  state,      \* Udev::_state
  byte,       \* something to read in Udev::_pipe
  found,      \* the enumerated devices that are still to be added
  path,       \* the device the udev thread is handling
  object,     \* the device object it is handling
  devices,    \* the drivers' _devices: an object per path, 0 for none
  made,       \* the path of each device object that was created
  allocated,  \* the device objects that exist
  scripts,    \* ScriptManager::_scripts, by device object
  running,    \* the objects on which a script's thread runs
  orphans,    \* history: objects whose script was erased in the middle of a set-file
  main,       \* where main is
  restarting  \* the device object whose script a set-file restarts, or 0

kernelVars == <<present, typed, uevents, plugs>>
scriptVars == <<scripts, running, orphans>>
tableVars  == <<devices, made, allocated, scriptVars>>
mainVars   == <<main, restarting>>
workVars   == <<found, path, object>>
vars == <<kernelVars, udev, state, byte, workVars, tableVars, mainVars>>

Objects == 1 .. MaxObjects

UdevStates ==
  {"created", "enable", "scan", "next", "select", "change", "open", "register",
   "start", "find", "unload", "erase", "delete", "ended", "terminated"}

MainStates == {"dispatch", "interrupt", "write", "join", "manager", "statics", "ended"}

Uevent == [action : {"add", "change", "remove"}, path : Paths]

Init ==
  /\ present \in SUBSET Paths
  /\ typed \in {S \in SUBSET present : present \ Late \subseteq S}
  /\ uevents = <<>>
  /\ plugs = 0
  /\ udev = "created"
  /\ state = "Stopped"
  /\ byte = FALSE
  /\ found = {}
  /\ path \in Paths
  /\ object = 0
  /\ devices = [p \in Paths |-> 0]
  /\ made = <<>>
  /\ allocated = {}
  /\ scripts = {} /\ running = {} /\ orphans = {}
  /\ main = "dispatch"
  /\ restarting = 0

(* An exception nobody catches ends the process. *)
Alive == udev # "terminated"
--------------------------------------------------------------------------------
(* Plausible mistakes, each a wrong version of the action named before the  *)
(* underscore; PROJECT.json lists which property notices each of them.      *)

(* removeDevice deletes the device before its script is stopped. *)
FindDevice_DeletesFirst ==
  /\ udev = "find"
  /\ object' = devices[path]
  /\ IF devices[path] = 0
       THEN udev' = "next" /\ UNCHANGED allocated
       ELSE udev' = "unload" /\ allocated' = allocated \ {devices[path]}
  /\ UNCHANGED <<kernelVars, state, byte, found, path, devices, made, scriptVars, mainVars>>

(* removeDevice leaves the deleted object in _devices. *)
DeleteDevice_KeepsEntry ==
  /\ udev = "delete"
  /\ allocated' = allocated \ {object}
  /\ udev' = "next"
  /\ UNCHANGED <<kernelVars, state, byte, workVars, devices, made, scriptVars, mainVars>>

(* WiimoteDriver does not override changeDevice. *)
ChangeDevice_Ignored ==
  /\ udev = "change"
  /\ udev' = "next"
  /\ UNCHANGED <<kernelVars, state, byte, workVars, tableVars, mainVars>>

(* removeDevice does not tell the manager. *)
StopScript_Untold ==
  /\ udev = "unload"
  /\ udev' = "delete"
  /\ UNCHANGED <<kernelVars, state, byte, workVars, tableVars, mainVars>>

(* interrupt does not write to the pipe. *)
WriteByte_Never ==
  /\ Alive
  /\ main = "write"
  /\ main' = "join"
  /\ UNCHANGED <<kernelVars, udev, state, byte, workVars, tableVars, restarting>>
--------------------------------------------------------------------------------
(* The kernel and udevd; a monitor receives what happens once it is enabled. *)
Announce(a, p) ==
  uevents' = IF udev \in {"created", "enable"} THEN uevents
             ELSE Append(uevents, [action |-> a, path |-> p])

Plug(p) ==
  /\ p \notin present
  /\ plugs < MaxPlugs
  /\ plugs' = plugs + 1
  /\ present' = present \cup {p}
  /\ typed' = typed \cup ({p} \ Late)
  /\ Announce("add", p)
  /\ UNCHANGED <<udev, state, byte, workVars, tableVars, mainVars>>

TypeKnown(p) ==
  /\ p \in present \ typed
  /\ typed' = typed \cup {p}
  /\ Announce("change", p)
  /\ UNCHANGED <<present, plugs, udev, state, byte, workVars, tableVars, mainVars>>

Unplug(p) ==
  /\ p \in present
  /\ present' = present \ {p}
  /\ typed' = typed \ {p}
  /\ Announce("remove", p)
  /\ UNCHANGED <<plugs, udev, state, byte, workVars, tableVars, mainVars>>
--------------------------------------------------------------------------------
(* Udev::exec: start, enable the monitor, then enumerate. *)
StartExec ==
  /\ udev = "created"
  /\ udev' = "enable"
  /\ state' = "Running"
  /\ UNCHANGED <<kernelVars, byte, workVars, tableVars, mainVars>>

EnableMonitor ==
  /\ udev = "enable"
  /\ udev' = "scan"
  /\ UNCHANGED <<kernelVars, state, byte, workVars, tableVars, mainVars>>

ScanDevices ==
  /\ udev = "scan"
  /\ udev' = "next"
  /\ found' = present
  /\ UNCHANGED <<kernelVars, state, byte, path, object, tableVars, mainVars>>

(* A device that is gone has no properties: std::string (nullptr) throws. *)
NextFound(p) ==
  /\ udev = "next"
  /\ p \in found
  /\ found' = found \ {p}
  /\ path' = p
  /\ udev' = IF p \in present THEN "open" ELSE "terminated"
  /\ UNCHANGED <<kernelVars, state, byte, object, tableVars, mainVars>>

TestRunning ==
  /\ udev = "next"
  /\ found = {}
  /\ IF state = "Running"
       THEN udev' = "select" /\ UNCHANGED state
       ELSE udev' = "ended" /\ state' = "Stopped"
  /\ UNCHANGED <<kernelVars, byte, workVars, tableVars, mainVars>>

(* select returned: one device event is handled, and the byte is read. *)
Dispatch ==
  /\ udev = "select"
  /\ uevents # <<>>
  /\ LET e == Head(uevents) IN
       /\ path' = e.path
       /\ udev' = CASE e.action = "add"    -> "open"
                    [] e.action = "change" -> "change"
                    [] e.action = "remove" -> "find"
  /\ uevents' = Tail(uevents)
  /\ byte' = FALSE
  /\ UNCHANGED <<present, typed, plugs, state, found, object, tableVars, mainVars>>

WakeUp ==
  /\ udev = "select"
  /\ uevents = <<>>
  /\ byte
  /\ byte' = FALSE
  /\ udev' = "next"
  /\ UNCHANGED <<kernelVars, state, workVars, tableVars, mainVars>>

(* Driver::changeDevice does nothing; WiimoteDriver's adds unknown devices. *)
ChangeDevice ==
  /\ udev = "change"
  /\ udev' = IF path \in Late /\ devices[path] = 0 THEN "open" ELSE "next"
  /\ UNCHANGED <<kernelVars, state, byte, workVars, tableVars, mainVars>>

(* The device's constructor throws when the device is gone, which nobody     *)
(* catches, or when its type is unknown, which WiimoteDriver catches. map::   *)
(* emplace keeps the old object of a path that has one already.              *)
OpenDevice ==
  /\ udev = "open"
  /\ \/ /\ path \notin present
        /\ udev' = "terminated"
        /\ UNCHANGED <<object, tableVars>>
     \/ /\ path \in present \ typed
        /\ udev' = "next"
        /\ UNCHANGED <<object, tableVars>>
     \/ /\ path \in typed
        /\ Len(made) < MaxObjects
        /\ udev' = "register"
        /\ object' = Len(made) + 1
        /\ made' = Append(made, path)
        /\ allocated' = allocated \cup {object'}
        /\ devices' = IF devices[path] = 0 THEN [devices EXCEPT ![path] = object'] ELSE devices
        /\ UNCHANGED scriptVars
  /\ UNCHANGED <<kernelVars, state, byte, found, path, mainVars>>

(* inputDeviceAdded: ScriptManager::addDevice, under its mutex. From here   *)
(* on DBus clients see the script.                                           *)
RegisterDevice ==
  /\ udev = "register"
  /\ scripts' = scripts \cup {object}
  /\ udev' = "start"
  /\ UNCHANGED <<kernelVars, state, byte, workVars, devices, made, allocated, running, orphans,
                 mainVars>>

(* std::thread's assignment terminates the program when a thread runs.       *)
StartScript ==
  /\ udev = "start"
  /\ running' = running \cup {object}
  /\ udev' = IF object \in running THEN "terminated" ELSE "next"
  /\ UNCHANGED <<kernelVars, state, byte, workVars, devices, made, allocated, scripts, orphans,
                 mainVars>>

(* EventDriver::removeDevice and WiimoteDriver::removeDevice. *)
FindDevice ==
  /\ udev = "find"
  /\ object' = devices[path]
  /\ udev' = IF devices[path] = 0 THEN "next" ELSE "unload"
  /\ UNCHANGED <<kernelVars, state, byte, found, path, tableVars, mainVars>>

(* inputDeviceRemoved: ScriptManager::removeDevice stops it, if it runs,    *)
StopScript ==
  /\ udev = "unload"
  /\ running' = running \ {object}
  /\ udev' = "erase"
  /\ UNCHANGED <<kernelVars, state, byte, workVars, devices, made, allocated, scripts, orphans,
                 mainVars>>

(* and erases it. A thread that a set-file started in between is stopped by  *)
(* ~Thread, or finds its virtual run destroyed.                              *)
EraseScript ==
  /\ udev = "erase"
  /\ scripts' = scripts \ {object}
  /\ running' = running \ {object}
  /\ orphans' = IF restarting = object THEN orphans \cup {object} ELSE orphans
  /\ \/ udev' = "delete"
     \/ object \in running /\ udev' = "terminated"
  /\ UNCHANGED <<kernelVars, state, byte, workVars, devices, made, allocated, mainVars>>

DeleteDevice ==
  /\ udev = "delete"
  /\ allocated' = allocated \ {object}
  /\ devices' = [devices EXCEPT ![path] = 0]
  /\ udev' = "next"
  /\ UNCHANGED <<kernelVars, state, byte, workVars, made, scriptVars, mainVars>>
--------------------------------------------------------------------------------
(* main dispatches DBus calls: set-file stops a script and starts it again,  *)
(* without the manager's mutex.                                              *)
SetFileStop(o) ==
  /\ Alive
  /\ main = "dispatch"
  /\ restarting = 0
  /\ o \in scripts
  /\ restarting' = o
  /\ running' = running \ {o}
  /\ UNCHANGED <<kernelVars, udev, state, byte, workVars, devices, made, allocated, scripts,
                 orphans, main>>

(* The thread is started even if the script was erased meanwhile (Thread::   *)
(* start then works in freed memory, which may hold a thread), and nothing    *)
(* stops such a thread.                                                      *)
SetFileStart ==
  /\ Alive
  /\ restarting # 0
  /\ restarting' = 0
  /\ running' = running \cup {restarting}
  /\ \/ restarting \notin running /\ UNCHANGED udev
     \/ restarting \in running \cup orphans /\ udev' = "terminated"
  /\ UNCHANGED <<kernelVars, state, byte, workVars, devices, made, allocated, scripts, orphans,
                 main>>

(* A signal makes the dispatcher leave, maybe before the udev thread runs. *)
LeaveDispatcher ==
  /\ Alive
  /\ main = "dispatch"
  /\ restarting = 0
  /\ main' = "interrupt"
  /\ UNCHANGED <<kernelVars, udev, state, byte, workVars, tableVars, restarting>>

Interrupt ==
  /\ Alive
  /\ main = "interrupt"
  /\ IF state = "Running"
       THEN state' = "Stopping" /\ main' = "write"
       ELSE UNCHANGED state /\ main' = "join"
  /\ UNCHANGED <<kernelVars, udev, byte, workVars, tableVars, restarting>>

WriteByte ==
  /\ Alive
  /\ main = "write"
  /\ byte' = TRUE
  /\ main' = "join"
  /\ UNCHANGED <<kernelVars, udev, state, workVars, tableVars, restarting>>

JoinUdev ==
  /\ main = "join"
  /\ udev = "ended"
  /\ main' = "manager"
  /\ UNCHANGED <<kernelVars, udev, state, byte, workVars, tableVars, restarting>>

(* ~ScriptManager, then the static drivers' destructors. *)
StopScripts ==
  /\ main = "manager"
  /\ scripts' = {}
  /\ running' = running \ scripts
  /\ main' = "statics"
  /\ UNCHANGED <<kernelVars, udev, state, byte, workVars, devices, made, allocated, orphans,
                 restarting>>

DeleteDevices ==
  /\ main = "statics"
  /\ allocated' = allocated \ {devices[p] : p \in Paths}
  /\ devices' = [p \in Paths |-> 0]
  /\ main' = "ended"
  /\ UNCHANGED <<kernelVars, udev, state, byte, workVars, made, scriptVars, restarting>>
--------------------------------------------------------------------------------
Kernel == \E p \in Paths : Plug(p) \/ TypeKnown(p) \/ Unplug(p)

UdevThread ==
  \/ StartExec \/ EnableMonitor \/ ScanDevices \/ \E p \in Paths : NextFound(p)
  \/ TestRunning \/ Dispatch \/ WakeUp
  \/ ChangeDevice \/ OpenDevice \/ RegisterDevice \/ StartScript
  \/ FindDevice \/ StopScript \/ EraseScript \/ DeleteDevice

Shutdown == Interrupt \/ WriteByte \/ JoinUdev \/ StopScripts \/ DeleteDevices

Main ==
  \/ \E o \in Objects : SetFileStop(o)
  \/ SetFileStart \/ LeaveDispatcher \/ Shutdown

Next == Kernel \/ UdevThread \/ Main

Spec == Init /\ [][Next]_vars

(* The udev thread runs, and main finishes what it has begun; no device has  *)
(* to come or go, and nobody has to call set-file or send a signal.          *)
FairSpec == Spec /\ WF_vars(UdevThread) /\ WF_vars(Shutdown) /\ WF_vars(SetFileStart)
--------------------------------------------------------------------------------
TypeOK ==
  /\ present \in SUBSET Paths
  /\ typed \in SUBSET present
  /\ uevents \in Seq(Uevent)
  /\ plugs \in 0 .. MaxPlugs
  /\ udev \in UdevStates
  /\ state \in {"Stopped", "Running", "Stopping"}
  /\ byte \in BOOLEAN
  /\ found \in SUBSET Paths
  /\ path \in Paths
  /\ object \in 0 .. Len(made)
  /\ udev \in {"register", "start", "unload", "erase", "delete"} => object # 0
  /\ devices \in [Paths -> 0 .. Len(made)]
  /\ made \in Seq(Paths) /\ Len(made) <= MaxObjects
  /\ allocated \in SUBSET (1 .. Len(made))
  /\ {scripts, running, orphans} \subseteq SUBSET (1 .. Len(made))
  /\ main \in MainStates
  /\ restarting \in 0 .. Len(made)

(* The drivers' tables only hold objects that exist, each under its path,    *)
(* and each of them has its script but while it is being added or removed.   *)
InHandler(o) == udev \in {"register", "delete", "terminated"} /\ object = o

DeviceTables ==
  \A p \in Paths : devices[p] # 0 =>
    /\ devices[p] \in allocated
    /\ made[devices[p]] = p
    /\ devices[p] \in scripts \/ InHandler(devices[p]) \/ main \in {"statics", "ended"}

(* A script's device exists as long as the script is loaded, and a script's  *)
(* thread runs only while the script is loaded, so that it never runs without *)
(* its device, but for a script erased between a set-file's stop and start.   *)
ScriptsHaveDevices ==
  /\ scripts \subseteq allocated
  /\ running \ orphans \subseteq scripts

(* Settled: nothing stops the daemon, and the device is not unplugged again. *)
Serving == Alive /\ main = "dispatch"

HasScript(p) == \E o \in scripts : made[o] = p

(* A device that stays plugged gets a script that stays, whether it came     *)
(* before the monitor was enabled, between that and the enumeration, or later, *)
(* and for a Wii remote whether its type was known at first or not.          *)
PluggedGetsScript ==
  \A p \in Paths : <>[](p \in typed /\ Serving) => <>[]HasScript(p)

(* A device that stays unplugged is forgotten by its driver. *)
UnpluggedIsForgotten ==
  \A p \in Paths : <>[](p \notin present /\ Serving) => <>[](devices[p] = 0)

(* Both, however devices come and go.                                        *)
PlugsAreFollowed == PluggedGetsScript /\ UnpluggedIsForgotten

(* Once interrupt has found the monitor running, the daemon ends. *)
InterruptEndsDaemon ==
  main = "write" ~> main = "ended" \/ ~Alive

(* "default_scripts is an array of rules for loading the default script when *)
(* a new device is added" (README, Configuration): once for a device.        *)
OneScriptPerDevice ==
  \A o1, o2 \in scripts : made[o1] = made[o2] => o1 = o2

(* Drivers, manager and set-file implement what DeviceScripts promises of    *)
(* the scripts that run, but for those that a set-file starts when they have  *)
(* been erased.                                                              *)
Promise == INSTANCE DeviceScripts WITH alive <- allocated, loaded <- running \ orphans
PromiseSpec == Promise!Spec
================================================================================
