--------------------------- MODULE UdevDevicesProofs ---------------------------
(***************************************************************************)
(* Proofs about UdevDevices, for any set of devices, any number of plugs    *)
(* and whatever main does meanwhile.                                       *)
(***************************************************************************)
EXTENDS UdevDevices, SequenceTheorems, TLAPS

(* What the udev thread holds in the middle of its handlers. *)
InTheHandlers ==
  /\ udev = "register" => object \in allocated
  /\ udev = "start" => object \in scripts
  /\ udev \in {"unload", "erase", "delete"} => object = devices[path]
  /\ udev = "delete" => object \notin scripts

(* set-file starts the script it stopped, unless it was erased meanwhile. *)
Restart == restarting # 0 => restarting \in scripts \cup orphans

(* main tears down only what no other thread uses, and outside of a set-file. *)
TearDown ==
  /\ main # "dispatch" => restarting = 0
  /\ main \in {"manager", "statics", "ended"} => udev = "ended"
  /\ main \in {"statics", "ended"} => scripts = {}

DeviceInv ==
  /\ TypeOK /\ DeviceTables /\ ScriptsHaveDevices /\ InTheHandlers /\ Restart
  /\ TearDown

USE DEF kernelVars, scriptVars, tableVars, mainVars, workVars

LEMMA DeviceInit == Init => DeviceInv
<1> SUFFICES ASSUME Init PROVE DeviceInv
  OBVIOUS
<1>1. uevents \in Seq(Uevent) /\ made \in Seq(Paths) /\ Len(made) = 0
  BY EmptySeq DEF Init
<1>2. TypeOK
  <2>1. present \in SUBSET Paths /\ typed \in SUBSET present /\ plugs \in 0 .. MaxPlugs
    BY UdevDevicesAssumption DEF Init
  <2>2. devices \in [Paths -> 0 .. Len(made)] /\ Len(made) <= MaxObjects
    BY <1>1, UdevDevicesAssumption DEF Init
  <2>3. QED
    BY <1>1, <2>1, <2>2 DEF Init, TypeOK, UdevStates, MainStates
<1>3. QED
  BY <1>1, <1>2 DEF Init, DeviceInv, DeviceTables, ScriptsHaveDevices, InTheHandlers,
        Restart, TearDown

(* A new object is numbered after the ones there were, which keep theirs. *)
LEMMA NewObject ==
  ASSUME NEW m \in Seq(Paths), NEW p \in Paths
  PROVE  /\ Append(m, p) \in Seq(Paths)
         /\ Len(m) \in Nat
         /\ Len(Append(m, p)) = Len(m) + 1
         /\ \A i \in 1 .. Len(m) : Append(m, p)[i] = m[i]
         /\ Append(m, p)[Len(m) + 1] = p
OBVIOUS

LEMMA KernelNext == DeviceInv /\ Kernel => DeviceInv'
<1> SUFFICES ASSUME DeviceInv, NEW p \in Paths, Plug(p) \/ TypeKnown(p) \/ Unplug(p)
             PROVE  DeviceInv'
  BY DEF Kernel
<1>1. \A a \in {"add", "change", "remove"} : Announce(a, p) => uevents' \in Seq(Uevent)
  <2>1. ASSUME NEW a \in {"add", "change", "remove"}, Announce(a, p) PROVE uevents' \in Seq(Uevent)
    <3>1. [action |-> a, path |-> p] \in Uevent
      BY DEF Uevent
    <3>2. uevents \in Seq(Uevent)
      BY DEF DeviceInv, TypeOK
    <3>3. QED
      BY <2>1, <3>1, <3>2 DEF Announce
  <2>2. QED
    BY <2>1
<1>2. uevents' \in Seq(Uevent)
  BY <1>1 DEF Plug, TypeKnown, Unplug
<1>3. TypeOK'
  <2>1. present' \in SUBSET Paths /\ typed' \in SUBSET present'
    BY DEF Plug, TypeKnown, Unplug, DeviceInv, TypeOK
  <2>2. plugs' \in 0 .. MaxPlugs
    BY UdevDevicesAssumption DEF Plug, TypeKnown, Unplug, DeviceInv, TypeOK
  <2>3. UNCHANGED <<udev, state, byte, workVars, tableVars, mainVars>>
    BY DEF Plug, TypeKnown, Unplug
  <2>4. QED
    BY <1>2, <2>1, <2>2, <2>3 DEF DeviceInv, TypeOK
<1>4. UNCHANGED <<udev, state, byte, workVars, tableVars, mainVars>>
  BY DEF Plug, TypeKnown, Unplug
<1>5. QED
  BY <1>3, <1>4 DEF DeviceInv, DeviceTables, InHandler, ScriptsHaveDevices, InTheHandlers,
        Restart, TearDown

LEMMA UdevThreadNext == DeviceInv /\ UdevThread => DeviceInv'
<1> SUFFICES ASSUME DeviceInv, UdevThread PROVE DeviceInv'
  OBVIOUS
<1> USE UdevDevicesAssumption DEF DeviceInv, TypeOK, UdevStates, DeviceTables, InHandler,
        ScriptsHaveDevices, InTheHandlers, Restart, TearDown
<1>1. CASE StartExec \/ EnableMonitor \/ ScanDevices
  BY <1>1 DEF StartExec, EnableMonitor, ScanDevices
<1>2. CASE \E p \in Paths : NextFound(p)
  BY SMTT(20), <1>2 DEF NextFound
<1>3. CASE TestRunning \/ WakeUp \/ ChangeDevice
  BY <1>3 DEF TestRunning, WakeUp, ChangeDevice
<1>4. CASE Dispatch
  <2>1. Head(uevents) \in Uevent /\ uevents' \in Seq(Uevent)
    BY <1>4, HeadTailProperties DEF Dispatch
  <2>2. path' \in Paths /\ udev' \in {"open", "change", "find"}
    BY <1>4, <2>1 DEF Dispatch, Uevent
  <2>3. QED
    BY <1>4, <2>1, <2>2 DEF Dispatch
<1>5. CASE OpenDevice
  <2>1. CASE path \notin present \/ path \in present \ typed
    BY <1>5, <2>1 DEF OpenDevice
  <2>2. CASE path \in typed
    <3>1. /\ udev = "open" /\ udev' = "register" /\ object' = Len(made) + 1 /\ Len(made) < MaxObjects
          /\ made' = Append(made, path) /\ allocated' = allocated \cup {object'}
          /\ devices' = IF devices[path] = 0 THEN [devices EXCEPT ![path] = object'] ELSE devices
          /\ UNCHANGED <<kernelVars, state, byte, found, path, scriptVars, mainVars>>
      BY <1>5, <2>2 DEF OpenDevice
    <3>2. /\ made' \in Seq(Paths) /\ Len(made) \in Nat /\ Len(made') = Len(made) + 1
          /\ \A i \in 1 .. Len(made) : made'[i] = made[i]
          /\ made'[object'] = path
      BY <3>1, NewObject
    <3>3. TypeOK'
      <4>1. 0 .. Len(made) \subseteq 0 .. Len(made') /\ object' \in 1 .. Len(made')
        BY <3>1, <3>2
      <4>2. devices' \in [Paths -> 0 .. Len(made')]
        BY <3>1, <4>1
      <4>3. /\ allocated' \in SUBSET (1 .. Len(made'))
            /\ {scripts', running', orphans'} \subseteq SUBSET (1 .. Len(made'))
        <5>1. 1 .. Len(made) \subseteq 1 .. Len(made')
          BY <3>2
        <5>2. /\ allocated \subseteq 1 .. Len(made) /\ scripts \subseteq 1 .. Len(made)
              /\ running \subseteq 1 .. Len(made) /\ orphans \subseteq 1 .. Len(made)
          OBVIOUS
        <5>3. QED
          BY <3>1, <4>1, <5>1, <5>2
      <4>4. Len(made') <= MaxObjects
        BY <3>1, <3>2
      <4>5. object' \in 0 .. Len(made') /\ object' # 0 /\ restarting' \in 0 .. Len(made')
        BY <3>1, <3>2, <4>1
      <4>6. udev' \in UdevStates /\ made' \in Seq(Paths)
        BY <3>1, <3>2
      <4>7. UNCHANGED <<kernelVars, state, byte, found, path, main>>
        BY <3>1
      <4>8. QED
        BY <4>2, <4>3, <4>4, <4>5, <4>6, <4>7
    <3>4. ASSUME NEW p \in Paths, devices'[p] # 0
          PROVE  /\ devices'[p] \in allocated' /\ made'[devices'[p]] = p
                 /\ devices'[p] \in scripts' \/ InHandler(devices[p])' \/ main' \in {"statics", "ended"}
      <4>1. CASE devices'[p] = devices[p]
        BY <4>1, <3>1, <3>2, <3>4
      <4>2. CASE devices'[p] # devices[p]
        BY <4>2, <3>1, <3>2
      <4>3. QED
        BY <4>1, <4>2
    <3>5. DeviceTables'
      BY <3>4
    <3>6. QED
      BY SMTT(20), <3>1, <3>2, <3>3, <3>5
  <2>3. QED
    BY <2>1, <2>2
<1>6. CASE RegisterDevice
  BY <1>6 DEF RegisterDevice
<1>7. CASE StartScript \/ FindDevice
  <2>1. CASE StartScript
    <3>1. running' \in SUBSET (1 .. Len(made)) /\ udev' \in {"next", "terminated"}
      BY <2>1 DEF StartScript
    <3>2. UNCHANGED <<kernelVars, state, byte, workVars, devices, made, allocated, scripts, orphans,
                      mainVars>>
      BY <2>1 DEF StartScript
    <3>3. running' \ orphans' \subseteq scripts'
      BY <2>1 DEF StartScript
    <3>4. TypeOK'
      BY <3>1, <3>2
    <3>5. QED
      BY <2>1, <3>1, <3>2, <3>3, <3>4 DEF StartScript
  <2>2. CASE FindDevice
    BY <2>2 DEF FindDevice
  <2>3. QED
    BY <1>7, <2>1, <2>2
<1>8. CASE StopScript \/ EraseScript
  <2>1. CASE StopScript
    BY <2>1 DEF StopScript
  <2>2. CASE EraseScript
    <3>1. /\ UNCHANGED <<kernelVars, state, byte, workVars, devices, made, allocated, mainVars>>
          /\ udev = "erase" /\ udev' \in {"delete", "terminated"}
          /\ scripts' = scripts \ {object} /\ running' = running \ {object}
          /\ orphans' = IF restarting = object THEN orphans \cup {object} ELSE orphans
      BY <2>2 DEF EraseScript
    <3>2. object \in 1 .. Len(made)
      BY <3>1
    <3>3. {scripts', running', orphans'} \subseteq SUBSET (1 .. Len(made))
      BY <3>1, <3>2
    <3>4. TypeOK'
      BY <3>1, <3>3
    <3>5. running' \ orphans' \subseteq scripts' /\ Restart'
      BY <3>1
    <3>6. QED
      BY SMTT(20), <3>1, <3>4, <3>5
  <2>3. QED
    BY <1>8, <2>1, <2>2
<1>9. CASE DeleteDevice
  <2>1. /\ UNCHANGED <<kernelVars, state, byte, workVars, made, scriptVars, mainVars>>
        /\ udev = "delete" /\ udev' = "next" /\ object = devices[path]
        /\ allocated' = allocated \ {object}
        /\ devices' = [devices EXCEPT ![path] = 0]
    BY <1>9 DEF DeleteDevice
  <2>2. devices' \in [Paths -> 0 .. Len(made)] /\ allocated' \in SUBSET (1 .. Len(made))
    <3>1. allocated' \subseteq 1 .. Len(made)
      BY <2>1
    <3>2. 0 \in 0 .. Len(made) /\ devices \in [Paths -> 0 .. Len(made)]
      OBVIOUS
    <3>3. devices' \in [Paths -> 0 .. Len(made)]
      BY <2>1, <3>2
    <3>4. QED
      BY <3>1, <3>3
  <2>3. TypeOK'
    BY <2>1, <2>2
  <2>4. \A p \in Paths : devices'[p] # 0 => devices'[p] = devices[p] /\ devices[p] # object
    BY <2>1
  <2>5. DeviceTables'
    BY <2>1, <2>4
  <2>6. QED
    BY <2>1, <2>3, <2>5
<1>10. QED
  BY <1>1, <1>2, <1>3, <1>4, <1>5, <1>6, <1>7, <1>8, <1>9 DEF UdevThread

LEMMA MainNext == DeviceInv /\ Main => DeviceInv'
<1> SUFFICES ASSUME DeviceInv, Main PROVE DeviceInv'
  OBVIOUS
<1> USE UdevDevicesAssumption DEF DeviceInv, TypeOK, UdevStates, MainStates, DeviceTables, InHandler,
        ScriptsHaveDevices, InTheHandlers, Restart, TearDown
<1>1. CASE (\E o \in Objects : SetFileStop(o)) \/ SetFileStart
  <2>1. /\ UNCHANGED <<kernelVars, state, byte, workVars, devices, made, allocated, scripts, orphans,
                        main>>
        /\ udev' = udev \/ udev' = "terminated"
        /\ main = "dispatch"
    BY <1>1 DEF SetFileStop, SetFileStart
  <2>2. restarting' \in scripts \/ restarting' = 0
    BY <1>1 DEF SetFileStop, SetFileStart
  <2>3. running' \subseteq running \cup (scripts \cup orphans)
    BY <1>1 DEF SetFileStop, SetFileStart
  <2>4. restarting' \in 0 .. Len(made)
    <3>1. Len(made) \in Nat /\ \A o \in scripts : o \in 0 .. Len(made)
      OBVIOUS
    <3>2. 0 \in 0 .. Len(made)
      BY <3>1
    <3>3. QED
      BY <2>2, <3>1, <3>2
  <2>5. running' \in SUBSET (1 .. Len(made))
    BY <2>3
  <2>6. TypeOK'
    BY <2>1, <2>4, <2>5
  <2>7. DeviceTables' /\ InTheHandlers' /\ TearDown'
    BY SMTT(20), <2>1
  <2>8. QED
    BY <2>1, <2>2, <2>3, <2>6, <2>7
<1>2. CASE LeaveDispatcher \/ Interrupt \/ WriteByte
  <2>1. UNCHANGED <<kernelVars, udev, workVars, tableVars, restarting>>
    BY <1>2 DEF LeaveDispatcher, Interrupt, WriteByte
  <2>2. /\ state' \in {"Stopped", "Running", "Stopping"} /\ byte' \in BOOLEAN /\ restarting' = 0
        /\ main \in {"dispatch", "interrupt", "write"} /\ main' \in {"interrupt", "write", "join"}
    BY <1>2 DEF LeaveDispatcher, Interrupt, WriteByte
  <2>3. TypeOK'
    BY <2>1, <2>2
  <2>4. QED
    BY <2>1, <2>2, <2>3
<1>3. CASE JoinUdev
  BY <1>3 DEF JoinUdev
<1>4. CASE StopScripts
  BY <1>4 DEF StopScripts
<1>5. CASE DeleteDevices
  <2>1. devices' \in [Paths -> 0 .. Len(made)] /\ \A p \in Paths : devices'[p] = 0
    BY <1>5 DEF DeleteDevices
  <2>2. allocated' \in SUBSET (1 .. Len(made))
    BY <1>5 DEF DeleteDevices
  <2>3. QED
    BY <1>5, <2>1, <2>2 DEF DeleteDevices
<1>6. QED
  BY <1>1, <1>2, <1>3, <1>4, <1>5 DEF Main, Shutdown

LEMMA DeviceNext == DeviceInv /\ [Next]_vars => DeviceInv'
<1>1. ASSUME DeviceInv, UNCHANGED vars PROVE DeviceInv'
  BY <1>1 DEF vars, DeviceInv, TypeOK, DeviceTables, InHandler, ScriptsHaveDevices, InTheHandlers,
        Restart, TearDown
<1>2. QED
  BY <1>1, KernelNext, UdevThreadNext, MainNext DEF Next

LEMMA DeviceInvariant == Spec => []DeviceInv
BY DeviceInit, DeviceNext, PTL DEF Spec

(* The monitor, the tables and main keep their types. *)
THEOREM DevicesTypeCorrect == Spec => []TypeOK
<1>1. DeviceInv => TypeOK
  BY DEF DeviceInv
<1>2. QED
  BY <1>1, DeviceInvariant, PTL

(* The drivers' tables hold what exists and runs, also when a device was      *)
(* added twice, and while main shuts down.                                   *)
THEOREM TablesAreRight == Spec => []DeviceTables
<1>1. DeviceInv => DeviceTables
  BY DEF DeviceInv
<1>2. QED
  BY <1>1, DeviceInvariant, PTL

(* No script is loaded for a device object that was deleted, and none runs    *)
(* without being loaded but the orphans of a set-file.                       *)
THEOREM ScriptsHaveTheirDevices == Spec => []ScriptsHaveDevices
<1>1. DeviceInv => ScriptsHaveDevices
  BY DEF DeviceInv
<1>2. QED
  BY <1>1, DeviceInvariant, PTL
--------------------------------------------------------------------------------
LEMMA PromiseNext == DeviceInv /\ [Next]_vars => [Promise!Next]_(Promise!vars)
<1> SUFFICES ASSUME DeviceInv, [Next]_vars PROVE [Promise!Next]_(Promise!vars)
  OBVIOUS
<1> USE DEF Promise!vars, Objects
<1>1. CASE OpenDevice
  <2>1. CASE path \notin typed
    BY <1>1, <2>1 DEF OpenDevice
  <2>2. CASE path \in typed
    <3>1. /\ object' \in Objects /\ object' \notin allocated
          /\ allocated' = allocated \cup {object'} /\ UNCHANGED <<running, orphans>>
      BY <1>1, <2>2, UdevDevicesAssumption DEF OpenDevice, DeviceInv, TypeOK
    <3>2. QED
      BY <3>1 DEF Promise!Next, Promise!Create
  <2>3. QED
    BY <2>1, <2>2
<1>2. CASE StartScript \/ SetFileStart
  <2>1. PICK o \in 1 .. Len(made) : o \in scripts \cup orphans /\ running' = running \cup {o}
    BY <1>2 DEF StartScript, SetFileStart, DeviceInv, InTheHandlers, Restart, TypeOK
  <2>2. UNCHANGED <<allocated, orphans>> /\ o \in Objects
    BY <1>2, UdevDevicesAssumption DEF StartScript, SetFileStart, DeviceInv, TypeOK
  <2>3. CASE o \in running \cup orphans
    <3>1. running' \ orphans' = running \ orphans
      BY <2>1, <2>2, <2>3
    <3>2. QED
      BY <2>2, <3>1
  <2>4. CASE o \notin running \cup orphans
    <3>1. o \in allocated
      BY <2>1, <2>4 DEF DeviceInv, ScriptsHaveDevices
    <3>2. running' \ orphans' = (running \ orphans) \cup {o}
      BY <2>1, <2>2, <2>4
    <3>3. Promise!Load(o)
      BY <2>2, <2>4, <3>1, <3>2 DEF Promise!Load
    <3>4. QED
      BY <2>2, <3>3 DEF Promise!Next
  <2>5. QED
    BY <2>3, <2>4
<1>3. CASE StopScript \/ EraseScript \/ (\E o \in Objects : SetFileStop(o)) \/ StopScripts
  <2> DEFINE Gone == (running \ orphans) \ (running' \ orphans')
  <2>1. /\ UNCHANGED allocated /\ running' \subseteq running /\ orphans \subseteq orphans'
    BY <1>3 DEF StopScript, EraseScript, SetFileStop, StopScripts
  <2>2. Gone \in SUBSET Objects
    BY UdevDevicesAssumption DEF DeviceInv, TypeOK
  <2>3. running' \ orphans' = (running \ orphans) \ Gone
    BY <2>1
  <2>4. Promise!Unload(Gone)
    BY <2>1, <2>3 DEF Promise!Unload
  <2>5. QED
    BY <2>2, <2>4 DEF Promise!Next
<1>4. CASE DeleteDevice
  <2>1. {object} \in SUBSET Objects
    BY <1>4, UdevDevicesAssumption DEF DeleteDevice, DeviceInv, TypeOK
  <2>2. Promise!Destroy({object})
    BY <1>4 DEF DeleteDevice, DeviceInv, InTheHandlers, ScriptsHaveDevices, Promise!Destroy
  <2>3. QED
    BY <2>1, <2>2 DEF Promise!Next
<1>5. CASE DeleteDevices
  <2> DEFINE S == allocated \cap {devices[p] : p \in Paths}
  <2>1. S \in SUBSET Objects
    BY UdevDevicesAssumption DEF DeviceInv, TypeOK
  <2>2. Promise!Destroy(S)
    BY <1>5 DEF DeleteDevices, DeviceInv, TearDown, ScriptsHaveDevices,
                 Promise!Destroy
  <2>3. QED
    BY <2>1, <2>2 DEF Promise!Next
<1>6. CASE UNCHANGED <<allocated, running, orphans>>
  BY <1>6
<1>7. \/ Kernel
      \/ UdevThread /\ ~OpenDevice /\ ~StartScript /\ ~StopScript /\ ~EraseScript /\ ~DeleteDevice
      \/ Main /\ ~(\E o \in Objects : SetFileStop(o)) /\ ~SetFileStart /\ ~StopScripts /\ ~DeleteDevices
      \/ UNCHANGED vars
      => UNCHANGED <<allocated, running, orphans>>
  BY DEF Kernel, Plug, TypeKnown, Unplug, UdevThread, StartExec, EnableMonitor, ScanDevices, NextFound,
         TestRunning, Dispatch, WakeUp, ChangeDevice, RegisterDevice, FindDevice, Main,
         LeaveDispatcher, Shutdown, Interrupt, WriteByte, JoinUdev, vars
<1>8. QED
  BY <1>1, <1>2, <1>3, <1>4, <1>5, <1>6, <1>7 DEF Next, Main, UdevThread, Shutdown

(* Every step of the udev thread and of main creates, loads, unloads or       *)
(* destroys as DeviceScripts allows, or leaves objects and scripts alone.    *)
THEOREM KeepsPromise == Spec => PromiseSpec
<1>1. Init => Promise!Init
  BY DEF Init, Promise!Init
<1>2. QED
  BY <1>1, PromiseNext, DeviceInvariant, PTL DEF Spec, PromiseSpec, Promise!Spec
================================================================================
