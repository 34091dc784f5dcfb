-------------------------------- MODULE HIDPPNodes --------------------------------
(***************************************************************************)
(* HIDPPDriver and one of its nodes: a receiver, or a device on a cable. The *)
(* udev thread opens the node and tries the device indices; the node's       *)
(* dispatcher thread handles the receiver's notices, emits the events of     *)
(* HID++ 2.0 devices, and removes the devices when it ends. Both add to      *)
(* node->devices and call the script manager, whose addDevice and            *)
(* removeDevice are one step each: UdevDevices has what a set-file may do     *)
(* within them. A script's threads are those of ScriptThread with a shared   *)
(* reader, reduced to whether its loop runs when the dispatcher waits for it: *)
(* one whose load fails is otherwise as good as one whose device is silent.  *)
(***************************************************************************)
EXTENDS Naturals, Sequences, FiniteSets, FiniteSetsExt

CONSTANTS
  Indices,     \* device indices of a receiver
  Corded,      \* the indices tried on a cable
  MaxLinks,    \* bound: how often a device comes into or goes out of range
  MaxObjects   \* bound: how many device objects are created

ASSUME HIDPPNodesAssumption ==
  /\ Indices \subseteq Nat /\ Corded \subseteq Nat
  /\ IsFiniteSet (Indices) /\ IsFiniteSet (Corded)
  /\ MaxLinks \in Nat \ {0} /\ MaxObjects \in Nat

VARIABLES
  receiver,    \* what the node is
  plugged,     \* the node exists in the kernel
  inRange,     \* indices of devices that answer
  links,
  uevents,     \* add and remove events the udev thread has to read
  notices,     \* DeviceConnection reports the dispatcher has to read
  node,        \* _nodes has the node
  handlers,    \* indices whose notices are handled
  stopping,    \* dispatcher->stop was called
  thread,      \* where each thread is, "udev" and "node"
  at,          \* the index it is handling, 0 before the first
  holds,       \* the object in its unique_ptr, 0 for none
  left,        \* indices the udev thread has to try
  devices,     \* node->devices: an object per index, 0 for none
  made,        \* the index of each device object that was created
  alive,       \* the device objects that exist
  scripts,     \* ScriptManager::_scripts, by device object
  failed,      \* the one that the dispatcher waits for, if its last load failed, as a set
  calling,     \* the object whose event the dispatcher is emitting, 0 for none
  restarting,  \* the object whose script a set-file has stopped, 0 for none
  orphans,     \* history: objects whose script was started after it was erased
  managed,     \* the callbacks of the script manager are installed
  contended    \* history: indices whose device was added twice or while removed

kernelVars == <<receiver, plugged, inRange, links>>
queueVars  == <<uevents, notices>>
nodeVars   == <<node, handlers, stopping>>
threadVars == <<thread, at, holds, left>>
tableVars  == <<devices, made, alive, scripts, failed>>
mainVars   == <<calling, restarting, orphans, managed>>
nodesVars  == <<kernelVars, queueVars, nodeVars, threadVars, tableVars, mainVars, contended>>

AnyIndex == Indices \cup Corded
Threads  == {"udev", "node"}
Objects  == 1 .. MaxObjects

NodesInit ==
  /\ receiver \in BOOLEAN
  /\ plugged \in BOOLEAN
  /\ inRange \in SUBSET (IF receiver THEN Indices ELSE Corded)
  /\ links = 0
  /\ uevents = IF plugged THEN <<"add">> ELSE <<>>
  /\ notices = <<>>
  /\ node = FALSE /\ handlers = {} /\ stopping = FALSE
  /\ thread = [t \in Threads |-> IF t = "udev" THEN "idle" ELSE "none"]
  /\ at = [t \in Threads |-> 0]
  /\ holds = [t \in Threads |-> 0]
  /\ left = {}
  /\ devices = [i \in AnyIndex |-> 0]
  /\ made = <<>> /\ alive = {} /\ scripts = {}
  /\ failed = {} /\ calling = 0 /\ restarting = 0 /\ orphans = {}
  /\ managed = TRUE
  /\ contended = {}

Goto(t, pc) == thread' = [thread EXCEPT ![t] = pc]
--------------------------------------------------------------------------------
(* The kernel. A device that is plugged in while the daemon enumerates the    *)
(* devices is announced twice; a syspath is not used again.                  *)
PlugNode(twice) ==
  /\ ~ plugged /\ uevents = <<>> /\ links = 0 /\ thread["udev"] = "idle"
  /\ plugged' = TRUE
  /\ links' = 1
  /\ uevents' = IF twice THEN <<"add", "add">> ELSE <<"add">>
  /\ UNCHANGED <<receiver, inRange, notices, nodeVars, threadVars, tableVars, mainVars, contended>>

UnplugNode ==
  /\ plugged /\ links < MaxLinks
  /\ plugged' = FALSE
  /\ links' = MaxLinks
  /\ uevents' = Append(uevents, "remove")
  /\ UNCHANGED <<receiver, inRange, notices, nodeVars, threadVars, tableVars, mainVars, contended>>

(* A device of a receiver is switched on, or falls asleep.                   *)
LinkChanges(i) ==
  /\ receiver /\ plugged /\ links < MaxLinks
  /\ links' = links + 1
  /\ inRange' = IF i \in inRange THEN inRange \ {i} ELSE inRange \cup {i}
  /\ notices' = IF thread["node"] = "none" THEN notices
                ELSE Append(notices, [index |-> i, linked |-> i \notin inRange])
  /\ UNCHANGED <<receiver, plugged, uevents, nodeVars, threadVars, tableVars, mainVars, contended>>

(* Requests are answered, also those of a handler of the dispatcher, until it *)
(* ends or the node is gone.                                                *)
Answers(i) == plugged /\ i \in inRange /\ thread["node"] \notin {"unload all", "clear", "ended"}
--------------------------------------------------------------------------------
(* HIDPPDriver::addDevice (dev)                                              *)
OpenNode ==
  /\ thread["udev"] = "idle" /\ uevents # <<>> /\ Head(uevents) = "add"
  /\ uevents' = Tail(uevents)
  /\ IF node \/ ~ plugged
     THEN UNCHANGED <<node, stopping, thread>>
     ELSE /\ node' = TRUE
          /\ stopping' = FALSE
          /\ thread' = [thread EXCEPT !["udev"] = "probe", !["node"] = "run"]
  /\ UNCHANGED <<kernelVars, notices, handlers, at, holds, left, tableVars, mainVars, contended>>

(* isReceiver: a receiver that does not answer is taken for a device.         *)
ProbeReceiver ==
  /\ thread["udev"] = "probe"
  /\ left' = IF receiver /\ plugged THEN Indices ELSE Corded
  /\ Goto("udev", "next")
  /\ UNCHANGED <<kernelVars, queueVars, nodeVars, at, holds, tableVars, mainVars, contended>>

(* Plausible mistake: the handlers are registered after the device was tried. *)
NextIndex_RegistersLate ==
  /\ thread["udev"] = "next"
  /\ handlers' = IF receiver THEN Indices \ left ELSE handlers
  /\ IF left = {}
     THEN Goto("udev", "idle") /\ UNCHANGED <<at, left>>
     ELSE /\ at' = [at EXCEPT !["udev"] = Min(left)]
          /\ left' = left \ {Min(left)}
          /\ Goto("udev", "construct")
  /\ UNCHANGED <<kernelVars, queueVars, node, stopping, holds, tableVars, mainVars, contended>>

(* The next turn of the loop over the indices: event handlers come first.     *)
NextIndex ==
  /\ thread["udev"] = "next"
  /\ IF left = {}
     THEN Goto("udev", "idle") /\ UNCHANGED <<at, left, handlers>>
     ELSE /\ at' = [at EXCEPT !["udev"] = Min(left)]
          /\ left' = left \ {Min(left)}
          /\ handlers' = IF Min(left) \in Indices THEN handlers \cup {Min(left)} ELSE handlers
          /\ Goto("udev", "construct")
  /\ UNCHANGED <<kernelVars, queueVars, node, stopping, holds, tableVars, mainVars, contended>>

(* Where a thread goes on after addDevice (node, index).                       *)
Done(t) == IF t = "udev" THEN "next" ELSE "run"

(* addDevice: the device is constructed, which asks it for its features.      *)
ConstructDevice(t) ==
  /\ thread[t] = "construct"
  /\ Len(made) < MaxObjects
  /\ LET i == at[t]
         o == Len(made) + 1
     IN  IF Answers(i)
         THEN /\ made' = Append(made, i)
              /\ alive' = alive \cup {o}
              /\ holds' = [holds EXCEPT ![t] = o]
              /\ Goto(t, "added")
              /\ contended' = IF devices[i] # 0 \/ \E u \in Threads \ {t} : holds[u] # 0 /\ at[u] = i
                              THEN contended \cup {i} ELSE contended
         ELSE /\ Goto(t, Done(t))
              /\ UNCHANGED <<made, alive, holds, contended>>
  /\ UNCHANGED <<kernelVars, queueVars, nodeVars, at, left, devices, scripts, failed, mainVars>>

(* inputDeviceAdded: the manager starts a script.                            *)
DeviceAdded(t) ==
  /\ thread[t] = "added"
  /\ scripts' = IF managed THEN scripts \cup {holds[t]} ELSE scripts
  /\ Goto(t, "emplace")
  /\ UNCHANGED <<kernelVars, queueVars, nodeVars, at, holds, left, devices, made, alive,
                 failed, mainVars, contended>>

(* node->devices.emplace: if there is a device already, the new one is        *)
(* destroyed, and its script is not told.                                   *)
EmplaceDevice(t) ==
  /\ thread[t] = "emplace"
  /\ IF devices[at[t]] = 0
     THEN devices' = [devices EXCEPT ![at[t]] = holds[t]] /\ UNCHANGED alive
     ELSE alive' = alive \ {holds[t]} /\ UNCHANGED devices
  /\ holds' = [holds EXCEPT ![t] = 0]
  /\ Goto(t, Done(t))
  /\ UNCHANGED <<kernelVars, queueVars, nodeVars, at, left, made, scripts, failed, mainVars,
                 contended>>
--------------------------------------------------------------------------------
(* receiverEvent, on the dispatcher's thread.                                *)
ReadNotice ==
  /\ thread["node"] = "run" /\ notices # <<>>
  /\ notices' = Tail(notices)
  /\ LET n == Head(notices)
     IN  IF n.index \notin handlers
         THEN UNCHANGED <<thread, at, contended>>
         ELSE /\ at' = [at EXCEPT !["node"] = n.index]
              /\ Goto("node", IF n.linked THEN "construct" ELSE "unload")
              /\ contended' = IF ~ n.linked /\ holds["udev"] # 0 /\ at["udev"] = n.index
                              THEN contended \cup {n.index} ELSE contended
  /\ UNCHANGED <<kernelVars, uevents, nodeVars, holds, left, tableVars, mainVars>>

(* inputDeviceRemoved: the manager stops and erases the scripts.              *)
UnloadScripts(S) ==
  scripts' = IF managed THEN scripts \ S ELSE scripts

(* Plausible mistake: the device is erased before its script is stopped.      *)
UnloadDevice_ErasesFirst ==
  /\ thread["node"] = "unload"
  /\ alive' = alive \ {devices[at["node"]]}
  /\ Goto("node", "erase")
  /\ UNCHANGED <<kernelVars, queueVars, nodeVars, at, holds, left, devices, made, scripts,
                 failed, mainVars, contended>>

(* removeDevice (node, index): inputDeviceRemoved, then erase.                *)
UnloadDevice ==
  /\ thread["node"] = "unload"
  /\ UnloadScripts({devices[at["node"]]})
  /\ Goto("node", IF devices[at["node"]] = 0 THEN "run" ELSE "erase")
  /\ UNCHANGED <<kernelVars, queueVars, nodeVars, at, holds, left, devices, made, alive,
                 failed, mainVars, contended>>

(* Plausible mistake: the device is destroyed, its entry stays.              *)
EraseDevice_KeepsEntry ==
  /\ thread["node"] = "erase"
  /\ alive' = alive \ {devices[at["node"]]}
  /\ Goto("node", "run")
  /\ UNCHANGED <<kernelVars, queueVars, nodeVars, at, holds, left, devices, made, scripts,
                 failed, mainVars, contended>>

EraseDevice ==
  /\ thread["node"] = "erase"
  /\ alive' = alive \ {devices[at["node"]]}
  /\ devices' = [devices EXCEPT ![at["node"]] = 0]
  /\ Goto("node", "run")
  /\ UNCHANGED <<kernelVars, queueVars, nodeVars, at, holds, left, made, scripts, failed,
                 mainVars, contended>>

(* Plausible mistake: stop does not wake a dispatcher that waits for reports. *)
EndRun_OnErrorOnly ==
  /\ thread["node"] = "run" /\ ~ plugged
  /\ Goto("node", "unload all")
  /\ contended' = IF holds["udev"] # 0 THEN contended \cup {at["udev"]} ELSE contended
  /\ UNCHANGED <<kernelVars, queueVars, nodeVars, at, holds, left, tableVars, mainVars>>

(* dispatcherRun: run returns when it is stopped or cannot read.             *)
EndRun ==
  /\ thread["node"] = "run" /\ (stopping \/ ~ plugged)
  /\ Goto("node", "unload all")
  /\ contended' = IF holds["udev"] # 0 THEN contended \cup {at["udev"]} ELSE contended
  /\ UNCHANGED <<kernelVars, queueVars, nodeVars, at, holds, left, tableVars, mainVars>>

UnloadAll ==
  /\ thread["node"] = "unload all"
  /\ UnloadScripts({devices[i] : i \in AnyIndex})
  /\ Goto("node", "clear")
  /\ UNCHANGED <<kernelVars, queueVars, nodeVars, at, holds, left, devices, made, alive,
                 failed, mainVars, contended>>

ClearDevices ==
  /\ thread["node"] = "clear"
  /\ alive' = alive \ {devices[i] : i \in AnyIndex}
  /\ devices' = [i \in AnyIndex |-> 0]
  /\ Goto("node", "ended")
  /\ UNCHANGED <<kernelVars, queueVars, nodeVars, at, holds, left, made, scripts, failed,
                 mainVars, contended>>
--------------------------------------------------------------------------------
(* HIDPPDriver::removeDevice (dev)                                           *)
StopNode ==
  /\ thread["udev"] = "idle" /\ uevents # <<>> /\ Head(uevents) = "remove"
  /\ uevents' = Tail(uevents)
  /\ stopping' = (stopping \/ node)
  /\ IF node THEN Goto("udev", "join") ELSE UNCHANGED thread
  /\ UNCHANGED <<kernelVars, notices, node, handlers, at, holds, left, tableVars, mainVars,
                 contended>>

(* The node's destructor destroys what is left in devices.                   *)
JoinNode ==
  /\ thread["udev"] \in {"join", "join last"} /\ thread["node"] = "ended"
  /\ alive' = alive \ {devices[i] : i \in AnyIndex}
  /\ devices' = [i \in AnyIndex |-> 0]
  /\ node' = FALSE /\ handlers' = {}
  /\ notices' = <<>>
  /\ thread' = [thread EXCEPT !["udev"] = IF @ = "join" THEN "idle" ELSE "ended", !["node"] = "none"]
  /\ UNCHANGED <<kernelVars, uevents, stopping, at, holds, left, made, scripts, failed,
                 mainVars, contended>>
--------------------------------------------------------------------------------
(* Events of a HID++ 2.0 device. Its handlers are registered while its        *)
(* script's loop runs. A handler of the script is called on the JS thread,    *)
(* for which the dispatcher waits.                                          *)
Loops(o) == o \in scripts \ failed /\ o # restarting

DeviceEvent(o) ==
  /\ thread["node"] = "run"
  /\ o \in alive /\ Loops(o)
  /\ calling' = o
  /\ Goto("node", "blocked")
  /\ UNCHANGED <<kernelVars, queueVars, nodeVars, at, holds, left, tableVars, restarting, orphans,
                 managed, contended>>

(* The loop of this load, or of a later one, takes the call.                 *)
Serve ==
  /\ thread["node"] = "blocked" /\ Loops(calling)
  /\ calling' = 0
  /\ Goto("node", "run")
  /\ UNCHANGED <<kernelVars, queueVars, nodeVars, at, holds, left, tableVars, restarting, orphans,
                 managed, contended>>
--------------------------------------------------------------------------------
(* The main thread: set-file, stop and start.                                *)
SetFileStop(o) ==
  /\ managed /\ restarting = 0
  /\ o \in scripts
  /\ restarting' = o
  /\ failed' = failed \ {o}
  /\ UNCHANGED <<kernelVars, queueVars, nodeVars, threadVars, devices, made, alive, scripts,
                 calling, orphans, managed, contended>>

(* start follows whether the script is still there or not: an erased one runs *)
(* in freed memory, if the process survives that, and nobody stops it.        *)
SetFileStart ==
  /\ restarting # 0
  /\ restarting' = 0
  /\ IF restarting \in scripts
     THEN failed' \in {failed, failed \cup ({restarting} \cap {calling})} /\ UNCHANGED orphans
     ELSE orphans' = orphans \cup {restarting} /\ UNCHANGED failed
  /\ UNCHANGED <<kernelVars, queueVars, nodeVars, threadVars, devices, made, alive, scripts,
                 calling, managed, contended>>

(* The daemon ends: ~ScriptManager clears the callbacks first.                *)
LeaveManager ==
  /\ thread["udev"] = "idle" /\ restarting = 0
  /\ managed' = FALSE
  /\ Goto("udev", "destroy")
  /\ UNCHANGED <<kernelVars, queueVars, nodeVars, at, holds, left, tableVars, calling, restarting,
                 orphans, contended>>

(* Then it stops the scripts, one after the other.                           *)
StopScript(o) ==
  /\ thread["udev"] = "destroy"
  /\ o \in scripts
  /\ scripts' = scripts \ {o} /\ failed' = failed \ {o}
  /\ UNCHANGED <<kernelVars, queueVars, nodeVars, threadVars, devices, made, alive, mainVars,
                 contended>>

DestroyManager ==
  /\ thread["udev"] = "destroy" /\ scripts = {}
  /\ Goto("udev", "statics")
  /\ UNCHANGED <<kernelVars, queueVars, nodeVars, at, holds, left, tableVars, mainVars, contended>>

(* With the statics: ~HIDPPDriver.                                          *)
DestroyDriver ==
  /\ thread["udev"] = "statics"
  /\ stopping' = (stopping \/ node)
  /\ Goto("udev", IF node THEN "join last" ELSE "ended")
  /\ UNCHANGED <<kernelVars, queueVars, node, handlers, at, holds, left, tableVars, mainVars,
                 contended>>

UdevStep ==
  \/ OpenNode \/ ProbeReceiver \/ NextIndex \/ StopNode \/ JoinNode
  \/ \E o \in scripts : StopScript(o)
  \/ DestroyManager \/ DestroyDriver
  \/ ConstructDevice("udev") \/ DeviceAdded("udev") \/ EmplaceDevice("udev")

NodeStep ==
  \/ ReadNotice \/ UnloadDevice \/ EraseDevice \/ EndRun \/ UnloadAll \/ ClearDevices
  \/ ConstructDevice("node") \/ DeviceAdded("node") \/ EmplaceDevice("node")

NodesNext ==
  \/ \E b \in BOOLEAN : PlugNode(b)
  \/ UnplugNode
  \/ \E i \in Indices : LinkChanges(i)
  \/ \E o \in scripts : DeviceEvent(o) \/ SetFileStop(o)
  \/ SetFileStart \/ LeaveManager
  \/ UdevStep \/ NodeStep \/ Serve

(* The threads are scheduled; what the user and the devices do is not. Events *)
(* do not keep a notice from being read, as reports come in order, nor stop    *)
(* from being seen; a call that is queued is taken unless scripts are replaced *)
(* again and again: strong fairness.                                        *)
NodesSpec ==
  /\ NodesInit /\ [][NodesNext]_nodesVars
  /\ WF_nodesVars(UdevStep) /\ WF_nodesVars(SetFileStart)
  /\ SF_nodesVars(NodeStep) /\ SF_nodesVars(Serve)
--------------------------------------------------------------------------------
UdevStates == {"idle", "probe", "next", "construct", "added", "emplace",
               "join", "destroy", "statics", "join last", "ended"}
NodeStates == {"none", "run", "blocked", "construct", "added", "emplace",
               "unload", "erase", "unload all", "clear", "ended"}

NodesTypeOK ==
  /\ {receiver, plugged, node, stopping, managed} \subseteq BOOLEAN
  /\ inRange \subseteq AnyIndex /\ handlers \subseteq Indices /\ left \subseteq AnyIndex
  /\ links \in 0 .. MaxLinks
  /\ uevents \in Seq({"add", "remove"})
  /\ notices \in Seq([index : Indices, linked : BOOLEAN])
  /\ thread \in [Threads -> UdevStates \cup NodeStates]
  /\ thread["udev"] \in UdevStates /\ thread["node"] \in NodeStates
  /\ at \in [Threads -> AnyIndex \cup {0}]
  /\ holds \in [Threads -> Objects \cup {0}]
  /\ \A t \in Threads : holds[t] # 0 <=> thread[t] \in {"added", "emplace"}
  /\ devices \in [AnyIndex -> Objects \cup {0}]
  /\ made \in Seq(AnyIndex)
  /\ alive \subseteq 1 .. Len(made) /\ scripts \subseteq 1 .. Len(made)
  /\ failed \subseteq 1 .. Len(made) /\ orphans \subseteq 1 .. Len(made)
  /\ {calling, restarting} \subseteq 0 .. Len(made)
  /\ contended \subseteq AnyIndex
  /\ node <=> thread["node"] # "none"

(* A script's device exists as long as the script: the dispatcher stops the   *)
(* script before it destroys the device, at a notice, at its end and at the   *)
(* removal of the node, whatever the udev thread and the receiver do          *)
(* meanwhile. Exceptions are the script that a set-file starts when it was    *)
(* erased, an index that both threads added, that was added again, or that    *)
(* was removed while it was being added, and all devices once ~ScriptManager   *)
(* has cleared the callbacks: until it has stopped a script, the device may be *)
(* destroyed under it.                                                      *)
Started == scripts \cup orphans

ScriptsKeepTheirDevice ==
  managed => \A o \in Started \ (alive \cup orphans) : made[o] \in contended

(* When the threads have caught up, the devices that answer are those in the  *)
(* table and those that have a script, one each.                            *)
Quiet == uevents = <<>> /\ notices = <<>> /\ thread["udev"] = "idle" /\ thread["node"] \in {"none", "run"}
QuietAgrees ==
  Quiet /\ (thread["node"] = "run" => plugged) =>
    \A i \in AnyIndex \ contended :
      /\ devices[i] # 0 <=> node /\ i \in inRange
      /\ {o \in scripts : made[o] = i} = {devices[i]} \ {0}
      /\ {o \in alive : made[o] = i} = {devices[i]} \ {0}

(* The dispatcher waits in vain for a script whose last load has failed after *)
(* the call was queued, or that was destroyed.                               *)
Stuck == thread["node"] = "blocked" /\ (calling \notin scripts \/ calling \in failed)

(* A device that stays in range of a plugged receiver gets its script, though *)
(* it may come into range before its index is tried, while it is, or later,   *)
(* and though other devices keep the dispatcher busy with events.             *)
InRangeGetsScript ==
  \A i \in Indices :
    receiver /\ plugged /\ i \in inRange
      ~> \/ \E o \in scripts : made[o] = i
         \/ i \in contended \/ ~ plugged \/ i \notin inRange \/ ~ managed \/ Stuck

(* The udev thread gets its join of the dispatcher, at a removal and at the   *)
(* end of the daemon, unless the dispatcher is stuck.                         *)
JoinReturns ==
  \A pc \in {"join", "join last"} : thread["udev"] = pc ~> thread["udev"] # pc \/ Stuck
================================================================================
