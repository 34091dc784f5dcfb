----------------------------- MODULE DeviceProofs -----------------------------
(***************************************************************************)
(* Proofs about HIDPPNodes, for any indices and bounds, and about UInput,     *)
(* for any users, effects and bounds: the devices that a driver makes on two *)
(* threads, and the devices that scripts make, with a thread each.           *)
(***************************************************************************)
EXTENDS HIDPPNodes, UInput, WellFoundedInduction, TLAPS

(* The steps of adding a device, and of adding or removing one. *)
Busy == {"construct", "added", "emplace"}
Works == Busy \cup {"unload", "erase"}
All == IF receiver THEN Indices ELSE Corded

(* Where the threads are, and what they have not come to yet: a device has its *)
(* handler before it is tried, and no entry while it is left to try. *)
NodesShape ==
  /\ left # {} => thread["udev"] \in Busy \cup {"next"}
  /\ thread["node"] = "none" =>
       /\ notices = <<>> /\ handlers = {}
       /\ \A i \in AnyIndex : devices[i] = 0
       /\ thread["udev"] \in {"idle", "destroy", "statics", "ended"}
  /\ managed <=> thread["udev"] \notin {"destroy", "statics", "join last", "ended"}
  /\ thread["node"] # "none" => plugged \/ links # 0
  /\ receiver \/ notices = <<>>
  /\ inRange \subseteq All
  /\ thread["udev"] \in Busy => at["udev"] \in AnyIndex \ left
  /\ thread["node"] \in Works => at["node"] \in handlers
  /\ handlers \cap left = {}
  /\ thread["udev"] = "probe" => handlers = {} /\ \A i \in AnyIndex : devices[i] = 0
  /\ \A i \in left : devices[i] = 0
  /\ (receiver /\ plugged /\ thread["node"] # "none" /\ thread["udev"] # "probe") =>
       Indices \subseteq handlers \cup left

(* Every device object has one owner: the table, at its index, or a thread. *)
Owned ==
  /\ \A i \in AnyIndex : devices[i] # 0 => devices[i] \in alive /\ made[devices[i]] = i
  /\ \A t \in Threads : holds[t] # 0 =>
       /\ holds[t] \in alive /\ made[holds[t]] = at[t]
       /\ \A i \in AnyIndex : devices[i] # holds[t]
  /\ holds["udev"] # 0 => holds["udev"] # holds["node"]
  /\ \A o \in alive : o = devices[made[o]] \/ \E t \in Threads : holds[t] = o

(* Both threads have to do with an index only when it is contended. *)
Disputed ==
  /\ \A t \in Threads : holds[t] # 0 /\ devices[at[t]] # 0 => at[t] \in contended
  /\ holds["udev"] # 0 /\ holds["node"] # 0 /\ at["udev"] = at["node"] => at["udev"] \in contended
  /\ holds["udev"] # 0 /\ thread["node"] \in {"unload all", "clear", "ended"} =>
       at["udev"] \in contended

(* The devices of the table have their scripts, but for those that the dispatcher *)
(* is taking away. *)
ScriptsRun ==
  /\ thread["node"] = "erase" =>
       devices[at["node"]] # 0 /\ (managed => devices[at["node"]] \notin scripts)
  /\ managed /\ thread["node"] \in {"clear", "ended"} =>
       \A i \in AnyIndex : devices[i] \in scripts => i \in contended
  /\ managed /\ thread["node"] # "clear" =>
       \A i \in AnyIndex :
         devices[i] \in scripts \cup {0} \/ (thread["node"] = "erase" /\ at["node"] = i)
  /\ managed => \A t \in Threads : thread[t] = "emplace" => holds[t] \in scripts

(* What the invariant of the scripts rests on: the manager erases a script before *)
(* its device goes, also while a set-file has stopped it. *)
Kept == managed => \A o \in scripts \ alive : made[o] \in contended

(* A notice about i is not handled yet. *)
Queued(i) == \E k \in DOMAIN notices : notices[k].index = i

(* The last notice about an index says whether the device is in range now. *)
LastNotice ==
  \A k \in DOMAIN notices :
    \/ \E m \in DOMAIN notices : m > k /\ notices[m].index = notices[k].index
    \/ notices[k].linked <=> notices[k].index \in inRange

(* A thread handles i, at one of the steps pcs. *)
NodeAt(i, pcs) == thread["node"] \in pcs /\ at["node"] = i
UdevAt(i, pcs) == thread["udev"] \in pcs /\ at["udev"] = i

(* No notice about i is queued: the table agrees with the receiver, or the thread *)
(* that handles i is about to make it so. *)
Agrees(i) ==
  /\ NodeAt(i, Busy) => i \in inRange
  /\ NodeAt(i, {"unload", "erase"}) => i \notin inRange /\ ~ UdevAt(i, {"added", "emplace"})
  /\ ~ NodeAt(i, Works) =>
       /\ UdevAt(i, {"construct"}) => devices[i] = 0 \/ i \in inRange
       /\ UdevAt(i, {"added", "emplace"}) => i \in inRange
       /\ ~ UdevAt(i, Busy) => (devices[i] # 0 <=> i \in inRange)

(* As long as the dispatcher runs, an index that was tried and is not contended has *)
(* a notice queued or agrees. *)
Caught ==
  plugged /\ thread["node"] \in Works \cup {"run", "blocked"} /\ thread["udev"] # "probe" =>
    \A i \in AnyIndex \ (contended \cup left) : Queued(i) \/ Agrees(i)

USE DEF kernelVars, queueVars, nodeVars, threadVars, tableVars, mainVars, nodesVars, Threads, Goto,
        UnloadScripts

(* NextIndex takes an index that is left. *)
LEMMA LeastIndex ==
  ASSUME NEW S, S \subseteq Nat, S # {}
  PROVE  Min(S) \in S
<1>1. PICK x \in S : \A y \in S : <<y, x>> \notin OpToRel(<, Nat)
  BY WFMin, NatLessThanWellFounded, Zenon
<1>2. \A y \in S : x <= y
  <2>1. ASSUME NEW y \in S PROVE ~ (y < x)
    <3>1. <<y, x>> \in OpToRel(<, Nat) <=> y < x
      BY DEF OpToRel
    <3>2. QED
      BY <1>1, <3>1, Zenon
  <2>2. QED
    BY <2>1
<1>3. QED
  BY <1>2 DEF Min

(* What appending to a queue and taking from it do. *)
LEMMA Queueing ==
  ASSUME NEW S, NEW s \in Seq(S), NEW e \in S
  PROVE  /\ Append(s, e) \in Seq(S)
         /\ s # <<>> => Head(s) \in S /\ Tail(s) \in Seq(S)
OBVIOUS

LEMMA Appended ==
  ASSUME NEW S, NEW s \in Seq(S), NEW e \in S
  PROVE  /\ Len(s) \in Nat /\ DOMAIN s = 1 .. Len(s)
         /\ DOMAIN Append(s, e) = 1 .. (Len(s) + 1) /\ Append(s, e)[Len(s) + 1] = e
         /\ \A k \in 1 .. Len(s) : Append(s, e)[k] = s[k] /\ s[k] \in S
OBVIOUS

LEMMA Removed ==
  ASSUME NEW S, NEW s \in Seq(S), s # <<>>
  PROVE  /\ Len(s) \in Nat /\ Len(s) >= 1 /\ Head(s) = s[1] /\ Head(s) \in S
         /\ DOMAIN s = 1 .. Len(s) /\ DOMAIN Tail(s) = 1 .. (Len(s) - 1)
         /\ \A k \in 1 .. (Len(s) - 1) : Tail(s)[k] = s[k + 1]
<1>1. Len(s) \in Nat /\ Len(s) >= 1 /\ DOMAIN s = 1 .. Len(s)
  OBVIOUS
<1>2. QED
  BY <1>1

(* What the queues hold. *)
Uevents == {"add", "remove"}
Notices == [index : Indices, linked : BOOLEAN]

(* The initial states, and then each step, keep the types. *)
LEMMA NodesInitTyped == NodesInit => NodesTypeOK
<1> SUFFICES ASSUME NodesInit PROVE NodesTypeOK
  OBVIOUS
<1>1. uevents \in Seq(Uevents) /\ notices \in Seq(Notices)
  <2>1. <<"add">> \in Seq(Uevents) /\ <<>> \in Seq(Uevents) /\ <<>> \in Seq(Notices)
    BY DEF Uevents
  <2>2. QED
    BY <2>1 DEF NodesInit
<1>2. made \in Seq(AnyIndex) /\ Len(made) = 0
  BY DEF NodesInit
<1>a. /\ failed \subseteq 1 .. Len(made) /\ orphans \subseteq 1 .. Len(made)
      /\ {calling, restarting} \subseteq 0 .. Len(made)
  BY <1>2 DEF NodesInit
<1>3. links \in 0 .. MaxLinks
  BY HIDPPNodesAssumption DEF NodesInit
<1>4. thread \in [Threads -> UdevStates \cup NodeStates] /\ thread["udev"] = "idle" /\
        thread["node"] = "none"
  BY DEF NodesInit, UdevStates, NodeStates
<1>5. inRange \subseteq AnyIndex
  BY DEF NodesInit, AnyIndex
<1>6. QED
  BY <1>1, <1>2, <1>a, <1>3, <1>4, <1>5 DEF NodesInit, NodesTypeOK, UdevStates, NodeStates, Uevents,
     Notices

(* What the proofs need of the bounds. *)
LEMMA Bounds ==
  /\ MaxLinks \in Nat /\ MaxLinks >= 1 /\ MaxObjects \in Nat
  /\ 1 \in 0 .. MaxLinks /\ MaxLinks \in 0 .. MaxLinks
BY HIDPPNodesAssumption

(* Each step keeps the types: an index that is handled, and so may become *)
(* contended, is one of the node, and a started script is for an object that exists. *)
LEMMA NodesTyped == NodesTypeOK /\ NodesShape /\ Owned /\ [NodesNext]_nodesVars => NodesTypeOK'
<1> SUFFICES ASSUME NodesTypeOK, NodesShape, Owned, [NodesNext]_nodesVars PROVE NodesTypeOK'
  OBVIOUS
<1> USE DEF UdevStates, NodeStates
<1>a. /\ uevents \in Seq(Uevents) /\ notices \in Seq(Notices)
      /\ "add" \in Uevents /\ "remove" \in Uevents
      /\ \A i \in Indices, b \in BOOLEAN : [index |-> i, linked |-> b] \in Notices
      /\ \A n \in Notices : n.index \in Indices
  BY DEF Uevents, Notices, NodesTypeOK
<1>b. inRange \subseteq AnyIndex /\ handlers \subseteq Indices /\ left \subseteq AnyIndex
  BY DEF NodesTypeOK
<1>c. thread \in [Threads -> UdevStates \cup NodeStates] /\ at \in [Threads -> AnyIndex \cup {0}]
  BY DEF NodesTypeOK
<1>d. made \in Seq(AnyIndex) /\ holds \in [Threads -> Objects \cup {0}]
  BY DEF NodesTypeOK
<1>e. contended \subseteq AnyIndex
  BY DEF NodesTypeOK
<1>f. /\ alive \subseteq 1 .. Len(made) /\ scripts \subseteq 1 .. Len(made)
      /\ failed \subseteq 1 .. Len(made) /\ orphans \subseteq 1 .. Len(made)
      /\ {calling, restarting} \subseteq 0 .. Len(made)
  BY DEF NodesTypeOK
<1>g. \A t \in Threads : holds[t] # 0 <=> thread[t] \in {"added", "emplace"}
  BY DEF NodesTypeOK
<1>1. ASSUME NEW b \in BOOLEAN, PlugNode(b) PROVE NodesTypeOK'
  <2>1. uevents' \in Seq(Uevents)
    <3>1. <<"add">> \in Seq(Uevents) /\ <<"add", "add">> \in Seq(Uevents)
      BY <1>a
    <3>2. uevents' \in {<<"add">>, <<"add", "add">>}
      BY <1>1 DEF PlugNode
    <3>3. QED
      BY <3>1, <3>2
  <2>2. links' \in 0 .. MaxLinks /\ plugged' \in BOOLEAN
    <3>1. links' = 1 /\ plugged' = TRUE
      BY <1>1 DEF PlugNode
    <3>2. QED
      BY <3>1, Bounds
  <2>3. QED
    BY <1>1, <2>1, <2>2 DEF PlugNode, Uevents, NodesTypeOK
<1>2. CASE UnplugNode
  <2>1. uevents' \in Seq(Uevents)
    BY <1>a, <1>2, Queueing DEF UnplugNode
  <2>2. links' \in 0 .. MaxLinks /\ plugged' \in BOOLEAN
    <3>1. links' = MaxLinks /\ plugged' = FALSE
      BY <1>2 DEF UnplugNode
    <3>2. QED
      BY <3>1, Bounds
  <2>3. QED
    BY <1>2, <2>1, <2>2 DEF UnplugNode, Uevents, NodesTypeOK
<1>3. ASSUME NEW i \in Indices, LinkChanges(i) PROVE NodesTypeOK'
  <2>1. notices' \in Seq(Notices)
    <3>1. [index |-> i, linked |-> i \notin inRange] \in Notices
      BY DEF Notices
    <3>2. notices' \in {notices, Append(notices, [index |-> i, linked |-> i \notin inRange])}
      BY <1>3 DEF LinkChanges
    <3>3. QED
      BY <1>a, <3>1, <3>2, Queueing
  <2>2. links' \in 0 .. MaxLinks
    <3>1. links < MaxLinks /\ links' = links + 1 /\ links \in 0 .. MaxLinks
      BY <1>3 DEF LinkChanges, NodesTypeOK
    <3>2. QED
      BY <3>1, Bounds
  <2>3. inRange' \subseteq AnyIndex
    BY <1>3, <1>b DEF LinkChanges, AnyIndex
  <2>4. QED
    BY <1>3, <2>1, <2>2, <2>3 DEF LinkChanges, Notices, NodesTypeOK
<1>4. CASE DestroyManager
  BY <1>4 DEF DestroyManager, NodesTypeOK
<1>5. CASE OpenNode
  <2>1. uevents' \in Seq(Uevents)
    BY <1>a, <1>5, Queueing DEF OpenNode
  <2>2. (node <=> thread["node"] # "none")'
    <3>1. CASE node \/ ~ plugged
      <4>1. UNCHANGED <<node, thread>> /\ (node <=> thread["node"] # "none")
        BY <1>5, <3>1 DEF OpenNode, NodesTypeOK
      <4>2. QED
        BY <4>1
    <3>2. CASE ~ (node \/ ~ plugged)
      <4>1. node' = TRUE /\ thread' = [thread EXCEPT !["udev"] = "probe", !["node"] = "run"]
        BY <1>5, <3>2 DEF OpenNode
      <4>2. thread'["node"] = "run"
        BY <1>c, <4>1
      <4>3. QED
        BY <4>1, <4>2
    <3>3. QED
      BY <3>1, <3>2
  <2>3. QED
    BY <1>5, <2>1, <2>2 DEF OpenNode, Uevents, NodesTypeOK
<1>6. CASE ProbeReceiver
  BY <1>6 DEF ProbeReceiver, AnyIndex, NodesTypeOK
<1>7. CASE NextIndex
  <2>1. left # {} => Min(left) \in left
    BY <1>b, LeastIndex, HIDPPNodesAssumption DEF AnyIndex
  <2>2. handlers' \subseteq Indices /\ left' \subseteq AnyIndex
    BY <1>7, <2>1, <1>b, <1>c DEF NextIndex
  <2>3. at' \in [Threads -> AnyIndex \cup {0}]
    BY <1>7, <2>1, <1>b, <1>c DEF NextIndex
  <2>4. QED
    BY <1>7, <2>2, <2>3 DEF NextIndex, NodesTypeOK
<1>8. CASE StopNode
  <2>1. uevents' \in Seq(Uevents)
    BY <1>a, <1>8, Queueing DEF StopNode
  <2>2. QED
    BY <1>8, <2>1 DEF StopNode, Uevents, NodesTypeOK
<1>9. CASE JoinNode
  <2>1. notices' \in Seq(Notices)
    <3>1. notices' = <<>>
      BY <1>9 DEF JoinNode
    <3>2. QED
      BY <3>1
  <2>2. QED
    BY <1>9, <2>1 DEF JoinNode, Notices, NodesTypeOK
<1>10. CASE DestroyDriver
  BY <1>10 DEF DestroyDriver, NodesTypeOK
<1>11. ASSUME NEW t \in Threads, ConstructDevice(t) PROVE NodesTypeOK'
  <2> DEFINE o == Len(made) + 1
  <2>1. at[t] \in AnyIndex
    BY <1>b, <1>11 DEF ConstructDevice, NodesShape, Busy, Works, AnyIndex
  <2>2. /\ Len(made) \in Nat /\ o \in Objects /\ o # 0
        /\ Append(made, at[t]) \in Seq(AnyIndex) /\ Len(Append(made, at[t])) = o
    <3>1. Len(made) < MaxObjects
      BY <1>11 DEF ConstructDevice
    <3>2. QED
      BY <1>d, <2>1, <3>1, Bounds DEF Objects
  <2>3. CASE Answers(at[t])
    <3>1. made' = Append(made, at[t]) /\ alive' = alive \cup {o} /\
            UNCHANGED <<scripts, failed, mainVars>>
      BY <1>11, <2>3 DEF ConstructDevice
    <3>2. holds' = [holds EXCEPT ![t] = o] /\ thread' = [thread EXCEPT ![t] = "added"]
      BY <1>11, <2>3 DEF ConstructDevice
    <3>3. /\ alive' \subseteq 1 .. Len(made') /\ scripts' \subseteq 1 .. Len(made')
          /\ failed' \subseteq 1 .. Len(made') /\ orphans' \subseteq 1 .. Len(made')
          /\ {calling, restarting}' \subseteq 0 .. Len(made')
      <4>1. Len(made') = Len(made) + 1
        BY <2>2, <3>1
      <4>2. /\ 1 .. Len(made) \subseteq 1 .. Len(made') /\ o \in 1 .. Len(made')
            /\ 0 .. Len(made) \subseteq 0 .. Len(made')
        BY <2>2, <4>1
      <4>3. QED
        BY <1>f, <3>1, <4>2
    <3>4. \A u \in Threads : holds'[u] # 0 <=> thread'[u] \in {"added", "emplace"}
      BY <1>c, <1>d, <1>g, <2>2, <3>2
    <3>5. contended' \subseteq AnyIndex
      BY <1>11, <2>1, <2>3, <1>e DEF ConstructDevice
    <3>6. /\ thread' \in [Threads -> UdevStates \cup NodeStates]
          /\ thread'["udev"] \in UdevStates /\ thread'["node"] \in NodeStates
          /\ thread'["node"] # "none" <=> thread["node"] # "none"
      BY <1>11, <1>c, <3>2 DEF ConstructDevice, NodesTypeOK
    <3>7. holds' \in [Threads -> Objects \cup {0}]
      BY <1>d, <2>2, <3>2
    <3>8. made' \in Seq(AnyIndex)
      BY <1>d, <2>2, <3>1
    <3>9. UNCHANGED <<kernelVars, queueVars, nodeVars, at, left, devices, mainVars>>
      BY <1>11 DEF ConstructDevice
    <3>10. QED
      BY <3>3, <3>4, <3>5, <3>6, <3>7, <3>8, <3>9 DEF NodesTypeOK
  <2>4. CASE ~ Answers(at[t])
    <3>1. UNCHANGED <<kernelVars, queueVars, nodeVars, at, holds, left, tableVars, mainVars,
            contended>>
      BY <1>11, <2>4 DEF ConstructDevice
    <3>2. thread' = [thread EXCEPT ![t] = IF t = "udev" THEN "next" ELSE "run"] /\
            thread[t] = "construct"
      BY <1>11, <2>4 DEF ConstructDevice, Done
    <3>3. QED
      BY <3>1, <3>2 DEF NodesTypeOK
  <2>5. QED
    BY <2>3, <2>4
<1>12. ASSUME NEW t \in Threads, DeviceAdded(t) PROVE NodesTypeOK'
  <2>1. holds[t] \in alive
    BY <1>12, <1>g DEF DeviceAdded, Owned
  <2>2. QED
    BY <1>12, <2>1 DEF DeviceAdded, NodesTypeOK
<1>13. ASSUME NEW t \in Threads, EmplaceDevice(t) PROVE NodesTypeOK'
  BY <1>13 DEF EmplaceDevice, Done, NodesTypeOK
<1>14. CASE ReadNotice
  <2>1. Head(notices) \in Notices /\ notices' \in Seq(Notices)
    BY <1>a, <1>14, Queueing DEF ReadNotice
  <2>2. Head(notices).index \in Indices
    BY <1>a, <2>1
  <2>3. contended' \subseteq AnyIndex
    BY <1>14, <2>2, <1>c, <1>e DEF ReadNotice, AnyIndex
  <2>4. at' \in [Threads -> AnyIndex \cup {0}]
    BY <1>14, <2>2, <1>c, <1>e DEF ReadNotice, AnyIndex
  <2>5. /\ thread' \in [Threads -> UdevStates \cup NodeStates]
        /\ thread'["udev"] = thread["udev"] /\ thread'["node"] \in {"run", "construct", "unload"}
        /\ thread["node"] = "run"
    BY <1>14, <1>c DEF ReadNotice
  <2>6. UNCHANGED <<kernelVars, uevents, nodeVars, holds, left, tableVars, mainVars>>
    BY <1>14 DEF ReadNotice
  <2>7. QED
    BY <2>1, <2>3, <2>4, <2>5, <2>6 DEF Notices, NodesTypeOK
<1>15. CASE UnloadDevice
  BY <1>15 DEF UnloadDevice, NodesTypeOK
<1>16. CASE EraseDevice
  BY <1>16 DEF EraseDevice, NodesTypeOK
<1>17. CASE EndRun
  <2>1. contended' \subseteq AnyIndex
    BY <1>17, <1>b, <1>e, <1>g DEF EndRun, NodesShape, Busy
  <2>2. QED
    BY <1>17, <2>1 DEF EndRun, NodesTypeOK
<1>18. CASE UnloadAll
  BY <1>18 DEF UnloadAll, NodesTypeOK
<1>19. CASE ClearDevices
  BY <1>19 DEF ClearDevices, NodesTypeOK
<1>20. ASSUME NEW o \in scripts, DeviceEvent(o) PROVE NodesTypeOK'
  <2>1. calling' \in 0 .. Len(made)
    BY <1>20, <1>f DEF DeviceEvent
  <2>2. /\ thread["node"] = "run" /\ thread' = [thread EXCEPT !["node"] = "blocked"]
        /\ UNCHANGED <<kernelVars, queueVars, nodeVars, at, holds, left, tableVars, restarting,
                       orphans, managed, contended>>
    BY <1>20 DEF DeviceEvent
  <2>3. QED
    BY <2>1, <2>2 DEF NodesTypeOK
<1>21. CASE Serve
  <2>1. calling' \in 0 .. Len(made)
    BY <1>21, <1>d DEF Serve
  <2>2. /\ thread["node"] = "blocked" /\ thread' = [thread EXCEPT !["node"] = "run"]
        /\ UNCHANGED <<kernelVars, queueVars, nodeVars, at, holds, left, tableVars, restarting,
                       orphans, managed, contended>>
    BY <1>21 DEF Serve
  <2>3. QED
    BY <2>1, <2>2 DEF NodesTypeOK
<1>22. ASSUME NEW o \in scripts, SetFileStop(o) PROVE NodesTypeOK'
  <2>1. restarting' \in 0 .. Len(made) /\ failed' \subseteq 1 .. Len(made)
    BY <1>22, <1>f DEF SetFileStop
  <2>2. UNCHANGED <<kernelVars, queueVars, nodeVars, threadVars, devices, made, alive, scripts,
                    calling, orphans, managed, contended>>
    BY <1>22 DEF SetFileStop
  <2>3. QED
    BY <2>1, <2>2 DEF NodesTypeOK
<1>23. CASE SetFileStart
  <2>1. /\ restarting' = 0 /\ restarting \in 1 .. Len(made)
        /\ failed' \subseteq failed \cup {restarting}
        /\ orphans' \subseteq orphans \cup {restarting}
    BY <1>23, <1>d, <1>f DEF SetFileStart
  <2>2. restarting' \in 0 .. Len(made)
    BY <2>1, <1>d
  <2>3. failed' \subseteq 1 .. Len(made) /\ orphans' \subseteq 1 .. Len(made)
    BY <2>1, <1>f
  <2>4. UNCHANGED <<kernelVars, queueVars, nodeVars, threadVars, devices, made, alive, scripts,
                    calling, managed, contended>>
    BY <1>23 DEF SetFileStart
  <2>5. QED
    BY <2>2, <2>3, <2>4 DEF NodesTypeOK
<1>24. CASE LeaveManager
  BY <1>24, <1>c DEF LeaveManager, NodesTypeOK
<1>25. ASSUME NEW o \in scripts, StopScript(o) PROVE NodesTypeOK'
  BY <1>25, <1>c DEF StopScript, NodesTypeOK
<1>26. CASE UNCHANGED nodesVars
  BY <1>26 DEF NodesTypeOK
<1>27. QED
  BY <1>1, <1>2, <1>3, <1>4, <1>5, <1>6, <1>7, <1>8, <1>9, <1>10, <1>11, <1>12, <1>13, <1>14,
     <1>15, <1>16, <1>17, <1>18, <1>19, <1>20, <1>21, <1>22, <1>23, <1>24,
     <1>25, <1>26 DEF NodesNext, UdevStep, NodeStep
(* A new object is numbered after the ones there were, which keep theirs. *)
LEMMA NewObject ==
  ASSUME NEW m \in Seq(AnyIndex), NEW i \in AnyIndex
  PROVE  /\ Append(m, i) \in Seq(AnyIndex) /\ Len(m) \in Nat
         /\ Len(Append(m, i)) = Len(m) + 1
         /\ \A o \in 1 .. Len(m) : Append(m, i)[o] = m[o] /\ m[o] \in AnyIndex
         /\ Append(m, i)[Len(m) + 1] = i
OBVIOUS

(* Each step keeps the shape: one case per action, two where a thread tests. *)
LEMMA NodesShaped ==
  NodesShape /\ NodesTypeOK /\ [NodesNext]_nodesVars => NodesShape'
<1> SUFFICES ASSUME NodesShape, NodesTypeOK, [NodesNext]_nodesVars PROVE NodesShape'
  OBVIOUS
<1> USE DEF UdevStates, NodeStates, Busy, Works, All, AnyIndex
<1>a. /\ thread \in [Threads -> UdevStates \cup NodeStates] /\
           at \in [Threads -> AnyIndex \cup {0}]
      /\ thread["udev"] \in UdevStates /\ thread["node"] \in NodeStates
  BY DEF NodesTypeOK
<1>b. handlers \subseteq Indices /\ left \subseteq AnyIndex /\ inRange \subseteq AnyIndex
  BY DEF NodesTypeOK
<1>c. \A t \in Threads : holds[t] # 0 <=> thread[t] \in {"added", "emplace"}
  BY DEF NodesTypeOK
<1>d. devices \in [AnyIndex -> Objects \cup {0}]
  BY DEF NodesTypeOK
<1>1. ASSUME NEW b \in BOOLEAN, PlugNode(b) PROVE NodesShape'
  BY <1>1, <1>a, <1>b, <1>c, <1>d DEF PlugNode, NodesShape
<1>2. CASE UnplugNode
  <2>1. links' # 0 /\ plugged' = FALSE
    BY <1>2, Bounds DEF UnplugNode
  <2>2. QED
    BY <1>2, <2>1, <1>a DEF UnplugNode, NodesShape
<1>3. ASSUME NEW i \in Indices, LinkChanges(i) PROVE NodesShape'
  BY <1>3, <1>a, <1>b, <1>c, <1>d DEF LinkChanges, NodesShape
<1>4. CASE DestroyManager
  BY <1>4, <1>a, <1>b, <1>c, <1>d DEF DestroyManager, NodesShape
<1>5. CASE OpenNode
  <2>1. CASE UNCHANGED <<node, stopping, thread>>
    BY <1>5, <2>1 DEF OpenNode, NodesShape
  <2>2. CASE ~ node /\ plugged
    <3>1. thread["node"] = "none" /\ thread["udev"] = "idle"
      BY <1>5, <2>2 DEF OpenNode, NodesTypeOK
    <3>2. thread'["udev"] = "probe" /\ thread'["node"] = "run"
      BY <1>5, <2>2, <1>a DEF OpenNode
    <3>3. QED
      BY <1>5, <2>2, <3>1, <3>2 DEF OpenNode, NodesShape
  <2>3. QED
    BY <1>5, <2>1, <2>2 DEF OpenNode
<1>6. CASE ProbeReceiver
  BY <1>6, <1>a, <1>b, <1>c, <1>d DEF ProbeReceiver, NodesShape
<1>7. CASE NextIndex
  <2>1. CASE left = {}
    <3>1. thread'["udev"] = "idle" /\ thread'["node"] = thread["node"]
      BY <1>7, <2>1, <1>a DEF NextIndex
    <3>2. QED
      BY <1>7, <2>1, <3>1 DEF NextIndex, NodesShape
  <2>2. CASE left # {}
    <3>1. PICK i \in left : i = Min(left)
      BY <2>2, <1>b, LeastIndex, HIDPPNodesAssumption DEF AnyIndex
    <3>2. thread["udev"] = "next" /\ thread'["udev"] = "construct" /\
            thread'["node"] = thread["node"]
      BY <1>7, <2>2, <1>a DEF NextIndex
    <3>3. at'["udev"] = i /\ at'["node"] = at["node"] /\ left' = left \ {i}
      BY <1>7, <2>2, <3>1, <1>a DEF NextIndex
    <3>4. handlers' = IF i \in Indices THEN handlers \cup {i} ELSE handlers
      BY <1>7, <2>2, <3>1 DEF NextIndex
    <3>5. UNCHANGED <<kernelVars, queueVars, devices, managed>>
      BY <1>7 DEF NextIndex
    <3>6. QED
      BY <1>b, <3>2, <3>3, <3>4, <3>5 DEF NodesShape
  <2>3. QED
    BY <2>1, <2>2
<1>8. CASE StopNode
  <2>1. /\ thread["udev"] = "idle" /\ thread'["node"] = thread["node"]
        /\ thread'["udev"] = "idle" \/ (thread'["udev"] = "join" /\ thread["node"] # "none")
    BY <1>8, <1>a DEF StopNode, NodesTypeOK
  <2>2. UNCHANGED <<kernelVars, notices, handlers, at, left, devices, managed>>
    BY <1>8 DEF StopNode
  <2>3. QED
    BY <2>1, <2>2 DEF NodesShape
<1>9. CASE JoinNode
  BY <1>9, <1>a, <1>b, <1>c, <1>d DEF JoinNode, NodesShape
<1>10. CASE DestroyDriver
  <2>1. /\ thread["udev"] = "statics" /\ thread'["node"] = thread["node"]
        /\ \/ thread'["udev"] = "ended" /\ thread["node"] = "none"
           \/ thread'["udev"] = "join last" /\ thread["node"] # "none"
    BY <1>10, <1>a DEF DestroyDriver, NodesTypeOK
  <2>2. UNCHANGED <<kernelVars, notices, handlers, at, left, devices, managed>>
    BY <1>10 DEF DestroyDriver
  <2>3. QED
    BY <2>1, <2>2 DEF NodesShape
<1>11. ASSUME NEW t \in Threads, ConstructDevice(t) PROVE NodesShape'
  <2>1. /\ thread[t] = "construct" /\ thread'[t] \in {"added", IF t = "udev" THEN "next"
             ELSE "run"}
        /\ \A u \in Threads \ {t} : thread'[u] = thread[u]
    BY <1>11, <1>a DEF ConstructDevice, Done
  <2>2. UNCHANGED <<kernelVars, queueVars, handlers, at, left, devices, managed>>
    BY <1>11 DEF ConstructDevice
  <2>3. CASE t = "udev"
    BY <2>1, <2>2, <2>3 DEF NodesShape
  <2>4. CASE t = "node"
    BY <2>1, <2>2, <2>4 DEF NodesShape
  <2>5. QED
    BY <2>3, <2>4
<1>12. ASSUME NEW t \in Threads, DeviceAdded(t) PROVE NodesShape'
  BY <1>12, <1>a, <1>b, <1>c, <1>d DEF DeviceAdded, NodesShape
<1>13. ASSUME NEW t \in Threads, EmplaceDevice(t) PROVE NodesShape'
  <2>1. /\ thread[t] = "emplace" /\ thread'[t] = IF t = "udev" THEN "next" ELSE "run"
        /\ \A u \in Threads \ {t} : thread'[u] = thread[u]
    BY <1>13, <1>a DEF EmplaceDevice, Done
  <2>2. UNCHANGED <<kernelVars, queueVars, handlers, at, left, managed>>
    BY <1>13 DEF EmplaceDevice
  <2>3. at[t] \notin left /\ \A i \in AnyIndex \ {at[t]} : devices'[i] = devices[i]
    BY <1>13, <1>d, <2>1 DEF EmplaceDevice, NodesShape
  <2>4. CASE t = "udev"
    BY <1>b, <2>1, <2>2, <2>3, <2>4 DEF NodesShape
  <2>5. CASE t = "node"
    BY <1>b, <2>1, <2>2, <2>3, <2>5 DEF NodesShape
  <2>6. QED
    BY <2>4, <2>5
<1>14. CASE ReadNotice
  BY <1>14, <1>a, <1>b, <1>c, <1>d DEF ReadNotice, NodesShape
<1>15. CASE UnloadDevice
  BY <1>15, <1>a, <1>b, <1>c, <1>d DEF UnloadDevice, NodesShape
<1>16. CASE EraseDevice
  BY <1>16, <1>a, <1>b, <1>c, <1>d DEF EraseDevice, NodesShape
<1>17. CASE EndRun
  BY <1>17, <1>a, <1>b, <1>c, <1>d DEF EndRun, NodesShape
<1>18. CASE UnloadAll
  BY <1>18, <1>a, <1>b, <1>c, <1>d DEF UnloadAll, NodesShape
<1>19. CASE ClearDevices
  BY <1>19, <1>a, <1>b, <1>c, <1>d DEF ClearDevices, NodesShape
<1>20. ASSUME NEW o \in scripts, DeviceEvent(o) PROVE NodesShape'
  BY <1>20, <1>a, <1>b, <1>c, <1>d DEF DeviceEvent, NodesShape
<1>21. CASE Serve
  BY <1>21, <1>a, <1>b, <1>c, <1>d DEF Serve, NodesShape
<1>22. ASSUME NEW o \in scripts, SetFileStop(o) PROVE NodesShape'
  BY <1>22, <1>a, <1>b, <1>c, <1>d DEF SetFileStop, NodesShape
<1>23. CASE SetFileStart
  BY <1>23, <1>a, <1>b, <1>c, <1>d DEF SetFileStart, NodesShape
<1>24. CASE LeaveManager
  BY <1>24, <1>a, <1>b, <1>c, <1>d DEF LeaveManager, NodesShape
<1>25. ASSUME NEW o \in scripts, StopScript(o) PROVE NodesShape'
  BY <1>25, <1>a, <1>b, <1>c, <1>d DEF StopScript, NodesShape
<1>26. CASE UNCHANGED nodesVars
  BY <1>26 DEF NodesShape
<1>27. QED
  BY <1>1, <1>2, <1>3, <1>4, <1>5, <1>6, <1>7, <1>8, <1>9, <1>10, <1>11, <1>12, <1>13, <1>14,
     <1>15, <1>16, <1>17, <1>18, <1>19, <1>20, <1>21, <1>22, <1>23, <1>24,
     <1>25, <1>26
  DEF NodesNext, UdevStep, NodeStep

(* Objects move from a thread to the table, or go. *)
LEMMA NodesOwned ==
  Owned /\ NodesTypeOK /\ NodesShape /\ [NodesNext]_nodesVars => Owned'
<1> SUFFICES ASSUME Owned, NodesTypeOK, NodesShape, [NodesNext]_nodesVars PROVE Owned'
  OBVIOUS
<1> USE DEF UdevStates, NodeStates, Busy, Works
<1>a. /\ thread \in [Threads -> UdevStates \cup NodeStates] /\
           at \in [Threads -> AnyIndex \cup {0}]
      /\ thread["udev"] \in UdevStates /\ thread["node"] \in NodeStates
  BY DEF NodesTypeOK
<1>b. handlers \subseteq Indices /\ left \subseteq AnyIndex /\ inRange \subseteq AnyIndex
  BY DEF NodesTypeOK
<1>c. \A t \in Threads : holds[t] # 0 <=> thread[t] \in {"added", "emplace"}
  BY DEF NodesTypeOK
<1>d. devices \in [AnyIndex -> Objects \cup {0}]
  BY DEF NodesTypeOK
<1>e. made \in Seq(AnyIndex) /\ holds \in [Threads -> Objects \cup {0}] /\
        alive \subseteq 1 .. Len(made)
  BY DEF NodesTypeOK
<1>f. \A o \in 1 .. Len(made) : made[o] \in AnyIndex /\ o # 0
  BY <1>e
<1>g. \A t \in Threads : thread[t] \in Works => at[t] \in AnyIndex
  BY <1>a, <1>b DEF NodesShape, AnyIndex
<1>1. ASSUME NEW b \in BOOLEAN, PlugNode(b) PROVE Owned'
  BY <1>1, <1>a, <1>c DEF PlugNode, Owned
<1>2. CASE UnplugNode
  BY <1>2, <1>a, <1>c DEF UnplugNode, Owned
<1>3. ASSUME NEW i \in Indices, LinkChanges(i) PROVE Owned'
  BY <1>3, <1>a, <1>c DEF LinkChanges, Owned
<1>4. CASE DestroyManager
  BY <1>4, <1>a, <1>c DEF DestroyManager, Owned
<1>5. CASE OpenNode
  BY <1>5, <1>a, <1>c DEF OpenNode, Owned
<1>6. CASE ProbeReceiver
  BY <1>6, <1>a, <1>c DEF ProbeReceiver, Owned
<1>7. CASE NextIndex
  <2>1. holds["udev"] = 0 /\ at'["node"] = at["node"]
    BY <1>7, <1>a, <1>c DEF NextIndex
  <2>2. UNCHANGED <<tableVars, holds>>
    BY <1>7 DEF NextIndex
  <2>3. QED
    BY <2>1, <2>2 DEF Owned
<1>8. CASE StopNode
  BY <1>8, <1>a, <1>c DEF StopNode, Owned
<1>9. CASE JoinNode
  <2>1. alive' = alive \ {devices[i] : i \in AnyIndex} /\ \A i \in AnyIndex : devices'[i] = 0
    BY <1>9 DEF JoinNode
  <2>2. UNCHANGED <<made, holds, at>>
    BY <1>9 DEF JoinNode
  <2>3. \A o \in alive' : o \in alive /\ made[o] \in AnyIndex /\ o # devices[made[o]]
    BY <1>e, <1>f, <2>1
  <2>4. \A t \in Threads : holds[t] # 0 => holds[t] \in alive'
    BY <1>e, <2>1 DEF Owned
  <2>5. \A t \in Threads, i \in AnyIndex : holds[t] # 0 => devices'[i] # holds[t]
    BY <2>1
  <2>6. QED
    BY <2>1, <2>2, <2>3, <2>4, <2>5 DEF Owned
<1>10. CASE DestroyDriver
  BY <1>10, <1>a, <1>c DEF DestroyDriver, Owned
<1>11. ASSUME NEW t \in Threads, ConstructDevice(t) PROVE Owned'
  <2> DEFINE o == Len(made) + 1
  <2>1. at[t] \in AnyIndex
    BY <1>11, <1>g DEF ConstructDevice
  <2>2. holds[t] = 0
    BY <1>11, <1>c DEF ConstructDevice
  <2>3. CASE Answers(at[t])
    <3>1. made' = Append(made, at[t]) /\ alive' = alive \cup {o} /\
            holds' = [holds EXCEPT ![t] = o]
      BY <1>11, <2>3 DEF ConstructDevice
    <3>2. UNCHANGED <<at, devices>>
      BY <1>11 DEF ConstructDevice
    <3>3. made'[o] = at[t] /\ o \notin alive /\ o # 0 /\ \A x \in alive : made'[x] = made[x]
      BY <1>e, <2>1, <3>1, NewObject
    <3>4. \A i \in AnyIndex : devices[i] # o
      BY <3>3 DEF Owned
    <3>5. holds'[t] = o /\ \A u \in Threads \ {t} : holds'[u] = holds[u] /\ holds[u] # o
      BY <1>e, <3>1, <3>3 DEF Owned
    <3>6. \A i \in AnyIndex : devices[i] # 0 => devices[i] \in alive' /\ made'[devices[i]] = i
      BY <3>1, <3>3 DEF Owned
    <3>7. \A u \in Threads : holds'[u] # 0 =>
            /\ holds'[u] \in alive' /\ made'[holds'[u]] = at[u]
            /\ \A i \in AnyIndex : devices[i] # holds'[u]
      <4>1. holds'[t] \in alive' /\ made'[holds'[t]] = at[t] /\
              \A i \in AnyIndex : devices[i] # holds'[t]
        BY <3>1, <3>3, <3>4, <3>5
      <4>2. ASSUME NEW u \in Threads \ {t}, holds'[u] # 0
            PROVE  /\ holds'[u] \in alive' /\ made'[holds'[u]] = at[u]
                   /\ \A i \in AnyIndex : devices[i] # holds'[u]
        <5>1. holds'[u] = holds[u] /\ holds[u] \in alive /\ made[holds[u]] = at[u]
          BY <3>5, <4>2 DEF Owned
        <5>2. \A i \in AnyIndex : devices[i] # holds[u]
          BY <4>2, <5>1 DEF Owned
        <5>3. holds[u] \in alive' /\ made'[holds[u]] = at[u]
          BY <3>1, <3>3, <5>1
        <5>4. QED
          BY <5>1, <5>2, <5>3
      <4>3. QED
        BY <4>1, <4>2
    <3>8. \A x \in alive' : x = devices[made'[x]] \/ \E u \in Threads : holds'[u] = x
      BY <1>e, <1>f, <2>2, <3>1, <3>3, <3>5 DEF Owned
    <3>9. holds'["udev"] # 0 => holds'["udev"] # holds'["node"]
      BY <3>3, <3>5 DEF Owned
    <3>10. QED
      BY <3>2, <3>6, <3>7, <3>8, <3>9 DEF Owned
  <2>4. CASE ~ Answers(at[t])
    BY <1>11, <2>4 DEF ConstructDevice, Owned
  <2>5. QED
    BY <2>3, <2>4
<1>12. ASSUME NEW t \in Threads, DeviceAdded(t) PROVE Owned'
  BY <1>12, <1>a, <1>c DEF DeviceAdded, Owned
<1>13. ASSUME NEW t \in Threads, EmplaceDevice(t) PROVE Owned'
  <2> DEFINE o == holds[t]
  <2>1. at[t] \in AnyIndex /\ o # 0 /\ o \in alive /\ made[o] = at[t]
    BY <1>13, <1>c, <1>g DEF EmplaceDevice, Owned
  <2>2. UNCHANGED <<made, at>>
    BY <1>13 DEF EmplaceDevice
  <2>3. holds'[t] = 0 /\ \A u \in Threads \ {t} : holds'[u] = holds[u] /\ holds[u] # o
    BY <1>13, <1>e, <2>1 DEF EmplaceDevice, Owned
  <2>4. CASE devices[at[t]] = 0
    <3>1. alive' = alive /\ devices'[at[t]] = o /\
            \A i \in AnyIndex \ {at[t]} : devices'[i] = devices[i]
      BY <1>13, <1>d, <2>1, <2>4 DEF EmplaceDevice
    <3>2. \A x \in alive : x = devices'[made[x]] \/ \E u \in Threads : holds'[u] = x
      BY <1>e, <1>f, <2>1, <2>3, <2>4, <3>1 DEF Owned
    <3>3. QED
      BY <2>1, <2>2, <2>3, <3>1, <3>2 DEF Owned
  <2>5. CASE devices[at[t]] # 0
    <3>1. alive' = alive \ {o} /\ devices' = devices
      BY <1>13, <2>5 DEF EmplaceDevice
    <3>2. \A i \in AnyIndex : devices[i] # o
      BY <2>1 DEF Owned
    <3>3. \A x \in alive' : x = devices[made[x]] \/ \E u \in Threads : holds'[u] = x
      BY <2>3, <3>1 DEF Owned
    <3>4. QED
      BY <2>1, <2>2, <2>3, <3>1, <3>2, <3>3 DEF Owned
  <2>6. QED
    BY <2>4, <2>5
<1>14. CASE ReadNotice
  <2>1. holds["node"] = 0 /\ at'["udev"] = at["udev"]
    BY <1>14, <1>a, <1>c DEF ReadNotice
  <2>2. UNCHANGED <<tableVars, holds>>
    BY <1>14 DEF ReadNotice
  <2>3. QED
    BY <2>1, <2>2 DEF Owned
<1>15. CASE UnloadDevice
  BY <1>15, <1>a, <1>c DEF UnloadDevice, Owned
<1>16. CASE EraseDevice
  <2> DEFINE i == at["node"]
  <2>1. i \in AnyIndex /\ holds["node"] = 0
    BY <1>16, <1>c, <1>g DEF EraseDevice
  <2>2. alive' = alive \ {devices[i]} /\ UNCHANGED <<made, holds, at>>
    BY <1>16 DEF EraseDevice
  <2>3. devices'[i] = 0 /\ \A j \in AnyIndex \ {i} : devices'[j] = devices[j]
    BY <1>16, <1>d, <2>1 DEF EraseDevice
  <2>4. \A j \in AnyIndex : devices'[j] # 0 => devices'[j] \in alive' /\ made[devices'[j]] = j
    BY <2>1, <2>2, <2>3 DEF Owned
  <2>5. \A t \in Threads : holds[t] # 0 => holds[t] \in alive' /\
          \A j \in AnyIndex : devices'[j] # holds[t]
    BY <2>1, <2>2, <2>3 DEF Owned
  <2>6. \A o \in alive' : o = devices'[made[o]] \/ \E t \in Threads : holds[t] = o
    BY <1>e, <1>f, <2>1, <2>2, <2>3 DEF Owned
  <2>7. QED
    BY <2>2, <2>4, <2>5, <2>6 DEF Owned
<1>17. CASE EndRun
  BY <1>17, <1>a, <1>c DEF EndRun, Owned
<1>18. CASE UnloadAll
  BY <1>18, <1>a, <1>c DEF UnloadAll, Owned
<1>19. CASE ClearDevices
  <2>1. alive' = alive \ {devices[i] : i \in AnyIndex} /\ \A i \in AnyIndex : devices'[i] = 0
    BY <1>19 DEF ClearDevices
  <2>2. UNCHANGED <<made, holds, at>>
    BY <1>19 DEF ClearDevices
  <2>3. \A o \in alive' : o \in alive /\ made[o] \in AnyIndex /\ o # devices[made[o]]
    BY <1>e, <1>f, <2>1
  <2>4. \A t \in Threads : holds[t] # 0 => holds[t] \in alive'
    BY <1>e, <2>1 DEF Owned
  <2>5. \A t \in Threads, i \in AnyIndex : holds[t] # 0 => devices'[i] # holds[t]
    BY <2>1
  <2>6. QED
    BY <2>1, <2>2, <2>3, <2>4, <2>5 DEF Owned
<1>20. ASSUME NEW o \in scripts, DeviceEvent(o) PROVE Owned'
  BY <1>20, <1>a, <1>c DEF DeviceEvent, Owned
<1>21. CASE Serve
  BY <1>21, <1>a, <1>c DEF Serve, Owned
<1>22. ASSUME NEW o \in scripts, SetFileStop(o) PROVE Owned'
  BY <1>22, <1>a, <1>c DEF SetFileStop, Owned
<1>23. CASE SetFileStart
  BY <1>23, <1>a, <1>c DEF SetFileStart, Owned
<1>24. CASE LeaveManager
  BY <1>24, <1>a, <1>c DEF LeaveManager, Owned
<1>25. ASSUME NEW o \in scripts, StopScript(o) PROVE Owned'
  BY <1>25, <1>a, <1>c DEF StopScript, Owned
<1>26. CASE UNCHANGED nodesVars
  BY <1>26 DEF Owned
<1>27. QED
  BY <1>1, <1>2, <1>3, <1>4, <1>5, <1>6, <1>7, <1>8, <1>9, <1>10, <1>11, <1>12, <1>13, <1>14,
     <1>15, <1>16, <1>17, <1>18, <1>19, <1>20, <1>21, <1>22, <1>23, <1>24,
     <1>25, <1>26
  DEF NodesNext, UdevStep, NodeStep

(* A second thread that comes to an index is noted when it comes. *)
LEMMA NodesDisputed ==
  Disputed /\ NodesTypeOK /\ NodesShape /\ [NodesNext]_nodesVars => Disputed'
<1> SUFFICES ASSUME Disputed, NodesTypeOK, NodesShape, [NodesNext]_nodesVars PROVE Disputed'
  OBVIOUS
<1> USE DEF UdevStates, NodeStates, Busy, Works
<1>a. /\ thread \in [Threads -> UdevStates \cup NodeStates] /\
           at \in [Threads -> AnyIndex \cup {0}]
      /\ thread["udev"] \in UdevStates /\ thread["node"] \in NodeStates
  BY DEF NodesTypeOK
<1>b. handlers \subseteq Indices /\ left \subseteq AnyIndex /\ inRange \subseteq AnyIndex
  BY DEF NodesTypeOK
<1>c. \A t \in Threads : holds[t] # 0 <=> thread[t] \in {"added", "emplace"}
  BY DEF NodesTypeOK
<1>d. devices \in [AnyIndex -> Objects \cup {0}]
  BY DEF NodesTypeOK
<1>e. made \in Seq(AnyIndex) /\ holds \in [Threads -> Objects \cup {0}] /\
        alive \subseteq 1 .. Len(made)
  BY DEF NodesTypeOK
<1>g. \A t \in Threads : thread[t] \in Works => at[t] \in AnyIndex
  BY <1>a, <1>b DEF NodesShape, AnyIndex
<1>1. ASSUME NEW b \in BOOLEAN, PlugNode(b) PROVE Disputed'
  BY <1>1, <1>a, <1>c DEF PlugNode, Disputed
<1>2. CASE UnplugNode
  BY <1>2, <1>a, <1>c DEF UnplugNode, Disputed
<1>3. ASSUME NEW i \in Indices, LinkChanges(i) PROVE Disputed'
  BY <1>3, <1>a, <1>c DEF LinkChanges, Disputed
<1>4. CASE DestroyManager
  BY <1>4, <1>a, <1>c DEF DestroyManager, Disputed
<1>5. CASE OpenNode
  BY <1>5, <1>a, <1>c DEF OpenNode, Disputed
<1>6. CASE ProbeReceiver
  BY <1>6, <1>a, <1>c DEF ProbeReceiver, Disputed
<1>7. CASE NextIndex
  BY <1>7, <1>a, <1>c DEF NextIndex, Disputed
<1>8. CASE StopNode
  BY <1>8, <1>a, <1>c DEF StopNode, Disputed
<1>9. CASE JoinNode
  BY <1>9, <1>a, <1>c DEF JoinNode, Disputed
<1>10. CASE DestroyDriver
  BY <1>10, <1>a, <1>c DEF DestroyDriver, Disputed
<1>11. ASSUME NEW t \in Threads, ConstructDevice(t) PROVE Disputed'
  <2>1. CASE Answers(at[t])
    <3>1. /\ thread'[t] = "added" /\ thread["node"] \notin {"unload all", "clear", "ended"}
          /\ \A u \in Threads \ {t} : thread'[u] = thread[u] /\ holds'[u] = holds[u]
      BY <1>11, <1>a, <1>e, <2>1 DEF ConstructDevice, Answers
    <3>2. contended' = IF devices[at[t]] # 0 \/ \E u \in Threads \ {t} : holds[u] # 0 /\
            at[u] = at[t]
                       THEN contended \cup {at[t]} ELSE contended
      BY <1>11, <2>1 DEF ConstructDevice
    <3>3. UNCHANGED <<at, devices>>
      BY <1>11 DEF ConstructDevice
    <3>4. CASE t = "udev"
      BY <3>1, <3>2, <3>3, <3>4 DEF Disputed
    <3>5. CASE t = "node"
      BY <3>1, <3>2, <3>3, <3>5 DEF Disputed
    <3>6. QED
      BY <3>4, <3>5
  <2>2. CASE ~ Answers(at[t])
    <3>1. /\ thread[t] = "construct" /\ thread'[t] \in {"next", "run"}
          /\ \A u \in Threads \ {t} : thread'[u] = thread[u]
      BY <1>11, <1>a, <2>2 DEF ConstructDevice, Done
    <3>2. UNCHANGED <<at, devices, holds, contended>>
      BY <1>11, <2>2 DEF ConstructDevice
    <3>3. QED
      BY <3>1, <3>2 DEF Disputed
  <2>3. QED
    BY <2>1, <2>2
<1>12. ASSUME NEW t \in Threads, DeviceAdded(t) PROVE Disputed'
  BY <1>12, <1>a, <1>c DEF DeviceAdded, Disputed
<1>13. ASSUME NEW t \in Threads, EmplaceDevice(t) PROVE Disputed'
  <2>1. /\ thread[t] = "emplace" /\ thread'[t] = IF t = "udev" THEN "next" ELSE "run"
        /\ \A u \in Threads \ {t} : thread'[u] = thread[u] /\ holds'[u] = holds[u]
        /\ holds[t] # 0 /\ holds'[t] = 0
    BY <1>13, <1>a, <1>c, <1>e DEF EmplaceDevice, Done
  <2>2. \/ devices' = devices
        \/ /\ devices[at[t]] = 0 /\ devices'[at[t]] = holds[t]
           /\ \A i \in AnyIndex \ {at[t]} : devices'[i] = devices[i]
    BY <1>13, <1>d, <1>g DEF EmplaceDevice
  <2>3. UNCHANGED <<at, contended>>
    BY <1>13 DEF EmplaceDevice
  <2>4. \A u \in Threads : holds[u] # 0 => at[u] \in AnyIndex
    BY <1>c, <1>g
  <2>5. ASSUME NEW u \in Threads \ {t}, holds[u] # 0, devices'[at[u]] # 0
               PROVE at[u] \in contended
    <3>1. CASE devices[at[u]] # 0
      BY <2>5, <3>1 DEF Disputed
    <3>2. CASE devices[at[u]] = 0
      <4>1. at[u] = at[t]
        BY <2>2, <2>4, <2>5, <3>2
      <4>2. QED
        BY <2>1, <2>5, <4>1 DEF Disputed
    <3>3. QED
      BY <3>1, <3>2
  <2>6. holds'["udev"] # 0 => thread'["node"] \in {thread["node"], "run"} /\ holds["udev"] # 0
    BY <2>1
  <2>7. \A u \in Threads : holds'[u] # 0 /\ devices'[at[u]] # 0 => at[u] \in contended
    BY <2>1, <2>5
  <2>8. holds'["udev"] = 0 \/ holds'["node"] = 0
    BY <2>1
  <2>9. QED
    BY <2>3, <2>6, <2>7, <2>8 DEF Disputed
<1>14. CASE ReadNotice
  BY <1>14, <1>a, <1>c DEF ReadNotice, Disputed
<1>15. CASE UnloadDevice
  BY <1>15, <1>a, <1>c DEF UnloadDevice, Disputed
<1>16. CASE EraseDevice
  <2>1. \A i \in AnyIndex : devices'[i] # 0 => devices'[i] = devices[i]
    BY <1>16, <1>d, <1>g DEF EraseDevice
  <2>2. \A u \in Threads : holds[u] # 0 => at[u] \in AnyIndex
    BY <1>c, <1>g
  <2>3. thread["node"] = "erase" /\ thread'["node"] = "run" /\ UNCHANGED <<at, holds, contended>>
    BY <1>16, <1>a DEF EraseDevice
  <2>4. QED
    BY <2>1, <2>2, <2>3 DEF Disputed
<1>17. CASE EndRun
  BY <1>17, <1>a, <1>c DEF EndRun, Disputed
<1>18. CASE UnloadAll
  BY <1>18, <1>a, <1>c DEF UnloadAll, Disputed
<1>19. CASE ClearDevices
  BY <1>19, <1>a, <1>c DEF ClearDevices, Disputed
<1>20. ASSUME NEW o \in scripts, DeviceEvent(o) PROVE Disputed'
  BY <1>20, <1>a, <1>c DEF DeviceEvent, Disputed
<1>21. CASE Serve
  BY <1>21, <1>a, <1>c DEF Serve, Disputed
<1>22. ASSUME NEW o \in scripts, SetFileStop(o) PROVE Disputed'
  BY <1>22, <1>a, <1>c DEF SetFileStop, Disputed
<1>23. CASE SetFileStart
  BY <1>23, <1>a, <1>c DEF SetFileStart, Disputed
<1>24. CASE LeaveManager
  BY <1>24, <1>a, <1>c DEF LeaveManager, Disputed
<1>25. ASSUME NEW o \in scripts, StopScript(o) PROVE Disputed'
  BY <1>25, <1>a, <1>c DEF StopScript, Disputed
<1>26. CASE UNCHANGED nodesVars
  BY <1>26 DEF Disputed
<1>27. QED
  BY <1>1, <1>2, <1>3, <1>4, <1>5, <1>6, <1>7, <1>8, <1>9, <1>10, <1>11, <1>12, <1>13, <1>14,
     <1>15, <1>16, <1>17, <1>18, <1>19, <1>20, <1>21, <1>22, <1>23, <1>24,
     <1>25, <1>26
  DEF NodesNext, UdevStep, NodeStep

(* Scripts are started before a device is in the table and stopped before it goes. *)
LEMMA NodesScripts ==
  ScriptsRun /\ NodesTypeOK /\ NodesShape /\ Owned /\ Disputed /\ [NodesNext]_nodesVars =>
      ScriptsRun'
<1> SUFFICES ASSUME ScriptsRun, NodesTypeOK, NodesShape, Owned, Disputed,
                    [NodesNext]_nodesVars PROVE ScriptsRun'
  OBVIOUS
<1> USE DEF UdevStates, NodeStates, Busy, Works
<1>a. /\ thread \in [Threads -> UdevStates \cup NodeStates] /\
           at \in [Threads -> AnyIndex \cup {0}]
      /\ thread["udev"] \in UdevStates /\ thread["node"] \in NodeStates
  BY DEF NodesTypeOK
<1>b. handlers \subseteq Indices /\ left \subseteq AnyIndex /\ inRange \subseteq AnyIndex
  BY DEF NodesTypeOK
<1>c. \A t \in Threads : holds[t] # 0 <=> thread[t] \in {"added", "emplace"}
  BY DEF NodesTypeOK
<1>d. devices \in [AnyIndex -> Objects \cup {0}]
  BY DEF NodesTypeOK
<1>e. made \in Seq(AnyIndex) /\ holds \in [Threads -> Objects \cup {0}] /\
        alive \subseteq 1 .. Len(made)
  BY DEF NodesTypeOK
<1>g. \A t \in Threads : thread[t] \in Works => at[t] \in AnyIndex
  BY <1>a, <1>b DEF NodesShape, AnyIndex
<1>1. ASSUME NEW b \in BOOLEAN, PlugNode(b) PROVE ScriptsRun'
  BY <1>1, <1>a, <1>c DEF PlugNode, ScriptsRun
<1>2. CASE UnplugNode
  BY <1>2, <1>a, <1>c DEF UnplugNode, ScriptsRun
<1>3. ASSUME NEW i \in Indices, LinkChanges(i) PROVE ScriptsRun'
  BY <1>3, <1>a, <1>c DEF LinkChanges, ScriptsRun
<1>4. CASE DestroyManager
  BY <1>4, <1>a, <1>c DEF DestroyManager, ScriptsRun
<1>5. CASE OpenNode
  <2>1. thread'["node"] \in {thread["node"], "run"} /\ (thread["node"] = "clear" =>
          thread'["node"] = "clear")
    BY <1>5, <1>a DEF OpenNode, NodesTypeOK
  <2>2. thread["node"] = "erase" => thread'["node"] = "erase"
    BY <1>5, <1>a DEF OpenNode, NodesTypeOK
  <2>3. thread["node"] = "ended" => thread'["node"] = "ended"
    BY <1>5, <1>a DEF OpenNode, NodesTypeOK
  <2>4. \A t \in Threads : thread'[t] = "emplace" => thread[t] = "emplace"
    BY <1>5, <1>a DEF OpenNode
  <2>5. UNCHANGED <<at, holds, devices, scripts, managed, contended>>
    BY <1>5 DEF OpenNode
  <2>6. QED
    BY <2>1, <2>2, <2>3, <2>4, <2>5 DEF ScriptsRun
<1>6. CASE ProbeReceiver
  BY <1>6, <1>a, <1>c DEF ProbeReceiver, ScriptsRun
<1>7. CASE NextIndex
  BY <1>7, <1>a, <1>c DEF NextIndex, ScriptsRun
<1>8. CASE StopNode
  BY <1>8, <1>a, <1>c DEF StopNode, ScriptsRun
<1>9. CASE JoinNode
  BY <1>9, <1>a, <1>c DEF JoinNode, ScriptsRun
<1>10. CASE DestroyDriver
  BY <1>10, <1>a, <1>c DEF DestroyDriver, ScriptsRun
<1>11. ASSUME NEW t \in Threads, ConstructDevice(t) PROVE ScriptsRun'
  <2>1. /\ thread[t] = "construct" /\ thread'[t] \in {"added", "next", "run"}
        /\ \A u \in Threads \ {t} : thread'[u] = thread[u] /\ holds'[u] = holds[u]
    BY <1>11, <1>a, <1>e DEF ConstructDevice, Done
  <2>2. contended \subseteq contended' /\ UNCHANGED <<at, devices, scripts, managed>>
    BY <1>11 DEF ConstructDevice
  <2>3. CASE t = "udev"
    BY <2>1, <2>2, <2>3 DEF ScriptsRun
  <2>4. CASE t = "node"
    BY <2>1, <2>2, <2>4 DEF ScriptsRun
  <2>5. QED
    BY <2>3, <2>4
<1>12. ASSUME NEW t \in Threads, DeviceAdded(t) PROVE ScriptsRun'
  <2>1. /\ thread[t] = "added" /\ thread'[t] = "emplace" /\ holds[t] # 0
        /\ \A u \in Threads \ {t} : thread'[u] = thread[u]
    BY <1>12, <1>a, <1>c DEF DeviceAdded
  <2>2. scripts' = IF managed THEN scripts \cup {holds[t]} ELSE scripts
    BY <1>12 DEF DeviceAdded
  <2>3. UNCHANGED <<at, holds, devices, managed, contended>>
    BY <1>12 DEF DeviceAdded
  <2>4. \A i \in AnyIndex : devices[i] \in scripts' <=> devices[i] \in scripts
    BY <2>1, <2>2 DEF Owned
  <2>5. thread["node"] = "erase" => at["node"] \in AnyIndex
    BY <1>g
  <2>6. CASE t = "udev"
    BY <2>1, <2>2, <2>3, <2>4, <2>5, <2>6 DEF ScriptsRun
  <2>7. CASE t = "node"
    BY <2>1, <2>2, <2>3, <2>4, <2>5, <2>7 DEF ScriptsRun
  <2>8. QED
    BY <2>6, <2>7
<1>13. ASSUME NEW t \in Threads, EmplaceDevice(t) PROVE ScriptsRun'
  <2>1. /\ thread[t] = "emplace" /\ thread'[t] = IF t = "udev" THEN "next" ELSE "run"
        /\ \A u \in Threads \ {t} : thread'[u] = thread[u] /\ holds'[u] = holds[u]
        /\ holds[t] # 0 /\ holds'[t] = 0
    BY <1>13, <1>a, <1>c, <1>e DEF EmplaceDevice, Done
  <2>2. \/ devices' = devices
        \/ /\ devices[at[t]] = 0 /\ devices'[at[t]] = holds[t]
           /\ \A i \in AnyIndex \ {at[t]} : devices'[i] = devices[i]
    BY <1>13, <1>d, <1>g DEF EmplaceDevice
  <2>3. UNCHANGED <<at, scripts, managed, contended>>
    BY <1>13 DEF EmplaceDevice
  <2>4. managed => holds[t] \in scripts
    BY <2>1 DEF ScriptsRun
  <2>5. thread["node"] = "erase" => at["node"] \in AnyIndex
    BY <1>g
  <2>6. CASE t = "udev"
    <3>1. thread["node"] \in {"clear", "ended"} => at[t] \in contended
      BY <2>1, <2>6 DEF Disputed
    <3>2. QED
      BY <2>1, <2>2, <2>3, <2>4, <2>5, <2>6, <3>1 DEF ScriptsRun
  <2>7. CASE t = "node"
    BY <2>1, <2>2, <2>3, <2>4, <2>7 DEF ScriptsRun
  <2>8. QED
    BY <2>6, <2>7
<1>14. CASE ReadNotice
  BY <1>14, <1>a, <1>c DEF ReadNotice, ScriptsRun
<1>15. CASE UnloadDevice
  <2> DEFINE i == at["node"]
  <2>1. /\ thread["node"] = "unload" /\ thread'["udev"] = thread["udev"]
        /\ thread'["node"] = IF devices[i] = 0 THEN "run" ELSE "erase"
        /\ i \in AnyIndex
    BY <1>15, <1>a, <1>g DEF UnloadDevice
  <2>2. scripts' = IF managed THEN scripts \ {devices[i]} ELSE scripts
    BY <1>15 DEF UnloadDevice
  <2>3. UNCHANGED <<at, holds, devices, managed, contended>>
    BY <1>15 DEF UnloadDevice
  <2>4. \A j \in AnyIndex \ {i} : devices[j] # 0 => devices[j] # devices[i]
    BY <2>1 DEF Owned
  <2>5. \A t \in Threads : holds[t] # 0 => holds[t] # devices[i]
    BY <2>1 DEF Owned
  <2>6. QED
    BY <1>c, <2>1, <2>2, <2>3, <2>4, <2>5 DEF ScriptsRun
<1>16. CASE EraseDevice
  <2>1. thread'["node"] = "run" /\ thread'["udev"] = thread["udev"] /\ at["node"] \in AnyIndex
    BY <1>16, <1>a, <1>g DEF EraseDevice
  <2>2. devices'[at["node"]] = 0 /\ \A j \in AnyIndex \ {at["node"]} : devices'[j] = devices[j]
    BY <1>16, <1>d, <2>1 DEF EraseDevice
  <2>3. thread["node"] = "erase" /\ UNCHANGED <<at, holds, scripts, managed, contended>>
    BY <1>16 DEF EraseDevice
  <2>4. QED
    BY <2>1, <2>2, <2>3 DEF ScriptsRun
<1>17. CASE EndRun
  BY <1>17, <1>a, <1>c DEF EndRun, ScriptsRun
<1>18. CASE UnloadAll
  <2>1. thread'["node"] = "clear" /\ thread'["udev"] = thread["udev"]
    BY <1>18, <1>a DEF UnloadAll
  <2>2. scripts' = IF managed THEN scripts \ {devices[i] : i \in AnyIndex} ELSE scripts
    BY <1>18 DEF UnloadAll
  <2>3. UNCHANGED <<at, holds, devices, managed, contended>>
    BY <1>18 DEF UnloadAll
  <2>4. managed => \A i \in AnyIndex : devices[i] \notin scripts'
    BY <2>2
  <2>5. \A t \in Threads : holds[t] # 0 /\ holds[t] \in scripts => holds[t] \in scripts'
    BY <2>2 DEF Owned
  <2>6. QED
    BY <1>c, <2>1, <2>2, <2>3, <2>4, <2>5 DEF ScriptsRun
<1>19. CASE ClearDevices
  <2>1. thread["node"] = "clear" /\ thread'["node"] = "ended" /\ thread'["udev"] = thread["udev"]
    BY <1>19, <1>a DEF ClearDevices
  <2>2. \A i \in AnyIndex : devices'[i] = 0
    BY <1>19 DEF ClearDevices
  <2>3. 0 \notin scripts
    <3>1. scripts \subseteq 1 .. Len(made)
      BY DEF NodesTypeOK
    <3>2. QED
      BY <1>e, <3>1
  <2>4. UNCHANGED <<at, holds, scripts, managed, contended>>
    BY <1>19 DEF ClearDevices
  <2>5. QED
    BY <2>1, <2>2, <2>3, <2>4 DEF ScriptsRun
<1>20. ASSUME NEW o \in scripts, DeviceEvent(o) PROVE ScriptsRun'
  BY <1>20, <1>a, <1>c DEF DeviceEvent, ScriptsRun
<1>21. CASE Serve
  BY <1>21, <1>a, <1>c DEF Serve, ScriptsRun
<1>22. ASSUME NEW o \in scripts, SetFileStop(o) PROVE ScriptsRun'
  BY <1>22, <1>a, <1>c DEF SetFileStop, ScriptsRun
<1>23. CASE SetFileStart
  BY <1>23, <1>a, <1>c DEF SetFileStart, ScriptsRun
<1>24. CASE LeaveManager
  BY <1>24, <1>a, <1>c DEF LeaveManager, ScriptsRun
<1>25. ASSUME NEW o \in scripts, StopScript(o) PROVE ScriptsRun'
  <2>1. ~ managed
    BY <1>25 DEF StopScript, NodesShape
  <2>2. UNCHANGED <<thread, at, holds, devices, managed>>
    BY <1>25 DEF StopScript
  <2>3. QED
    BY <2>1, <2>2 DEF ScriptsRun
<1>26. CASE UNCHANGED nodesVars
  BY <1>26 DEF ScriptsRun
<1>27. QED
  BY <1>1, <1>2, <1>3, <1>4, <1>5, <1>6, <1>7, <1>8, <1>9, <1>10, <1>11, <1>12, <1>13, <1>14,
     <1>15, <1>16, <1>17, <1>18, <1>19, <1>20, <1>21, <1>22, <1>23, <1>24,
     <1>25, <1>26
  DEF NodesNext, UdevStep, NodeStep

(* The kernel appends a notice whenever the range changes. *)
LEMMA NodesLastNotice ==
  LastNotice /\ NodesTypeOK /\ NodesShape /\ [NodesNext]_nodesVars => LastNotice'
<1> SUFFICES ASSUME LastNotice, NodesTypeOK, NodesShape, [NodesNext]_nodesVars PROVE LastNotice'
  OBVIOUS
<1>a. notices \in Seq(Notices) /\ Len(notices) \in Nat /\ DOMAIN notices = 1 .. Len(notices)
  BY DEF NodesTypeOK, Notices
<1>1. ASSUME NEW b \in BOOLEAN, PlugNode(b) PROVE LastNotice'
  BY <1>1 DEF PlugNode, LastNotice
<1>2. CASE UnplugNode
  BY <1>2 DEF UnplugNode, LastNotice
<1>3. ASSUME NEW i \in Indices, LinkChanges(i) PROVE LastNotice'
  <2>1. \A j : j # i => (j \in inRange' <=> j \in inRange)
    BY <1>3 DEF LinkChanges
  <2>2. i \in inRange' <=> i \notin inRange
    BY <1>3 DEF LinkChanges
  <2>3. CASE thread["node"] = "none"
    <3>1. notices' = <<>>
      BY <1>3, <2>3 DEF LinkChanges, NodesShape
    <3>2. QED
      BY <3>1 DEF LastNotice
  <2>4. CASE thread["node"] # "none"
    <3> DEFINE n == [index |-> i, linked |-> i \notin inRange]
    <3>1. notices' = Append(notices, n)
      BY <1>3, <2>4 DEF LinkChanges
    <3>2. n.index = i /\ (n.linked <=> i \notin inRange)
      OBVIOUS
    <3>a. n \in Notices
      BY DEF Notices
    <3> HIDE DEF n
    <3>3. /\ DOMAIN notices' = 1 .. (Len(notices) + 1) /\ notices'[Len(notices) + 1] = n
          /\ \A k \in 1 .. Len(notices) : notices'[k] = notices[k]
      <4>1. /\ DOMAIN Append(notices, n) = 1 .. (Len(notices) + 1)
            /\ Append(notices, n)[Len(notices) + 1] = n
            /\ \A k \in 1 .. Len(notices) : Append(notices, n)[k] = notices[k]
        BY <1>a, <3>a, Appended
      <4>2. QED
        BY <3>1, <4>1
    <3>4. ASSUME NEW k \in 1 .. Len(notices)
          PROVE  \/ \E m \in DOMAIN notices' : m > k /\ notices'[m].index = notices'[k].index
                 \/ notices'[k].linked <=> notices'[k].index \in inRange'
      <4>1. CASE notices[k].index = i
        <5>1. Len(notices) + 1 > k /\ Len(notices) + 1 \in 1 .. (Len(notices) + 1)
          BY <1>a
        <5>2. QED
          BY <3>2, <3>3, <4>1, <5>1
      <4>2. CASE notices[k].index # i
        <5>1. \A m \in DOMAIN notices : m \in DOMAIN notices'
          BY <1>a, <3>3
        <5>2. CASE \E m \in DOMAIN notices : m > k /\ notices[m].index = notices[k].index
          BY <1>a, <3>3, <5>1, <5>2
        <5>3. CASE notices[k].linked <=> notices[k].index \in inRange
          BY <2>1, <3>3, <4>2, <5>3
        <5>4. QED
          BY <1>a, <5>2, <5>3 DEF LastNotice
      <4>3. QED
        BY <4>1, <4>2
    <3>5. notices'[Len(notices) + 1].linked <=> notices'[Len(notices) + 1].index \in inRange'
      BY <2>2, <3>2, <3>3
    <3>6. QED
      BY <1>a, <3>3, <3>4, <3>5 DEF LastNotice
  <2>5. QED
    BY <2>3, <2>4
<1>4. CASE DestroyManager
  BY <1>4 DEF DestroyManager, LastNotice
<1>5. CASE OpenNode
  BY <1>5 DEF OpenNode, LastNotice
<1>6. CASE ProbeReceiver
  BY <1>6 DEF ProbeReceiver, LastNotice
<1>7. CASE NextIndex
  BY <1>7 DEF NextIndex, LastNotice
<1>8. CASE StopNode
  BY <1>8 DEF StopNode, LastNotice
<1>9. CASE JoinNode
  <2>1. notices' = <<>>
    BY <1>9 DEF JoinNode
  <2>2. QED
    BY <2>1 DEF LastNotice
<1>10. CASE DestroyDriver
  BY <1>10 DEF DestroyDriver, LastNotice
<1>11. ASSUME NEW t \in Threads, ConstructDevice(t) PROVE LastNotice'
  BY <1>11 DEF ConstructDevice, LastNotice
<1>12. ASSUME NEW t \in Threads, DeviceAdded(t) PROVE LastNotice'
  BY <1>12 DEF DeviceAdded, LastNotice
<1>13. ASSUME NEW t \in Threads, EmplaceDevice(t) PROVE LastNotice'
  BY <1>13 DEF EmplaceDevice, LastNotice
<1>14. CASE ReadNotice
  <2>1. notices # <<>> /\ notices' = Tail(notices) /\ inRange' = inRange
    BY <1>14 DEF ReadNotice
  <2>2. Len(notices) >= 1
    BY <1>a, <2>1, Removed
  <2>3. /\ DOMAIN notices' = 1 .. (Len(notices) - 1)
        /\ \A k \in 1 .. (Len(notices) - 1) : notices'[k] = notices[k + 1]
    BY <1>a, <2>1, Removed
  <2>4. ASSUME NEW k \in DOMAIN notices'
        PROVE  \/ \E m \in DOMAIN notices' : m > k /\ notices'[m].index = notices'[k].index
               \/ notices'[k].linked <=> notices'[k].index \in inRange'
    <3>1. k + 1 \in DOMAIN notices /\ notices'[k] = notices[k + 1]
      BY <1>a, <2>2, <2>3
    <3>2. CASE \E m \in DOMAIN notices : m > k + 1 /\ notices[m].index = notices[k + 1].index
      <4>1. PICK m \in DOMAIN notices : m > k + 1 /\ notices[m].index = notices[k + 1].index
        BY <3>2
      <4>2. m - 1 \in DOMAIN notices' /\ m - 1 > k /\ (m - 1) + 1 = m
        BY <1>a, <2>3, <4>1
      <4>3. notices'[m - 1] = notices[m]
        BY <2>3, <4>2
      <4>4. QED
        BY <3>1, <4>1, <4>2, <4>3
    <3>3. CASE notices[k + 1].linked <=> notices[k + 1].index \in inRange
      BY <2>1, <3>1, <3>3
    <3>4. QED
      BY <3>1, <3>2, <3>3 DEF LastNotice
  <2>5. QED
    BY <2>4 DEF LastNotice
<1>15. CASE UnloadDevice
  BY <1>15 DEF UnloadDevice, LastNotice
<1>16. CASE EraseDevice
  BY <1>16 DEF EraseDevice, LastNotice
<1>17. CASE EndRun
  BY <1>17 DEF EndRun, LastNotice
<1>18. CASE UnloadAll
  BY <1>18 DEF UnloadAll, LastNotice
<1>19. CASE ClearDevices
  BY <1>19 DEF ClearDevices, LastNotice
<1>20. ASSUME NEW o \in scripts, DeviceEvent(o) PROVE LastNotice'
  BY <1>20 DEF DeviceEvent, LastNotice
<1>21. CASE Serve
  BY <1>21 DEF Serve, LastNotice
<1>22. ASSUME NEW o \in scripts, SetFileStop(o) PROVE LastNotice'
  BY <1>22 DEF SetFileStop, LastNotice
<1>23. CASE SetFileStart
  BY <1>23 DEF SetFileStart, LastNotice
<1>24. CASE LeaveManager
  BY <1>24 DEF LeaveManager, LastNotice
<1>25. ASSUME NEW o \in scripts, StopScript(o) PROVE LastNotice'
  BY <1>25 DEF StopScript, LastNotice
<1>26. CASE UNCHANGED nodesVars
  BY <1>26 DEF LastNotice
<1>27. QED
  BY <1>1, <1>2, <1>3, <1>4, <1>5, <1>6, <1>7, <1>8, <1>9, <1>10, <1>11, <1>12, <1>13, <1>14,
     <1>15, <1>16, <1>17, <1>18, <1>19, <1>20, <1>21, <1>22, <1>23, <1>24,
     <1>25, <1>26
  DEF NodesNext, UdevStep, NodeStep

(* The step that breaks the agreement queues a notice; the one that takes the last *)
(* notice puts the dispatcher where it mends it. *)
LEMMA NodesCaught ==
  Caught /\ NodesTypeOK /\ NodesShape /\ LastNotice /\ [NodesNext]_nodesVars => Caught'
<1> SUFFICES ASSUME Caught, NodesTypeOK, NodesShape, LastNotice, [NodesNext]_nodesVars
                    PROVE Caught'
  OBVIOUS
<1> USE DEF UdevStates, NodeStates, Busy, Works
<1>a. /\ thread \in [Threads -> UdevStates \cup NodeStates] /\
           at \in [Threads -> AnyIndex \cup {0}]
      /\ thread["udev"] \in UdevStates /\ thread["node"] \in NodeStates
  BY DEF NodesTypeOK
<1>b. handlers \subseteq Indices /\ left \subseteq AnyIndex
  BY DEF NodesTypeOK
<1>c. \A t \in Threads : holds[t] # 0 <=> thread[t] \in {"added", "emplace"}
  BY DEF NodesTypeOK
<1>d. devices \in [AnyIndex -> Objects \cup {0}]
  BY DEF NodesTypeOK
<1>g. \A t \in Threads : thread[t] \in Works => at[t] \in AnyIndex
  BY <1>a, <1>b DEF NodesShape, AnyIndex
<1>h. notices \in Seq(Notices)
  BY DEF NodesTypeOK, Notices
<1>1. ASSUME NEW b \in BOOLEAN, PlugNode(b) PROVE Caught'
  BY <1>1, <1>a DEF PlugNode, NodesShape, Caught
<1>2. CASE UnplugNode
  BY <1>2, <1>a DEF UnplugNode, Caught
<1>3. ASSUME NEW i \in Indices, LinkChanges(i) PROVE Caught'
  <2> SUFFICES ASSUME NEW x \in AnyIndex \ (contended' \cup left'), plugged',
                      thread'["udev"] # "probe",
                      thread'["node"] \in Works \cup {"run", "blocked"}
               PROVE  Queued(x)' \/ Agrees(x)'
    BY DEF Caught
  <2>1. /\ thread' = thread /\ plugged' = plugged /\ left' = left /\ contended' = contended
        /\ at' = at /\ devices' = devices
    BY <1>3 DEF LinkChanges
  <2>2. Queued(x) \/ Agrees(x)
    BY <2>1 DEF Caught
  <2>3. notices' = Append(notices, [index |-> i, linked |-> i \notin inRange])
    BY <1>3, <2>1 DEF LinkChanges
  <2>4. [index |-> i, linked |-> i \notin inRange] \in Notices
    BY DEF Notices
  <2>5. /\ DOMAIN notices = 1 .. Len(notices) /\ DOMAIN notices' = 1 .. (Len(notices) + 1)
        /\ notices'[Len(notices) + 1].index = i
        /\ \A k \in 1 .. Len(notices) : notices'[k] = notices[k]
    <3>1. [index |-> i, linked |-> i \notin inRange].index = i
      OBVIOUS
    <3>2. QED
      BY <1>h, <2>3, <2>4, <3>1, Appended
  <2>6. CASE x = i
    BY <1>h, <2>5, <2>6, Appended, <2>4 DEF Queued
  <2>7. CASE x # i
    <3>1. x \in inRange' <=> x \in inRange
      BY <1>3, <2>7 DEF LinkChanges
    <3>2. Queued(x) => Queued(x)'
      BY <1>h, <2>5, <2>4, Appended DEF Queued
    <3>3. QED
      BY <2>1, <2>2, <3>1, <3>2 DEF Agrees, NodeAt, UdevAt
  <2>8. QED
    BY <2>6, <2>7
<1>4. CASE DestroyManager
  BY <1>4, <1>a, <1>c DEF DestroyManager, Queued, Agrees, NodeAt, UdevAt, Caught
<1>5. CASE OpenNode
  BY <1>5, <1>a, <1>c DEF OpenNode, Queued, Agrees, NodeAt, UdevAt, Caught
<1>6. CASE ProbeReceiver
  <2> SUFFICES ASSUME NEW x \in AnyIndex \ (contended' \cup left'), plugged',
                      thread'["udev"] # "probe",
                      thread'["node"] \in Works \cup {"run", "blocked"}
               PROVE  Queued(x)' \/ Agrees(x)'
    BY DEF Caught
  <2>1. /\ plugged /\ left' = All /\ inRange' = inRange /\ devices' = devices /\ at' = at
        /\ thread["udev"] = "probe" /\ thread'["udev"] = "next" /\
             thread'["node"] = thread["node"]
    BY <1>6, <1>a DEF ProbeReceiver, All
  <2>2. handlers = {} /\ devices[x] = 0 /\ inRange \subseteq All
    BY <2>1 DEF NodesShape
  <2>3. thread["node"] \notin Works
    BY <2>2 DEF NodesShape
  <2>4. QED
    BY <2>1, <2>2, <2>3 DEF Agrees, NodeAt, UdevAt
<1>7. CASE NextIndex
  <2> SUFFICES ASSUME NEW x \in AnyIndex \ (contended' \cup left'), plugged',
                      thread'["udev"] # "probe",
                      thread'["node"] \in Works \cup {"run", "blocked"}
               PROVE  Queued(x)' \/ Agrees(x)'
    BY DEF Caught
  <2>1. /\ thread["udev"] = "next" /\ thread'["node"] = thread["node"]
        /\ UNCHANGED <<plugged, inRange, notices, devices, contended>>
    BY <1>7, <1>a DEF NextIndex
  <2>2. CASE left = {}
    <3>1. thread'["udev"] = "idle" /\ UNCHANGED <<at, left>>
      BY <1>7, <1>a, <2>2 DEF NextIndex
    <3>2. QED
      BY <2>1, <3>1 DEF Caught, Queued, Agrees, NodeAt, UdevAt
  <2>3. CASE left # {}
    <3>1. PICK i \in left : i = Min(left)
      BY <1>b, <2>3, LeastIndex, HIDPPNodesAssumption DEF AnyIndex
    <3>2. thread'["udev"] = "construct" /\ at'["udev"] = i /\ at'["node"] = at["node"] /\
            left' = left \ {i}
      BY <1>7, <1>a, <2>3, <3>1 DEF NextIndex
    <3>3. CASE x = i
      <4>1. devices[i] = 0 /\ ~ NodeAt(i, Works)
        BY <3>1 DEF NodesShape, NodeAt
      <4>2. QED
        BY <2>1, <3>2, <3>3, <4>1 DEF Agrees, NodeAt, UdevAt
    <3>4. CASE x # i
      BY <2>1, <3>2, <3>4 DEF Caught, Queued, Agrees, NodeAt, UdevAt
    <3>5. QED
      BY <3>3, <3>4
  <2>4. QED
    BY <2>2, <2>3
<1>8. CASE StopNode
  BY <1>8, <1>a, <1>c DEF StopNode, Queued, Agrees, NodeAt, UdevAt, Caught
<1>9. CASE JoinNode
  BY <1>9, <1>a DEF JoinNode, Caught
<1>10. CASE DestroyDriver
  BY <1>10, <1>a, <1>c DEF DestroyDriver, Queued, Agrees, NodeAt, UdevAt, Caught
<1>11. ASSUME NEW t \in Threads, ConstructDevice(t) PROVE Caught'
  <2> SUFFICES ASSUME NEW x \in AnyIndex \ (contended' \cup left'), plugged',
                      thread'["udev"] # "probe",
                      thread'["node"] \in Works \cup {"run", "blocked"}
               PROVE  Queued(x)' \/ Agrees(x)'
    BY DEF Caught
  <2>1. /\ thread[t] = "construct" /\ thread'[t] \in {"added", IF t = "udev" THEN "next"
             ELSE "run"}
        /\ \A u \in Threads \ {t} : thread'[u] = thread[u]
        /\ contended \subseteq contended'
        /\ UNCHANGED <<plugged, inRange, notices, at, left, devices>>
    BY <1>11, <1>a DEF ConstructDevice, Done
  <2>2. plugged /\ thread["node"] \in Works \cup {"run", "blocked"} /\ thread["udev"] # "probe"
    <3>1. CASE t = "udev"
      BY <2>1, <3>1
    <3>2. CASE t = "node"
      BY <2>1, <3>2
    <3>3. QED
      BY <3>1, <3>2
  <2>3. Queued(x) \/ Agrees(x)
    BY <2>1, <2>2 DEF Caught
  <2>4. Queued(x)' <=> Queued(x)
    BY <2>1 DEF Queued
  <2>5. Answers(at[t]) <=> at[t] \in inRange
    BY <2>2 DEF Answers
  <2>6. CASE at[t] \in inRange
    <3>1. /\ thread'[t] = "added"
          /\ contended' = IF devices[at[t]] # 0 \/ \E u \in Threads \ {t} : holds[u] # 0 /\
               at[u] = at[t]
                          THEN contended \cup {at[t]} ELSE contended
      BY <1>11, <1>a, <2>5, <2>6 DEF ConstructDevice
    <3>2. CASE t = "udev"
      BY <2>1, <2>3, <2>4, <2>6, <3>1, <3>2 DEF Agrees, NodeAt, UdevAt
    <3>3. CASE t = "node"
      BY <2>1, <2>3, <2>4, <2>6, <3>1, <3>3 DEF Agrees, NodeAt, UdevAt
    <3>4. QED
      BY <3>2, <3>3
  <2>7. CASE at[t] \notin inRange
    <3>1. thread'[t] = IF t = "udev" THEN "next" ELSE "run"
      BY <1>11, <1>a, <2>5, <2>7 DEF ConstructDevice, Done
    <3>2. CASE t = "udev"
      BY <2>1, <2>3, <2>4, <2>7, <3>1, <3>2 DEF Agrees, NodeAt, UdevAt
    <3>3. CASE t = "node"
      BY <2>1, <2>3, <2>4, <2>7, <3>1, <3>3 DEF Agrees, NodeAt, UdevAt
    <3>4. QED
      BY <3>2, <3>3
  <2>8. QED
    BY <2>6, <2>7
<1>12. ASSUME NEW t \in Threads, DeviceAdded(t) PROVE Caught'
  BY <1>12, <1>a, <1>c DEF DeviceAdded, Queued, Agrees, NodeAt, UdevAt, Caught
<1>13. ASSUME NEW t \in Threads, EmplaceDevice(t) PROVE Caught'
  <2> SUFFICES ASSUME NEW x \in AnyIndex \ (contended' \cup left'), plugged',
                      thread'["udev"] # "probe",
                      thread'["node"] \in Works \cup {"run", "blocked"}
               PROVE  Queued(x)' \/ Agrees(x)'
    BY DEF Caught
  <2>1. /\ thread[t] = "emplace" /\ thread'[t] = IF t = "udev" THEN "next" ELSE "run"
        /\ \A u \in Threads \ {t} : thread'[u] = thread[u]
        /\ UNCHANGED <<plugged, inRange, notices, at, left, contended>>
    BY <1>13, <1>a DEF EmplaceDevice, Done
  <2>2. IF x = at[t] THEN devices'[x] # 0 ELSE devices'[x] = devices[x]
    BY <1>13, <1>c, <1>d, <1>g DEF EmplaceDevice
  <2>3. CASE t = "udev"
    <3>1. Queued(x) \/ Agrees(x)
      BY <2>1, <2>3 DEF Caught
    <3>2. QED
      BY <2>1, <2>2, <2>3, <3>1 DEF Queued, Agrees, NodeAt, UdevAt
  <2>4. CASE t = "node"
    <3>1. Queued(x) \/ Agrees(x)
      BY <2>1, <2>4 DEF Caught
    <3>2. QED
      BY <2>1, <2>2, <2>4, <3>1 DEF Queued, Agrees, NodeAt, UdevAt
  <2>5. QED
    BY <2>3, <2>4
<1>14. CASE ReadNotice
  <2> SUFFICES ASSUME NEW x \in AnyIndex \ (contended' \cup left'), plugged',
                      thread'["udev"] # "probe",
                      thread'["node"] \in Works \cup {"run", "blocked"}
               PROVE  Queued(x)' \/ Agrees(x)'
    BY DEF Caught
  <2> DEFINE n == Head(notices)
  <2>1. /\ thread["node"] = "run" /\ thread'["udev"] = thread["udev"] /\ notices # <<>> /\
             notices' = Tail(notices)
        /\ UNCHANGED <<plugged, inRange, devices, left, holds, receiver, handlers>>
    BY <1>14, <1>a DEF ReadNotice
  <2>2. /\ Len(notices) >= 1 /\ n = notices[1] /\ n \in Notices
        /\ DOMAIN notices = 1 .. Len(notices) /\ DOMAIN notices' = 1 .. (Len(notices) - 1)
        /\ \A k \in 1 .. (Len(notices) - 1) : notices'[k] = notices[k + 1]
    BY <1>h, <2>1, Removed
  <2>3. at'["udev"] = at["udev"] /\ contended \subseteq contended'
    BY <1>14, <1>a DEF ReadNotice
  <2>4. Queued(x) \/ Agrees(x)
    BY <2>1, <2>3 DEF Caught
  <2>5. Queued(x) => Queued(x)' \/ (n.index = x /\ \A k \in DOMAIN notices : k > 1 =>
          notices[k].index # x)
    <3>1. ASSUME NEW k \in DOMAIN notices, k > 1, notices[k].index = x PROVE Queued(x)'
      <4>1. k - 1 \in DOMAIN notices' /\ notices'[k - 1] = notices[k]
        BY <1>h, <2>2, <3>1, Appended
      <4>2. QED
        BY <3>1, <4>1 DEF Queued
    <3>2. QED
      BY <1>h, <2>2, <3>1, Appended DEF Queued
  <2>6. CASE Queued(x)'
    BY <2>6
  <2>7. CASE ~ Queued(x)' /\ n.index = x
    <3>1. x \in inRange <=> n.linked
      <4>1. \A k \in DOMAIN notices : k > 1 => notices[k].index # x
        <5>1. Queued(x)
          BY <2>2, <2>7 DEF Queued
        <5>2. QED
          BY <2>5, <2>7, <5>1
      <4>2. 1 \in DOMAIN notices
        BY <1>h, <2>2, Appended
      <4>3. QED
        BY <2>2, <2>7, <4>1, <4>2 DEF LastNotice
    <3>2. n.index \in handlers
      <4>1. receiver /\ n.index \in Indices
        BY <2>1, <2>2 DEF NodesShape, Notices
      <4>2. Indices \subseteq handlers \cup left
        BY <2>1, <4>1 DEF NodesShape
      <4>3. QED
        BY <2>1, <2>7, <4>1, <4>2
    <3>3. /\ at'["node"] = x /\ thread'["node"] = IF n.linked THEN "construct" ELSE "unload"
          /\ ~ n.linked /\ holds["udev"] # 0 /\ at["udev"] = x => x \in contended'
      BY <1>14, <1>a, <2>7, <3>2 DEF ReadNotice
    <3>4. CASE x \in inRange
      BY <2>1, <2>3, <3>1, <3>3, <3>4 DEF Agrees, NodeAt, UdevAt
    <3>5. CASE x \notin inRange
      <4>1. ~ UdevAt(x, {"added", "emplace"})'
        BY <1>c, <2>1, <2>3, <3>1, <3>3, <3>5 DEF UdevAt
      <4>2. QED
        BY <2>1, <2>3, <3>1, <3>3, <3>5, <4>1 DEF Agrees, NodeAt, UdevAt
    <3>6. QED
      BY <3>4, <3>5
  <2>8. CASE ~ Queued(x)' /\ n.index # x
    <3>1. Agrees(x)
      BY <2>4, <2>5, <2>8
    <3>2. thread'["node"] \in Works => at'["node"] # x
      BY <1>14, <1>a, <2>1, <2>8 DEF ReadNotice
    <3>3. QED
      BY <2>1, <2>3, <3>1, <3>2 DEF Agrees, NodeAt, UdevAt
  <2>9. QED
    BY <2>6, <2>7, <2>8
<1>15. CASE UnloadDevice
  BY <1>15, <1>a, <1>c DEF UnloadDevice, Queued, Agrees, NodeAt, UdevAt, Caught
<1>16. CASE EraseDevice
  <2> SUFFICES ASSUME NEW x \in AnyIndex \ (contended' \cup left'), plugged',
                      thread'["udev"] # "probe",
                      thread'["node"] \in Works \cup {"run", "blocked"}
               PROVE  Queued(x)' \/ Agrees(x)'
    BY DEF Caught
  <2>1. /\ thread["node"] = "erase" /\ thread'["node"] = "run" /\ thread'["udev"] = thread["udev"]
        /\ UNCHANGED <<plugged, inRange, notices, at, left, contended>>
    BY <1>16, <1>a DEF EraseDevice
  <2>2. devices'[x] = IF x = at["node"] THEN 0 ELSE devices[x]
    BY <1>16, <1>d, <1>g DEF EraseDevice
  <2>3. Queued(x) \/ Agrees(x)
    BY <2>1 DEF Caught
  <2>4. CASE x = at["node"]
    BY <2>1, <2>2, <2>3, <2>4 DEF Queued, Agrees, NodeAt, UdevAt
  <2>5. CASE x # at["node"]
    BY <2>1, <2>2, <2>3, <2>5 DEF Queued, Agrees, NodeAt, UdevAt
  <2>6. QED
    BY <2>4, <2>5
<1>17. CASE EndRun
  BY <1>17, <1>a DEF EndRun, Caught
<1>18. CASE UnloadAll
  BY <1>18, <1>a DEF UnloadAll, Caught
<1>19. CASE ClearDevices
  BY <1>19, <1>a DEF ClearDevices, Caught
<1>20. ASSUME NEW o \in scripts, DeviceEvent(o) PROVE Caught'
  BY <1>20, <1>a, <1>c DEF DeviceEvent, Queued, Agrees, NodeAt, UdevAt, Caught
<1>21. CASE Serve
  BY <1>21, <1>a, <1>c DEF Serve, Queued, Agrees, NodeAt, UdevAt, Caught
<1>22. ASSUME NEW o \in scripts, SetFileStop(o) PROVE Caught'
  BY <1>22, <1>a, <1>c DEF SetFileStop, Queued, Agrees, NodeAt, UdevAt, Caught
<1>23. CASE SetFileStart
  BY <1>23, <1>a, <1>c DEF SetFileStart, Queued, Agrees, NodeAt, UdevAt, Caught
<1>24. CASE LeaveManager
  BY <1>24, <1>a, <1>c DEF LeaveManager, Queued, Agrees, NodeAt, UdevAt, Caught
<1>25. ASSUME NEW o \in scripts, StopScript(o) PROVE Caught'
  BY <1>25, <1>a, <1>c DEF StopScript, Queued, Agrees, NodeAt, UdevAt, Caught
<1>26. CASE UNCHANGED nodesVars
  BY <1>26 DEF Queued, Agrees, NodeAt, UdevAt, Caught
<1>27. QED
  BY <1>1, <1>2, <1>3, <1>4, <1>5, <1>6, <1>7, <1>8, <1>9, <1>10, <1>11, <1>12, <1>13, <1>14,
     <1>15, <1>16, <1>17, <1>18, <1>19, <1>20, <1>21, <1>22, <1>23, <1>24,
     <1>25, <1>26
  DEF NodesNext, UdevStep, NodeStep

(* Only an object without a script, or of a contended index, is destroyed. *)
LEMMA NodesKept ==
  Kept /\ NodesTypeOK /\ NodesShape /\ Owned /\ Disputed /\ ScriptsRun /\
      [NodesNext]_nodesVars => Kept'
<1> SUFFICES ASSUME Kept, NodesTypeOK, NodesShape, Owned, Disputed,
                    ScriptsRun, [NodesNext]_nodesVars PROVE Kept'
  OBVIOUS
<1> USE DEF UdevStates, NodeStates, Busy, Works
<1>a. /\ thread \in [Threads -> UdevStates \cup NodeStates] /\
           at \in [Threads -> AnyIndex \cup {0}]
      /\ thread["udev"] \in UdevStates /\ thread["node"] \in NodeStates
  BY DEF NodesTypeOK
<1>b. handlers \subseteq Indices /\ left \subseteq AnyIndex
  BY DEF NodesTypeOK
<1>c. \A t \in Threads : holds[t] # 0 <=> thread[t] \in {"added", "emplace"}
  BY DEF NodesTypeOK
<1>e. made \in Seq(AnyIndex) /\ scripts \subseteq 1 .. Len(made)
  BY DEF NodesTypeOK
<1>g. \A t \in Threads : thread[t] \in Works => at[t] \in AnyIndex
  BY <1>a, <1>b DEF NodesShape, AnyIndex
<1>h. Len(made) \in Nat /\ 0 \notin scripts
  BY <1>e
<1>1. ASSUME NEW b \in BOOLEAN, PlugNode(b) PROVE Kept'
  BY <1>1 DEF PlugNode, Kept
<1>2. CASE UnplugNode
  BY <1>2 DEF UnplugNode, Kept
<1>3. ASSUME NEW i \in Indices, LinkChanges(i) PROVE Kept'
  BY <1>3 DEF LinkChanges, Kept
<1>4. CASE DestroyManager
  BY <1>4 DEF DestroyManager, Kept
<1>5. CASE OpenNode
  BY <1>5 DEF OpenNode, Kept
<1>6. CASE ProbeReceiver
  BY <1>6 DEF ProbeReceiver, Kept
<1>7. CASE NextIndex
  BY <1>7 DEF NextIndex, Kept
<1>8. CASE StopNode
  BY <1>8 DEF StopNode, Kept
<1>9. CASE JoinNode
  <2>1. alive' = alive \ {devices[i] : i \in AnyIndex} /\ thread["node"] \in {"clear", "ended"}
    BY <1>9 DEF JoinNode
  <2>2. UNCHANGED <<scripts, made, managed, contended>>
    BY <1>9 DEF JoinNode
  <2>3. ASSUME managed, NEW i \in AnyIndex, devices[i] \in scripts
        PROVE  made[devices[i]] \in contended
    <3>1. devices[i] # 0 /\ i \in contended
      BY <1>h, <2>1, <2>3 DEF ScriptsRun
    <3>2. QED
      BY <3>1 DEF Owned
  <2>4. QED
    BY <2>1, <2>2, <2>3 DEF Kept
<1>10. CASE DestroyDriver
  BY <1>10 DEF DestroyDriver, Kept
<1>11. ASSUME NEW t \in Threads, ConstructDevice(t) PROVE Kept'
  <2>1. alive \subseteq alive' /\ scripts' = scripts /\ contended \subseteq contended'
    BY <1>11 DEF ConstructDevice
  <2>a. managed' = managed
    BY <1>11 DEF ConstructDevice
  <2>2. \A o \in scripts : made'[o] = made[o]
    <3>1. at[t] \in AnyIndex /\ made' \in {made, Append(made, at[t])}
      BY <1>11, <1>g DEF ConstructDevice
    <3>2. QED
      BY <1>e, <3>1, NewObject
  <2>3. QED
    BY <2>1, <2>a, <2>2 DEF Kept
<1>12. ASSUME NEW t \in Threads, DeviceAdded(t) PROVE Kept'
  <2>1. holds[t] \in alive /\ UNCHANGED <<alive, made, managed, contended>>
    BY <1>12, <1>c DEF DeviceAdded, Owned
  <2>2. scripts' \subseteq scripts \cup {holds[t]}
    BY <1>12 DEF DeviceAdded
  <2>3. QED
    BY <2>1, <2>2 DEF Kept
<1>13. ASSUME NEW t \in Threads, EmplaceDevice(t) PROVE Kept'
  <2>1. \/ alive' = alive
        \/ alive' = alive \ {holds[t]} /\ devices[at[t]] # 0
    BY <1>13 DEF EmplaceDevice
  <2>2. devices[at[t]] # 0 => made[holds[t]] \in contended
    BY <1>13, <1>c DEF EmplaceDevice, Owned, Disputed
  <2>3. UNCHANGED <<scripts, made, managed, contended>>
    BY <1>13 DEF EmplaceDevice
  <2>4. QED
    BY <2>1, <2>2, <2>3 DEF Kept
<1>14. CASE ReadNotice
  BY <1>14 DEF ReadNotice, Kept
<1>15. CASE UnloadDevice
  BY <1>15 DEF UnloadDevice, Kept
<1>16. CASE EraseDevice
  <2>1. alive' = alive \ {devices[at["node"]]} /\
          (managed => devices[at["node"]] \notin scripts)
    BY <1>16 DEF EraseDevice, ScriptsRun
  <2>2. UNCHANGED <<scripts, made, managed, contended>>
    BY <1>16 DEF EraseDevice
  <2>3. QED
    BY <2>1, <2>2 DEF Kept
<1>17. CASE EndRun
  BY <1>17 DEF EndRun, Kept
<1>18. CASE UnloadAll
  BY <1>18 DEF UnloadAll, Kept
<1>19. CASE ClearDevices
  <2>1. alive' = alive \ {devices[i] : i \in AnyIndex} /\ thread["node"] \in {"clear", "ended"}
    BY <1>19 DEF ClearDevices
  <2>2. UNCHANGED <<scripts, made, managed, contended>>
    BY <1>19 DEF ClearDevices
  <2>3. ASSUME managed, NEW i \in AnyIndex, devices[i] \in scripts
        PROVE  made[devices[i]] \in contended
    <3>1. devices[i] # 0 /\ i \in contended
      BY <1>h, <2>1, <2>3 DEF ScriptsRun
    <3>2. QED
      BY <3>1 DEF Owned
  <2>4. QED
    BY <2>1, <2>2, <2>3 DEF Kept
<1>20. ASSUME NEW o \in scripts, DeviceEvent(o) PROVE Kept'
  BY <1>20 DEF DeviceEvent, Kept
<1>21. CASE Serve
  BY <1>21 DEF Serve, Kept
<1>22. ASSUME NEW o \in scripts, SetFileStop(o) PROVE Kept'
  BY <1>22 DEF SetFileStop, Kept
<1>23. CASE SetFileStart
  BY <1>23 DEF SetFileStart, Kept
<1>24. CASE LeaveManager
  BY <1>24 DEF LeaveManager, Kept
<1>25. ASSUME NEW o \in scripts, StopScript(o) PROVE Kept'
  BY <1>25 DEF StopScript, Kept
<1>26. CASE UNCHANGED nodesVars
  BY <1>26 DEF Kept
<1>27. QED
  BY <1>1, <1>2, <1>3, <1>4, <1>5, <1>6, <1>7, <1>8, <1>9, <1>10, <1>11, <1>12, <1>13, <1>14,
     <1>15, <1>16, <1>17, <1>18, <1>19, <1>20, <1>21, <1>22, <1>23, <1>24,
     <1>25, <1>26
  DEF NodesNext, UdevStep, NodeStep

(* The inductive invariant. *)
NodesInv ==
  /\ NodesTypeOK /\ NodesShape /\ Owned /\ Disputed /\ ScriptsRun /\ Kept
  /\ LastNotice /\ Caught

(* The invariant holds at first. *)
LEMMA NodesInitInv == NodesInit => NodesInv
<1> SUFFICES ASSUME NodesInit PROVE NodesInv
  OBVIOUS
<1>1. NodesTypeOK
  BY NodesInitTyped
<1>2. thread["udev"] = "idle" /\ thread["node"] = "none" /\ \A t \in Threads : holds[t] = 0
  BY DEF NodesInit
<1>3. NodesShape
  BY <1>2 DEF NodesInit, NodesShape, All, Busy, Works
<1>4. Owned /\ Disputed /\ ScriptsRun /\ Kept
  BY <1>2 DEF NodesInit, Owned, Disputed, ScriptsRun, Kept
<1>5. LastNotice /\ Caught
  BY <1>2 DEF NodesInit, LastNotice, Caught, Works, Busy
<1>6. QED
  BY <1>1, <1>3, <1>4, <1>5 DEF NodesInv

(* The invariant is inductive. *)
LEMMA NodesInvNext == NodesInv /\ [NodesNext]_nodesVars => NodesInv'
<1> SUFFICES ASSUME NodesInv, [NodesNext]_nodesVars PROVE NodesInv'
  OBVIOUS
<1>1. NodesTypeOK' /\ NodesShape'
  BY NodesTyped, NodesShaped DEF NodesInv
<1>2. Owned' /\ Disputed'
  BY NodesOwned, NodesDisputed DEF NodesInv
<1>3. ScriptsRun' /\ Kept'
  BY NodesScripts, NodesKept DEF NodesInv
<1>4. LastNotice' /\ Caught'
  BY NodesLastNotice, NodesCaught DEF NodesInv
<1>5. QED
  BY <1>1, <1>2, <1>3, <1>4 DEF NodesInv

(* Nothing queued and nobody busy: what Agrees says is the table itself. *)
LEMMA QuietInv == NodesInv => QuietAgrees
<1> SUFFICES ASSUME NodesInv, Quiet, thread["node"] = "run" => plugged,
                    NEW i \in AnyIndex \ contended
             PROVE  /\ devices[i] # 0 <=> node /\ i \in inRange
                    /\ {o \in scripts : made[o] = i} = {devices[i]} \ {0}
                    /\ {o \in alive : made[o] = i} = {devices[i]} \ {0}
  BY DEF QuietAgrees
<1>1. thread["udev"] = "idle" /\ thread["node"] \in {"none", "run"} /\ notices = <<>>
  BY DEF Quiet
<1>2. managed /\ left = {} /\ \A t \in Threads : holds[t] = 0
  BY <1>1 DEF NodesInv, NodesShape, NodesTypeOK, Busy
<1>3. devices[i] # 0 <=> node /\ i \in inRange
  <2>1. CASE thread["node"] = "none"
    BY <2>1 DEF NodesInv, NodesShape, NodesTypeOK
  <2>2. CASE thread["node"] = "run"
    <3>1. ~ Queued(i)
      BY <1>1 DEF Queued
    <3>2. Agrees(i)
      BY <1>1, <1>2, <2>2, <3>1 DEF NodesInv, Caught
    <3>3. node
      BY <2>2 DEF NodesInv, NodesTypeOK
    <3>4. QED
      BY <1>1, <2>2, <3>2, <3>3 DEF Agrees, NodeAt, UdevAt, Works, Busy
  <2>3. QED
    BY <1>1, <2>1, <2>2
<1>4. {o \in alive : made[o] = i} = {devices[i]} \ {0}
  <2>1. \A o \in alive : o # 0 /\ o = devices[made[o]]
    <3>1. \A o \in alive : o # 0
      BY DEF NodesInv, NodesTypeOK
    <3>2. QED
      BY <1>2, <3>1 DEF NodesInv, Owned
  <2>2. devices[i] # 0 => devices[i] \in alive /\ made[devices[i]] = i
    BY DEF NodesInv, Owned
  <2>3. QED
    BY <2>1, <2>2
<1>5. {o \in scripts : made[o] = i} = {o \in alive : made[o] = i}
  <2>1. \A o \in scripts : made[o] = i => o \in alive
    BY <1>2 DEF NodesInv, Kept
  <2>2. devices[i] # 0 => devices[i] \in scripts
    BY <1>1, <1>2 DEF NodesInv, ScriptsRun
  <2>3. QED
    BY <1>4, <2>1, <2>2
<1>6. QED
  BY <1>3, <1>4, <1>5

(* HIDPPDriver: the inductive invariant holds, whatever the receiver, the kernel *)
(* and the end of the daemon do. *)
THEOREM NodesInvariant == NodesSpec => []NodesInv
<1>1. QED
  BY NodesInitInv, NodesInvNext, PTL DEF NodesSpec

(* Type correctness of the nodes. *)
THEOREM NodesTypes == NodesSpec => []NodesTypeOK
<1>1. NodesInv => NodesTypeOK
  BY DEF NodesInv
<1>2. QED
  BY NodesInvariant, <1>1, PTL

(* A script outlives its device object only at an index that both threads handled *)
(* at once: removeDevice and dispatcherRun stop scripts before they destroy devices. *)
THEOREM ScriptsKeepDevices == NodesSpec => []ScriptsKeepTheirDevice
<1>1. NodesInv => ScriptsKeepTheirDevice
  BY DEF NodesInv, Kept, ScriptsKeepTheirDevice, Started
<1>2. QED
  BY NodesInvariant, <1>1, PTL

(* Once the notices and events are read, exactly the devices that answer are in *)
(* node->devices, each with one object and one script (addDevice, receiverEvent). *)
THEOREM QuietNodesAgree == NodesSpec => []QuietAgrees
<1>1. QED
  BY NodesInvariant, QuietInv, PTL
--------------------------------------------------------------------------------
(* What users may queue: an upload or an erasure has an id. *)
UserEvent == {e \in [kind : Callbacks, id : Ids \cup {0}, effect : Uploads] : Asks(e) =>
  e.id \in Ids}

(* The queues hold such events, one at a time where the code has one. *)
UserEvents ==
  /\ event \in Seq(UserEvent) /\ request \in Seq(UserEvent) /\ queue \in Seq(UserEvent)
  /\ Len(event) <= 1 /\ Len(request) <= 1 /\ Len(queue) <= MaxQueue

(* The thread lives from create to the join in destroy, and a device that is not *)
(* there has no effects. *)
UInputShape ==
  /\ created => script = "loop" /\ ff \notin {"none", "ended"}
  /\ script = "loop" /\ ~ created => ff = "none"
  /\ script = "ended" => ff = "none"
  /\ ff = "ended" => script = "join" /\ ~ byte
  /\ ~ created => effects = <<>> /\ known = <<>> /\ request = <<>>

(* Between the callback and the answer, the script knows what the kernel does not. *)
AnswerKnown ==
  created /\ ff = "answer" =>
    LET e == Head(event)
    IN  /\ Asks(e)
        /\ e.kind = "upload" => e.id \in DOMAIN known /\ known[e.id] = EffectToMap(e.effect)
        /\ e.kind = "erase" => e.id \notin DOMAIN known

USE DEF userVars, scriptVars, uinputVars

(* effectToMap tells the words of an effect, by the layout of its type, if it has *)
(* one. *)
LEMMA ToldByEffectToMap == \A e \in Uploads : Told(e, EffectToMap(e))
<1> SUFFICES ASSUME NEW e \in Uploads, e.type \in DOMAIN Layout, NEW field \in ToSet(Layout[e.type])
             PROVE  \/ EffectToMap(e).told[field] = Value(e, field)
                    \/ e.type \in {"ramp", "periodic"} /\ field \in ToSet(Envelope)
  BY DEF Told, EffectToMap
<1>1. e.type \in {"constant", "ramp", "periodic", "rumble"}
  BY DEF Layout
<1>2. EffectToMap(e).told[field] = IF field \in ToSet(Envelope)
                                   THEN Value([type |-> "constant", words |-> e.words], field)
                                   ELSE Value(e, field)
  BY DEF EffectToMap, Fields
<1>3. CASE field \notin ToSet(Envelope)
  BY <1>2, <1>3
<1>4. CASE e.type = "constant"
  BY <1>2, <1>4 DEF Value
<1>5. CASE e.type = "rumble" /\ field \in ToSet(Envelope)
  <2>1. ToSet(Layout["rumble"]) = {"strong_magnitude", "weak_magnitude"}
    BY DEF Layout, ToSet
  <2>2. ToSet(Envelope) = {"attack_length", "attack_level", "fade_length", "fade_level"}
    BY DEF Envelope, ToSet
  <2>3. QED
    BY <1>5, <2>1, <2>2
<1>6. QED
  BY <1>1, <1>3, <1>4, <1>5

(* Applied leaves the entries of other ids as they were. *)
LEMMA AppliedElsewhere ==
  ASSUME NEW table, NEW e, NEW v, NEW i, i # e.id
  PROVE  /\ i \in DOMAIN Applied(table, e, v) <=> i \in DOMAIN table
         /\ i \in DOMAIN table => Applied(table, e, v)[i] = table[i]
<1>1. CASE e.kind = "upload"
  <2>1. Applied(table, e, v) = [j \in DOMAIN table \cup {e.id} |-> IF j = e.id THEN v
          ELSE table[j]]
    BY <1>1 DEF Applied
  <2>2. QED
    BY <2>1
<1>2. CASE e.kind = "erase"
  <2>1. Applied(table, e, v) = [j \in DOMAIN table \ {e.id} |-> table[j]]
    BY <1>2 DEF Applied
  <2>2. QED
    BY <2>1
<1>3. CASE e.kind \notin {"upload", "erase"}
  BY <1>3 DEF Applied
<1>4. QED
  BY <1>1, <1>2, <1>3

(* Sequences of events. *)
LEMMA OneEvent == \A e \in UserEvent : <<e>> \in Seq(UserEvent) /\ Len(<<e>>) = 1 /\
                  <<e>> # <<>> /\ Head(<<e>>) = e
OBVIOUS

(* The first event, and the others. *)
LEMMA TakeEvent ==
  ASSUME NEW q \in Seq(UserEvent), q # <<>>
  PROVE  Head(q) \in UserEvent /\ Tail(q) \in Seq(UserEvent) /\ Len(Tail(q)) = Len(q) - 1 /\
      Len(q) \in Nat
OBVIOUS

(* A sequence over a set is one over a larger set. *)
LEMMA LargerSeq ==
  ASSUME NEW S, NEW T, S \subseteq T, NEW s \in Seq(S)
  PROVE  s \in Seq(T)
<1>1. Len(s) \in Nat /\ s \in [1 .. Len(s) -> T]
  OBVIOUS
<1>2. QED
  BY <1>1

(* The events users queue are such events. *)
LEMMA Made ==
  /\ NoEffect \in Uploads
  /\ \A id \in Ids, e \in Uploads : Ev("upload", id, e) \in UserEvent
  /\ \A kind \in {"erase", "start", "stop"}, id \in Ids : Ev(kind, id, NoEffect) \in UserEvent
  /\ Ev("gain", 0, NoEffect) \in UserEvent
<1>1. NoEffect \in Uploads
  BY UInputAssumption DEF NoEffect
<1>2. QED
  BY <1>1 DEF Ev, UserEvent, Asks, Callbacks

(* The event the thread is handling. *)
LEMMA EventTyped ==
  UserEvents /\ UInputTypeOK /\ ff \in {"waiting", "answer"} => Head(event) \in UserEvent /\
      event = <<Head(event)>>
<1> SUFFICES ASSUME UserEvents, UInputTypeOK, ff \in {"waiting", "answer"}
             PROVE  Head(event) \in UserEvent /\ event = <<Head(event)>>
  OBVIOUS
<1>1. event \in Seq(UserEvent) /\ Len(event) = 1
  BY DEF UserEvents, UInputTypeOK
<1>2. QED
  BY <1>1

(* Applied adds no id but that of the event. *)
LEMMA AppliedWithin ==
  ASSUME NEW table, DOMAIN table \subseteq Ids, NEW e \in UserEvent, NEW v
  PROVE  DOMAIN Applied(table, e, v) \subseteq Ids
<1>1. Asks(e) => e.id \in Ids
  BY DEF UserEvent
<1>2. CASE e.kind = "upload"
  BY <1>1, <1>2 DEF Applied, Asks
<1>3. CASE e.kind = "erase"
  BY <1>3 DEF Applied
<1>4. CASE e.kind \notin {"upload", "erase"}
  BY <1>4 DEF Applied
<1>5. QED
  BY <1>2, <1>3, <1>4

(* Each step keeps the queues typed. *)
LEMMA UserEventsNext ==
  UserEvents /\ [UInputNext]_uinputVars => UserEvents'
<1> SUFFICES ASSUME UserEvents, [UInputNext]_uinputVars PROVE UserEvents'
  OBVIOUS
<1>1. ASSUME NEW id \in Ids, NEW e \in Uploads, UserUploads(id, e) PROVE UserEvents'
  <2>1. <<Ev("upload", id, e)>> \in Seq(UserEvent) /\ Len(<<Ev("upload", id, e)>>) = 1
    BY Made, OneEvent
  <2>2. /\ queue' = queue \o <<Ev("upload", id, e)>> /\ request' = <<Ev("upload", id, e)>>
        /\ Len(queue) + Len(<<Ev("upload", id, e)>>) <= MaxQueue /\ event' = event
    BY <1>1 DEF UserUploads, Queues
  <2>3. QED
    BY <2>1, <2>2 DEF UserEvents
<1>2. ASSUME NEW id \in Ids, UserErases(id) PROVE UserEvents'
  <2> DEFINE s == Ev("stop", id, NoEffect)
             d == Ev("erase", id, NoEffect)
  <2>1. s \in UserEvent /\ d \in UserEvent
    BY Made
  <2>2. /\ queue' = queue \o <<s, d>> /\ request' = <<d>>
        /\ Len(queue) + Len(<<s, d>>) <= MaxQueue /\ event' = event
    BY <1>2 DEF UserErases, Queues
  <2> HIDE DEF s, d
  <2>3. <<s, d>> \in Seq(UserEvent) /\ <<d>> \in Seq(UserEvent) /\ Len(<<d>>) = 1
    BY <2>1
  <2>4. QED
    BY <2>2, <2>3 DEF UserEvents
<1>3. ASSUME NEW kind \in {"start", "stop"}, NEW id \in Ids, UserPlays(kind, id) PROVE UserEvents'
  <2>1. <<Ev(kind, id, NoEffect)>> \in Seq(UserEvent)
    BY Made, OneEvent
  <2>2. /\ queue' = queue \o <<Ev(kind, id, NoEffect)>>
        /\ Len(queue) + Len(<<Ev(kind, id, NoEffect)>>) <= MaxQueue /\ UNCHANGED <<event,
             request>>
    BY <1>3 DEF UserPlays, Queues
  <2>3. QED
    BY <2>1, <2>2 DEF UserEvents
<1>4. CASE UserSetsGain
  <2>1. <<Ev("gain", 0, NoEffect)>> \in Seq(UserEvent)
    BY Made, OneEvent
  <2>2. /\ queue' = queue \o <<Ev("gain", 0, NoEffect)>>
        /\ Len(queue) + Len(<<Ev("gain", 0, NoEffect)>>) <= MaxQueue /\ UNCHANGED <<event,
             request>>
    BY <1>4 DEF UserSetsGain, Queues
  <2>3. QED
    BY <2>1, <2>2 DEF UserEvents
<1>5. CASE RequestExpires
  BY <1>5 DEF RequestExpires, UserEvents
<1>6. CASE CreateDevice
  BY <1>6 DEF CreateDevice, UserEvents
<1>7. CASE LeaveLoop
  BY <1>7 DEF LeaveLoop, UserEvents
<1>8. ASSUME NEW last \in BOOLEAN, DestroyDevice(last) PROVE UserEvents'
  BY <1>8 DEF DestroyDevice, UserEvents
<1>9. CASE ReadRequest
  <2>1. event' = <<Head(queue)>> /\ queue' = Tail(queue) /\ request' = request /\ queue # <<>>
    BY <1>9 DEF ReadRequest
  <2>2. Head(queue) \in UserEvent /\ Tail(queue) \in Seq(UserEvent) /\
          Len(Tail(queue)) <= MaxQueue
    BY <2>1, TakeEvent, UInputAssumption DEF UserEvents
  <2>3. QED
    BY <2>1, <2>2, OneEvent DEF UserEvents
<1>10. CASE AnswerRequest
  <2>1. event' = <<>> /\ queue' = queue /\ request' \in {request, <<>>}
    BY <1>10 DEF AnswerRequest
  <2>2. <<>> \in Seq(UserEvent) /\ Len(<<>>) = 0
    OBVIOUS
  <2>3. event' \in Seq(UserEvent) /\ Len(event') <= 1
    BY <2>1, <2>2
  <2>4. request' \in Seq(UserEvent) /\ Len(request') <= 1
    <3>1. request \in Seq(UserEvent) /\ Len(request) <= 1
      BY DEF UserEvents
    <3>2. CASE request' = request
      BY <3>1, <3>2
    <3>3. CASE request' = <<>>
      BY <2>2, <3>3
    <3>4. QED
      BY <2>1, <3>2, <3>3
  <2>5. QED
    BY <2>1, <2>3, <2>4 DEF UserEvents
<1>11. CASE ReadByte
  BY <1>11 DEF ReadByte, UserEvents
<1>12. CASE WakeThread
  BY <1>12 DEF WakeThread, UserEvents
<1>13. CASE JoinThread
  BY <1>13 DEF JoinThread, UserEvents
<1>14. CASE RunCallback
  BY <1>14 DEF RunCallback, UserEvents
<1>15. CASE UNCHANGED uinputVars
  BY <1>15 DEF UserEvents
<1>16. QED
  BY <1>1, <1>2, <1>3, <1>4, <1>5, <1>6, <1>7, <1>8, <1>9, <1>10, <1>11, <1>12, <1>13, <1>14,
     <1>15
  DEF UInputNext, FFStep, ScriptStep

(* Each step keeps the life of the thread. *)
LEMMA UInputShaped ==
  UInputShape /\ UInputTypeOK /\ [UInputNext]_uinputVars => UInputShape'
<1> SUFFICES ASSUME UInputShape, UInputTypeOK, [UInputNext]_uinputVars PROVE UInputShape'
  OBVIOUS
<1>a. ff \in {"none", "select", "waiting", "answer", "ended", "crashed"} /\
        created \in BOOLEAN /\ byte \in BOOLEAN
      /\ (byte => script = "join")
  BY DEF UInputTypeOK
<1>1. ASSUME NEW id \in Ids, NEW e \in Uploads, UserUploads(id, e) PROVE UInputShape'
  <2>1. created /\ UNCHANGED <<effects, scriptVars, ff>>
    BY <1>1 DEF UserUploads, Queues
  <2>2. QED
    BY <2>1 DEF UInputShape
<1>2. ASSUME NEW id \in Ids, UserErases(id) PROVE UInputShape'
  BY <1>2, <1>a DEF UserErases, Running, UInputShape
<1>3. ASSUME NEW kind \in {"start", "stop"}, NEW id \in Ids, UserPlays(kind, id)
             PROVE UInputShape'
  BY <1>3, <1>a DEF UserPlays, Running, UInputShape
<1>4. CASE UserSetsGain
  BY <1>4, <1>a DEF UserSetsGain, Running, UInputShape
<1>5. CASE RequestExpires
  BY <1>5, <1>a DEF RequestExpires, Running, UInputShape
<1>6. CASE CreateDevice
  BY <1>6, <1>a DEF CreateDevice, Running, UInputShape
<1>7. CASE LeaveLoop
  BY <1>7, <1>a DEF LeaveLoop, Running, UInputShape
<1>8. ASSUME NEW last \in BOOLEAN, DestroyDevice(last) PROVE UInputShape'
  BY <1>8, <1>a DEF DestroyDevice, Running, UInputShape
<1>9. CASE ReadRequest
  BY <1>9, <1>a DEF ReadRequest, Running, UInputShape
<1>10. CASE AnswerRequest
  <2>1. /\ ff = "answer" /\ ff' \in {"crashed", "select"} /\ UNCHANGED scriptVars
        /\ request = event => request' = <<>>
        /\ request # event => ff' = "crashed" /\ UNCHANGED <<request, effects>>
    BY <1>10 DEF AnswerRequest
  <2>2. ~ created => request # event
    <3>1. Len(event) = 1
      BY <2>1 DEF UInputTypeOK
    <3>2. event # <<>>
      BY <3>1
    <3>3. QED
      BY <3>2 DEF UInputShape
  <2>3. QED
    BY <2>1, <2>2 DEF UInputShape
<1>11. CASE ReadByte
  BY <1>11, <1>a DEF ReadByte, Running, UInputShape
<1>12. CASE WakeThread
  BY <1>12, <1>a DEF WakeThread, Running, UInputShape
<1>13. CASE JoinThread
  BY <1>13, <1>a DEF JoinThread, Running, UInputShape
<1>14. CASE RunCallback
  BY <1>14, <1>a DEF RunCallback, Running, UInputShape
<1>15. CASE UNCHANGED uinputVars
  BY <1>15 DEF Running, UInputShape
<1>16. QED
  BY <1>1, <1>2, <1>3, <1>4, <1>5, <1>6, <1>7, <1>8, <1>9, <1>10, <1>11, <1>12, <1>13, <1>14,
     <1>15
  DEF UInputNext, FFStep, ScriptStep

(* Each step keeps the types. *)
LEMMA UInputTyped ==
  UInputTypeOK /\ UserEvents /\ UInputShape /\ [UInputNext]_uinputVars => UInputTypeOK'
<1> SUFFICES ASSUME UInputTypeOK, UserEvents, UInputShape, [UInputNext]_uinputVars
                    PROVE UInputTypeOK'
  OBVIOUS
<1>a. UserEvents'
  BY UserEventsNext
<1>b. /\ {event, request, queue}' \subseteq Seq([kind : Callbacks, id : Ids \cup {0},
           effect : Uploads])
      /\ Len(queue)' <= MaxQueue /\ Len(request)' <= 1
  <2>1. UserEvent \subseteq [kind : Callbacks, id : Ids \cup {0}, effect : Uploads]
    BY DEF UserEvent
  <2>2. QED
    BY <1>a, <2>1, LargerSeq DEF UserEvents
<1>1. ASSUME NEW id \in Ids, NEW e \in Uploads, UserUploads(id, e) PROVE UInputTypeOK'
  BY <1>1, <1>b DEF UserUploads, UInputTypeOK
<1>2. ASSUME NEW id \in Ids, UserErases(id) PROVE UInputTypeOK'
  BY <1>2, <1>b DEF UserErases, UInputTypeOK
<1>3. ASSUME NEW kind \in {"start", "stop"}, NEW id \in Ids, UserPlays(kind, id)
             PROVE UInputTypeOK'
  BY <1>3, <1>b DEF UserPlays, UInputTypeOK
<1>4. CASE UserSetsGain
  BY <1>4, <1>b DEF UserSetsGain, UInputTypeOK
<1>5. CASE RequestExpires
  BY <1>5, <1>b DEF RequestExpires, UInputTypeOK
<1>6. CASE CreateDevice
  <2>1. creates' = creates + 1 /\ creates < MaxCreates /\ creates \in 0 .. MaxCreates
    BY <1>6 DEF CreateDevice, UInputTypeOK
  <2>2. creates' \in 0 .. MaxCreates
    BY <2>1, UInputAssumption
  <2>3. /\ created' = TRUE /\ ff' = "select" /\ ff = "none"
        /\ UNCHANGED <<userVars, callbacks, script, leaving, byte, known, event>>
    BY <1>6 DEF CreateDevice, UInputShape
  <2>4. QED
    BY <1>b, <2>2, <2>3 DEF UInputTypeOK
<1>7. CASE LeaveLoop
  BY <1>7, <1>b DEF LeaveLoop, UInputTypeOK
<1>8. ASSUME NEW last \in BOOLEAN, DestroyDevice(last) PROVE UInputTypeOK'
  <2>1. /\ created' = FALSE /\ effects' = <<>> /\ known' = <<>> /\ leaving' = last /\
             script' = "destroy"
        /\ script = "loop" /\ UNCHANGED <<expired, callbacks, creates, byte, ff, event>>
    BY <1>8 DEF DestroyDevice
  <2>2. DOMAIN effects' = {} /\ DOMAIN known' = {}
    BY <2>1
  <2>3. QED
    BY <1>b, <2>1, <2>2 DEF UInputTypeOK
<1>9. CASE ReadRequest
  BY <1>9, <1>b DEF ReadRequest, UInputTypeOK
<1>10. CASE AnswerRequest
  <2>1. /\ event' = <<>> /\ ff = "answer" /\ ff' \in {"crashed", "select"}
        /\ UNCHANGED <<expired, scriptVars>>
    BY <1>10 DEF AnswerRequest
  <2>2. DOMAIN effects' \subseteq Ids
    <3>1. CASE request # event
      BY <1>10, <3>1 DEF AnswerRequest, UInputTypeOK
    <3>2. CASE request = event
      <4>1. effects' = Applied(effects, Head(event), Head(event).effect)
        BY <1>10, <3>2 DEF AnswerRequest
      <4>2. Head(event) \in UserEvent
        BY <2>1, EventTyped
      <4>3. DOMAIN effects \subseteq Ids
        BY DEF UInputTypeOK
      <4>4. QED
        BY <4>1, <4>2, <4>3, AppliedWithin
    <3>3. QED
      BY <3>1, <3>2
  <2>3. QED
    BY <1>b, <2>1, <2>2 DEF UInputTypeOK
<1>11. CASE ReadByte
  BY <1>11, <1>b DEF ReadByte, UInputTypeOK
<1>12. CASE WakeThread
  BY <1>12, <1>b DEF WakeThread, UInputTypeOK
<1>13. CASE JoinThread
  <2>1. /\ ff = "ended" /\ ff' = "none" /\ script' \in {"loop", "ended"} /\ script = "join"
        /\ UNCHANGED <<userVars, callbacks, leaving, created, creates, byte, known, event>>
    BY <1>13 DEF JoinThread
  <2>2. created = FALSE /\ byte = FALSE
    BY <2>1 DEF UInputShape, UInputTypeOK
  <2>3. QED
    BY <1>b, <2>1, <2>2 DEF UInputTypeOK
<1>14. CASE RunCallback
  <2> DEFINE e == Head(event)
  <2>1. /\ ff = "waiting" /\ UNCHANGED <<userVars, callbacks, script, leaving, created,
             creates, byte>>
        /\ known' = Applied(known, e, EffectToMap(e.effect))
        /\ \/ ff' = "answer" /\ event' = event
           \/ ff' = "select" /\ event' = <<>>
    BY <1>14 DEF RunCallback
  <2>2. e \in UserEvent
    BY <2>1, EventTyped
  <2>3. DOMAIN known \subseteq Ids
    BY DEF UInputTypeOK
  <2>4. DOMAIN known' \subseteq Ids
    BY <2>1, <2>2, <2>3, AppliedWithin
  <2>5. QED
    BY <1>b, <2>1, <2>4 DEF UInputTypeOK
<1>15. CASE UNCHANGED uinputVars
  BY <1>15 DEF UInputTypeOK
<1>16. QED
  BY <1>1, <1>2, <1>3, <1>4, <1>5, <1>6, <1>7, <1>8, <1>9, <1>10, <1>11, <1>12, <1>13, <1>14,
     <1>15
  DEF UInputNext, FFStep, ScriptStep

(* RunCallback establishes what AnswerRequest relies on. *)
LEMMA AnswersKnown ==
  AnswerKnown /\ [UInputNext]_uinputVars => AnswerKnown'
<1> SUFFICES ASSUME AnswerKnown, [UInputNext]_uinputVars PROVE AnswerKnown'
  OBVIOUS
<1>1. ASSUME NEW id \in Ids, NEW e \in Uploads, UserUploads(id, e) PROVE AnswerKnown'
  <2>1. UNCHANGED <<created, ff, event, known>>
    BY <1>1 DEF UserUploads
  <2>2. QED
    BY <2>1 DEF AnswerKnown
<1>2. ASSUME NEW id \in Ids, UserErases(id) PROVE AnswerKnown'
  BY <1>2 DEF UserErases, AnswerKnown
<1>3. ASSUME NEW kind \in {"start", "stop"}, NEW id \in Ids, UserPlays(kind, id)
             PROVE AnswerKnown'
  BY <1>3 DEF UserPlays, AnswerKnown
<1>4. CASE UserSetsGain
  BY <1>4 DEF UserSetsGain, AnswerKnown
<1>5. CASE RequestExpires
  BY <1>5 DEF RequestExpires, AnswerKnown
<1>6. CASE CreateDevice
  BY <1>6 DEF CreateDevice, AnswerKnown
<1>7. CASE LeaveLoop
  BY <1>7 DEF LeaveLoop, AnswerKnown
<1>8. ASSUME NEW last \in BOOLEAN, DestroyDevice(last) PROVE AnswerKnown'
  BY <1>8 DEF DestroyDevice, AnswerKnown
<1>9. CASE ReadRequest
  BY <1>9 DEF ReadRequest, AnswerKnown
<1>10. CASE AnswerRequest
  BY <1>10 DEF AnswerRequest, AnswerKnown
<1>11. CASE ReadByte
  BY <1>11 DEF ReadByte, AnswerKnown
<1>12. CASE WakeThread
  BY <1>12 DEF WakeThread, AnswerKnown
<1>13. CASE JoinThread
  BY <1>13 DEF JoinThread, AnswerKnown
<1>14. CASE RunCallback
  <2> PICK e : e = Head(event)
    OBVIOUS
  <2>1. /\ known' = Applied(known, e, EffectToMap(e.effect))
        /\ ff' = IF Asks(e) THEN "answer" ELSE "select"
        /\ Asks(e) => event' = event
    BY <1>14 DEF RunCallback
  <2>2. CASE Asks(e)
    <3>1. CASE e.kind = "upload"
      <4>1. known' = [i \in DOMAIN known \cup {e.id} |->
                        IF i = e.id THEN EffectToMap(e.effect) ELSE known[i]]
        BY <2>1, <3>1 DEF Applied
      <4>2. e.id \in DOMAIN known' /\ known'[e.id] = EffectToMap(e.effect)
        BY <4>1
      <4>3. QED
        BY <2>1, <2>2, <3>1, <4>2 DEF AnswerKnown
    <3>2. CASE e.kind = "erase"
      <4>1. known' = [i \in DOMAIN known \ {e.id} |-> known[i]]
        BY <2>1, <3>2 DEF Applied
      <4>2. QED
        BY <2>1, <2>2, <3>2, <4>1 DEF AnswerKnown
    <3>3. QED
      BY <2>2, <3>1, <3>2 DEF Asks
  <2>3. CASE ~ Asks(e)
    BY <2>1, <2>3 DEF AnswerKnown
  <2>4. QED
    BY <2>2, <2>3
<1>15. CASE UNCHANGED uinputVars
  BY <1>15 DEF AnswerKnown
<1>16. QED
  BY <1>1, <1>2, <1>3, <1>4, <1>5, <1>6, <1>7, <1>8, <1>9, <1>10, <1>11, <1>12, <1>13, <1>14,
     <1>15
  DEF UInputNext, FFStep, ScriptStep

(* RunCallback may change what the script knows of one id; AnswerRequest makes the *)
(* kernel agree on it. *)
LEMMA EffectsKnownNext ==
  EffectsKnown /\ UserEvents /\ UInputTypeOK /\ UInputShape /\ AnswerKnown /\
      [UInputNext]_uinputVars => EffectsKnown'
<1> SUFFICES ASSUME EffectsKnown, UserEvents, UInputTypeOK, UInputShape, AnswerKnown,
                    [UInputNext]_uinputVars PROVE EffectsKnown'
  OBVIOUS
<1>1. ASSUME NEW id \in Ids, NEW e \in Uploads, UserUploads(id, e) PROVE EffectsKnown'
  BY <1>1 DEF UserUploads, Queues, Running, UInputShape, EffectsKnown
<1>2. ASSUME NEW id \in Ids, UserErases(id) PROVE EffectsKnown'
  BY <1>2 DEF UserErases, Queues, Running, UInputShape, EffectsKnown
<1>3. ASSUME NEW kind \in {"start", "stop"}, NEW id \in Ids, UserPlays(kind, id)
             PROVE EffectsKnown'
  BY <1>3 DEF UserPlays, Queues, Running, UInputShape, EffectsKnown
<1>4. CASE UserSetsGain
  BY <1>4 DEF UserSetsGain, Queues, Running, UInputShape, EffectsKnown
<1>5. CASE RequestExpires
  BY <1>5 DEF RequestExpires, Queues, Running, UInputShape, EffectsKnown
<1>6. CASE CreateDevice
  BY <1>6 DEF CreateDevice, Queues, Running, UInputShape, EffectsKnown
<1>7. CASE LeaveLoop
  BY <1>7 DEF LeaveLoop, Queues, Running, UInputShape, EffectsKnown
<1>8. ASSUME NEW last \in BOOLEAN, DestroyDevice(last) PROVE EffectsKnown'
  BY <1>8 DEF DestroyDevice, Queues, Running, UInputShape, EffectsKnown
<1>9. CASE ReadRequest
  BY <1>9 DEF ReadRequest, Queues, Running, UInputShape, EffectsKnown
<1>10. CASE AnswerRequest
  <2> PICK e : e = Head(event)
    OBVIOUS
  <2>1. ff = "answer" /\ UNCHANGED <<created, known>>
    BY <1>10 DEF AnswerRequest
  <2>2. CASE request # event
    BY <1>10, <2>2 DEF AnswerRequest, EffectsKnown, Running
  <2>3. CASE request = event
    <3>1. ff' = "select" /\ effects' = Applied(effects, e, e.effect)
      BY <1>10, <2>3 DEF AnswerRequest
    <3> SUFFICES ASSUME created, NEW id \in Ids
                 PROVE  /\ id \in DOMAIN effects' <=> id \in DOMAIN known
                        /\ id \in DOMAIN effects' => Told(effects'[id], known[id])
      BY <2>1, <3>1 DEF EffectsKnown
    <3>2. Asks(e) /\ e.effect \in Uploads
      BY <2>1, EventTyped DEF AnswerKnown, UserEvent
    <3>3. CASE id # e.id
      <4>1. /\ id \in DOMAIN effects <=> id \in DOMAIN known
            /\ id \in DOMAIN effects => Told(effects[id], known[id])
        BY <2>1, <3>3 DEF EffectsKnown, Running
      <4>2. /\ id \in DOMAIN effects' <=> id \in DOMAIN effects
            /\ id \in DOMAIN effects => effects'[id] = effects[id]
        BY <3>1, <3>3, AppliedElsewhere
      <4>3. QED
        BY <4>1, <4>2
    <3>4. CASE id = e.id /\ e.kind = "upload"
      <4>1. id \in DOMAIN effects' /\ effects'[id] = e.effect
        <5>1. effects' = [i \in DOMAIN effects \cup {e.id} |-> IF i = e.id THEN e.effect
                ELSE effects[i]]
          BY <3>1, <3>4 DEF Applied
        <5>2. QED
          BY <3>4, <5>1
      <4>2. id \in DOMAIN known /\ known[id] = EffectToMap(e.effect)
        BY <2>1, <3>4 DEF AnswerKnown
      <4>3. Told(e.effect, EffectToMap(e.effect))
        BY <3>2, ToldByEffectToMap
      <4>4. QED
        BY <4>1, <4>2, <4>3
    <3>5. CASE id = e.id /\ e.kind = "erase"
      <4>1. id \notin DOMAIN effects'
        <5>1. effects' = [i \in DOMAIN effects \ {e.id} |-> effects[i]]
          BY <3>1, <3>5 DEF Applied
        <5>2. QED
          BY <3>5, <5>1
      <4>2. id \notin DOMAIN known
        BY <2>1, <3>5 DEF AnswerKnown
      <4>3. QED
        BY <4>1, <4>2
    <3>6. QED
      BY <3>2, <3>3, <3>4, <3>5 DEF Asks
  <2>4. QED
    BY <2>2, <2>3
<1>11. CASE ReadByte
  BY <1>11 DEF ReadByte, Queues, Running, UInputShape, EffectsKnown
<1>12. CASE WakeThread
  BY <1>12 DEF WakeThread, Queues, Running, UInputShape, EffectsKnown
<1>13. CASE JoinThread
  BY <1>13 DEF JoinThread, Queues, Running, UInputShape, EffectsKnown
<1>14. CASE RunCallback
  <2> PICK e : e = Head(event)
    OBVIOUS
  <2>1. /\ known' = Applied(known, e, EffectToMap(e.effect))
        /\ ff = "waiting" /\ ff' = IF Asks(e) THEN "answer" ELSE "select"
        /\ Asks(e) => event' = event
        /\ UNCHANGED <<created, effects>>
    BY <1>14 DEF RunCallback
  <2> SUFFICES ASSUME created, NEW id \in Ids
               PROVE  \/ ff' = "answer" /\ Head(event').id = id
                      \/ /\ id \in DOMAIN effects <=> id \in DOMAIN known'
                         /\ id \in DOMAIN effects => Told(effects[id], known'[id])
    BY <2>1 DEF EffectsKnown
  <2>2. /\ id \in DOMAIN effects <=> id \in DOMAIN known
        /\ id \in DOMAIN effects => Told(effects[id], known[id])
    BY <2>1 DEF EffectsKnown, Running
  <2>3. CASE ~ Asks(e)
    <3>1. known' = known
      BY <2>1, <2>3 DEF Applied, Asks
    <3>2. QED
      BY <2>2, <3>1
  <2>4. CASE Asks(e) /\ e.id # id
    <3>1. /\ id \in DOMAIN known' <=> id \in DOMAIN known
          /\ id \in DOMAIN known => known'[id] = known[id]
      BY <2>1, <2>4, AppliedElsewhere
    <3>2. QED
      BY <2>2, <3>1
  <2>5. CASE Asks(e) /\ e.id = id
    BY <2>1, <2>5
  <2>6. QED
    BY <2>3, <2>4, <2>5
<1>15. CASE UNCHANGED uinputVars
  BY <1>15 DEF Queues, Running, UInputShape, EffectsKnown
<1>16. QED
  BY <1>1, <1>2, <1>3, <1>4, <1>5, <1>6, <1>7, <1>8, <1>9, <1>10, <1>11, <1>12, <1>13, <1>14,
     <1>15
  DEF UInputNext, FFStep, ScriptStep

(* The inductive invariant. *)
UInputInv == UserEvents /\ UInputTypeOK /\ UInputShape /\ AnswerKnown /\ EffectsKnown

(* The invariant holds at first. *)
LEMMA UInputInitInv == UInputInit => UInputInv
<1> SUFFICES ASSUME UInputInit PROVE UInputInv
  OBVIOUS
<1>1. /\ <<>> \in Seq(UserEvent) /\ Len(<<>>) = 0 /\ 0 <= MaxQueue /\ 0 \in 0 .. MaxCreates
      /\ <<>> \in Seq([kind : Callbacks, id : Ids \cup {0}, effect : Uploads])
      /\ DOMAIN <<>> = {}
  BY UInputAssumption
<1>2. UserEvents
  BY <1>1 DEF UInputInit, UserEvents
<1>3. UInputTypeOK
  <2>1. {event, request, queue} \subseteq Seq([kind : Callbacks, id : Ids \cup {0},
          effect : Uploads])
    BY <1>1 DEF UInputInit
  <2>2. Len(queue) <= MaxQueue /\ Len(request) <= 1 /\ creates \in 0 .. MaxCreates
    BY <1>1 DEF UInputInit
  <2>3. DOMAIN effects \subseteq Ids /\ DOMAIN known \subseteq Ids
    BY <1>1 DEF UInputInit
  <2>4. QED
    BY <2>1, <2>2, <2>3 DEF UInputInit, UInputTypeOK
<1>4. UInputShape /\ AnswerKnown /\ EffectsKnown
  BY <1>1 DEF UInputInit, UInputShape, AnswerKnown, EffectsKnown
<1>5. QED
  BY <1>2, <1>3, <1>4 DEF UInputInv

(* The invariant is inductive. *)
LEMMA UInputInvNext == UInputInv /\ [UInputNext]_uinputVars => UInputInv'
BY UserEventsNext, UInputTyped, UInputShaped, AnswersKnown, EffectsKnownNext DEF UInputInv

(* UInput: the inductive invariant holds, whatever users, kernel and script do. *)
THEOREM UInputInvariant == UInputSpec => []UInputInv
<1>1. QED
  BY UInputInitInv, UInputInvNext, PTL DEF UInputSpec

(* Type correctness of a uinput device. *)
THEOREM UInputTypes == UInputSpec => []UInputTypeOK
<1>1. UInputInv => UInputTypeOK
  BY DEF UInputInv
<1>2. QED
  BY UInputInvariant, <1>1, PTL

(* The effects the kernel holds are those the ff callbacks told the script of, but *)
(* for the one in hand (UI_BEGIN_FF_UPLOAD ... UI_END_FF_UPLOAD). *)
THEOREM ScriptKnowsEffects == UInputSpec => []EffectsKnown
<1>1. UInputInv => EffectsKnown
  BY DEF UInputInv
<1>2. QED
  BY UInputInvariant, <1>1, PTL
================================================================================
