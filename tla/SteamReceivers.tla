----------------------------- MODULE SteamReceivers -----------------------------
(***************************************************************************)
(* Steam Controller receivers: the udev thread that opens and removes them, *)
(* a monitor thread per receiver, the scripts of their controllers, and     *)
(* main. A script's threads are those of ScriptThread with a shared reader, *)
(* reduced to whether the script's loop runs, which is what a monitor that  *)
(* emits an input report waits for. The manager's addDevice and removeDevice *)
(* are one step each: UdevDevices has what a set-file may do within them.     *)
(***************************************************************************)
EXTENDS Naturals, Sequences, FiniteSets

CONSTANTS
  Paths,       \* syspaths of receivers
  Wired,       \* those that are a controller connected by a cable
  MaxObjects,  \* how many controller objects may exist at a time
  MaxPlugged,  \* bound: receivers plugged at a time
  MaxReports,  \* bound: unread reports of a receiver
  MaxUevents   \* bound: unread device events

ASSUME SteamReceiversAssumption ==
  /\ Wired \subseteq Paths
  /\ {MaxObjects, MaxPlugged, MaxReports, MaxUevents} \subseteq Nat

VARIABLES
  present,    \* plugged receivers
  on,         \* those whose controller is switched on
  uevents,    \* device events nobody has read
  udev,       \* where the udev thread is
  path,       \* the receiver it is handling
  opened,     \* the driver's _receivers
  dead,       \* receivers that were unplugged while they were open
  reports,    \* what can be read from each receiver
  byte,       \* receivers whose pipe holds a byte
  leaving,    \* receivers whose monitor saw that byte in its last select
  monitor,    \* where each monitor thread is
  connected,  \* the receivers whose _connected is true
  device,     \* _device of each receiver, 0 for none
  allocated,  \* the controller objects that exist
  script,     \* state of the script of each controller object
  requests,   \* <<object, receiver>>: its JS thread is in sendRequest; 0 for an orphan's
  orphans,    \* open receivers with a deleted controller on which a script was started
  main,       \* where main is
  restarting, \* the object whose script a set-file restarts, or 0
  erased      \* the receiver of that object once the script was erased, as a set

kernelVars   == <<present, on, uevents>>
udevVars     == <<udev, path>>
receiverVars == <<opened, dead, reports, byte, leaving, monitor, connected, device, allocated>>
scriptVars   == <<script, requests, orphans>>
mainVars     == <<main, restarting, erased>>
vars == <<kernelVars, udevVars, receiverVars, scriptVars, mainVars>>

Objects == 1 .. MaxObjects

UdevStates    == {"idle", "open", "query", "launch", "find", "join", "retract", "delete",
                  "ended", "terminated"}
MonitorStates == {"none", "start", "select", "query", "announce", "blocked", "retract",
                  "delete", "ended"}
ScriptStates  == {"none", "init", "run", "failed", "stopped"}
MainStates    == {"dispatch", "join", "stop", "statics", "ended", "terminated"}
ReportKinds   == {"connected", "disconnected", "input"}

Uevent == [action : {"add", "remove"}, path : Paths]

(* When the daemon starts, each plugged receiver is enumerated, and it is    *)
(* announced as well when it was plugged in just before.                     *)
Found == [action : {"add"}, path : present]

Init ==
  /\ present \in {S \in SUBSET Paths : Cardinality(S) <= MaxPlugged}
  /\ on \in SUBSET present
  /\ Wired \cap present \subseteq on
  /\ \E n \in 0 .. MaxUevents : uevents \in [1 .. n -> Found]
  /\ \A e \in Found : Cardinality({i \in DOMAIN uevents : uevents[i] = e}) \in {1, 2}
  /\ udev = "idle"
  /\ path \in Paths
  /\ opened = {} /\ dead = {} /\ byte = {} /\ leaving = {} /\ connected = {}
  /\ reports = [p \in Paths |-> <<>>]
  /\ monitor = [p \in Paths |-> "none"]
  /\ device = [p \in Paths |-> 0]
  /\ allocated = {}
  /\ script = [o \in Objects |-> "none"]
  /\ requests = {} /\ orphans = {}
  /\ main = "dispatch"
  /\ restarting = 0 /\ erased = {}

(* A receiver is open from its constructor to its destructor. *)
Constructing == udev \in {"query", "launch"}
Open(p) == p \in opened \/ (Constructing /\ path = p)

(* The manager's callbacks are installed until ~ScriptManager clears them. *)
Managed == main \in {"dispatch", "join"}

Scripts == {o \in Objects : script[o] # "none"}

Waiting(o) == \E r \in requests : r[1] = o
--------------------------------------------------------------------------------
(* What the hardware does. A report is read from an open receiver only.      *)
Report(p, r) ==
  reports' = IF Open(p) THEN [reports EXCEPT ![p] = Append(@, r)] ELSE reports

HasRoom(p) == Len(reports[p]) < MaxReports /\ p \notin dead

Plug(p) ==
  /\ p \notin present
  /\ Cardinality(present) < MaxPlugged
  /\ Len(uevents) < MaxUevents
  /\ present' = present \cup {p}
  /\ on' = IF p \in Wired THEN on \cup {p} ELSE on
  /\ uevents' = Append(uevents, [action |-> "add", path |-> p])
  /\ UNCHANGED <<udevVars, receiverVars, scriptVars, mainVars>>

Unplug(p) ==
  /\ p \in present
  /\ Len(uevents) < MaxUevents
  /\ present' = present \ {p}
  /\ on' = on \ {p}
  /\ uevents' = Append(uevents, [action |-> "remove", path |-> p])
  /\ dead' = IF Open(p) THEN dead \cup {p} ELSE dead
  /\ UNCHANGED <<udevVars, opened, reports, byte, leaving, monitor, connected, device,
                 allocated, scriptVars, mainVars>>

SwitchOn(p) ==
  /\ p \in present \ (on \cup Wired)
  /\ HasRoom(p)
  /\ on' = on \cup {p}
  /\ Report(p, "connected")
  /\ UNCHANGED <<present, uevents, udevVars, opened, dead, byte, leaving, monitor, connected,
                 device, allocated, scriptVars, mainVars>>

SwitchOff(p) ==
  /\ p \in on \ Wired
  /\ HasRoom(p)
  /\ on' = on \ {p}
  /\ Report(p, "disconnected")
  /\ UNCHANGED <<present, uevents, udevVars, opened, dead, byte, leaving, monitor, connected,
                 device, allocated, scriptVars, mainVars>>

Input(p) ==
  /\ p \in on
  /\ HasRoom(p) /\ Open(p)
  /\ Report(p, "input")
  /\ UNCHANGED <<kernelVars, udevVars, opened, dead, byte, leaving, monitor, connected,
                 device, allocated, scriptVars, mainVars>>
--------------------------------------------------------------------------------
(* Plausible mistakes, each a wrong version of the definition named before   *)
(* the underscore; PROJECT.json lists which property notices each of them.   *)

(* The deleted controller is left in _device. *)
FreeDevice_KeepsPointer(p) ==
  /\ allocated' = allocated \ {device[p]}
  /\ UNCHANGED device

(* Script::stop detaches the JS thread where it should join it. *)
UnloadScript_Detached(p) ==
  /\ script' = IF Managed THEN [script EXCEPT ![device[p]] = "none"] ELSE script
  /\ IF restarting # 0 /\ restarting = device[p]
       THEN restarting' = 0 /\ erased' = {p}
       ELSE UNCHANGED <<restarting, erased>>

(* removeDevice joins the monitor without writing to its pipe. *)
FindReceiver_NoByte ==
  /\ udev = "find"
  /\ udev' = IF path \in opened THEN "join" ELSE "idle"
  /\ UNCHANGED <<kernelVars, path, receiverVars, scriptVars, mainVars>>

(* monitor does not emit connected for a controller that is there already. *)
StartMonitor_Silent(p) ==
  /\ monitor[p] = "start"
  /\ monitor' = [monitor EXCEPT ![p] = "select"]
  /\ UNCHANGED <<kernelVars, udevVars, opened, dead, reports, byte, leaving, connected, device,
                 allocated, scriptVars, mainVars>>

(* A Disconnected report deletes the controller without emitting disconnected. *)
Retract_Untold(p) ==
  /\ monitor[p] = "retract"
  /\ monitor' = [monitor EXCEPT ![p] = "delete"]
  /\ UNCHANGED <<kernelVars, udevVars, opened, dead, reports, byte, leaving, connected, device,
                 allocated, scriptVars, mainVars>>

(* The driver's destructor joins a monitor it has not stopped. *)
StopReceiver_NoByte(p) ==
  /\ main = "statics"
  /\ p \in opened
  /\ monitor[p] = "ended"
  /\ byte' = byte \cup {p}
  /\ UNCHANGED <<kernelVars, udevVars, opened, dead, reports, leaving, monitor, connected,
                 device, allocated, scriptVars, mainVars>>
--------------------------------------------------------------------------------
(* The objects of controllers. new SteamControllerDevice returns once it has *)
(* an answer to its query: never, when the receiver is gone.                 *)
NewDevice(p) ==
  /\ p \notin dead
  /\ \E o \in Objects \ (allocated \cup Scripts) :
       /\ device' = [device EXCEPT ![p] = o]
       /\ allocated' = allocated \cup {o}

FreeDevice(p) ==
  /\ allocated' = allocated \ {device[p]}
  /\ device' = [device EXCEPT ![p] = 0]

(* inputDeviceAdded and inputDeviceRemoved. Script::stop waits for the JS    *)
(* thread, which ends the request it is in. A set-file that has stopped the  *)
(* script is left with an erased one.                                        *)
LoadScript(p) ==
  script' = IF Managed THEN [script EXCEPT ![device[p]] = "init"] ELSE script

UnloadScript(p) ==
  IF Managed
    THEN /\ ~Waiting(device[p])
         /\ script' = [script EXCEPT ![device[p]] = "none"]
         /\ IF restarting # 0 /\ restarting = device[p]
              THEN restarting' = 0 /\ erased' = {p}
              ELSE UNCHANGED <<restarting, erased>>
    ELSE UNCHANGED <<script, restarting, erased>>
--------------------------------------------------------------------------------
(* The udev thread: SteamControllerDriver::addDevice and removeDevice.       *)

TakeUevent ==
  /\ udev = "idle"
  /\ uevents # <<>>
  /\ path' = Head(uevents).path
  /\ udev' = IF Head(uevents).action = "add" THEN "open" ELSE "find"
  /\ uevents' = Tail(uevents)
  /\ UNCHANGED <<present, on, receiverVars, scriptVars, mainVars>>

(* The receiver's constructor throws when the device is gone, and nobody     *)
(* catches that. The std::thread of a receiver that is open already is       *)
(* destroyed while it is joinable. Both end the process.                     *)
OpenReceiver ==
  /\ udev = "open"
  /\ IF path \in present \ opened
       THEN /\ udev' = IF path \in Wired THEN "query" ELSE "launch"
            /\ connected' = IF path \in Wired THEN connected \cup {path} ELSE connected
            /\ reports' = IF path \in Wired THEN reports
                          ELSE [reports EXCEPT ![path] =
                                  <<IF path \in on THEN "connected" ELSE "disconnected">>]
       ELSE udev' = "terminated" /\ UNCHANGED <<connected, reports>>
  /\ UNCHANGED <<kernelVars, path, opened, dead, byte, leaving, monitor, device, allocated,
                 scriptVars, mainVars>>

QueryWired ==
  /\ udev = "query"
  /\ NewDevice(path)
  /\ udev' = "launch"
  /\ UNCHANGED <<kernelVars, path, opened, dead, reports, byte, leaving, monitor, connected,
                 scriptVars, mainVars>>

LaunchMonitor ==
  /\ udev = "launch"
  /\ udev' = "idle"
  /\ opened' = opened \cup {path}
  /\ monitor' = [monitor EXCEPT ![path] = "start"]
  /\ UNCHANGED <<kernelVars, path, dead, reports, byte, leaving, connected, device, allocated,
                 scriptVars, mainVars>>

FindReceiver ==
  /\ udev = "find"
  /\ IF path \in opened
       THEN udev' = "join" /\ byte' = byte \cup {path}
       ELSE udev' = "idle" /\ UNCHANGED byte
  /\ UNCHANGED <<kernelVars, path, opened, dead, reports, leaving, monitor, connected, device,
                 allocated, scriptVars, mainVars>>

(* The monitor has ended: ~SteamControllerReceiver tests _connected. *)
JoinMonitor ==
  /\ udev = "join"
  /\ monitor[path] = "ended"
  /\ udev' = IF path \in connected THEN "retract" ELSE "delete"
  /\ connected' = connected \ {path}
  /\ UNCHANGED <<kernelVars, path, opened, dead, reports, byte, leaving, monitor, device,
                 allocated, scriptVars, mainVars>>

RetractDevice ==
  /\ udev = "retract"
  /\ UnloadScript(path)
  /\ udev' = "delete"
  /\ UNCHANGED <<kernelVars, path, receiverVars, requests, orphans, main>>

(* What is left of a receiver that is closed; an orphan's request to it is    *)
(* none to the receiver that may be opened there next.                       *)
Closed(p) ==
  /\ FreeDevice(p)
  /\ opened' = opened \ {p}
  /\ dead' = dead \ {p}
  /\ reports' = [reports EXCEPT ![p] = <<>>]
  /\ byte' = byte \ {p}
  /\ leaving' = leaving \ {p}
  /\ monitor' = [monitor EXCEPT ![p] = "none"]
  /\ connected' = connected \ {p}
  /\ orphans' = orphans \ {p}
  /\ requests' = requests \ {<<0, p>>}

CloseReceiver ==
  /\ udev = "delete"
  /\ Closed(path)
  /\ udev' = "idle"
  /\ UNCHANGED <<kernelVars, path, script, mainVars>>
--------------------------------------------------------------------------------
(* A monitor thread: SteamControllerReceiver::monitor and parseReport.       *)

(* Once a report is parsed, the thread ends if its last select saw the byte. *)
Return(p) == monitor' = [monitor EXCEPT ![p] = IF p \in leaving THEN "ended" ELSE "select"]

StartMonitor(p) ==
  /\ monitor[p] = "start"
  /\ monitor' = [monitor EXCEPT ![p] = IF p \in connected THEN "announce" ELSE "select"]
  /\ UNCHANGED <<kernelVars, udevVars, opened, dead, reports, byte, leaving, connected, device,
                 allocated, scriptVars, mainVars>>

ReadReport(p) ==
  /\ monitor[p] = "select"
  /\ reports[p] # <<>>
  /\ reports' = [reports EXCEPT ![p] = Tail(@)]
  /\ leaving' = IF p \in byte THEN leaving \cup {p} ELSE leaving
  /\ LET next == CASE Head(reports[p]) = "connected" /\ p \notin connected -> "query"
                    [] Head(reports[p]) = "disconnected" /\ p \in connected -> "retract"
                    [] Head(reports[p]) = "input" /\ p \in connected
                         /\ script[device[p]] = "run" -> "blocked"
                    [] OTHER -> IF p \in byte THEN "ended" ELSE "select"
     IN /\ monitor' = [monitor EXCEPT ![p] = next]
        /\ connected' = CASE next = "query"   -> connected \cup {p}
                          [] next = "retract" -> connected \ {p}
                          [] OTHER            -> connected
  /\ UNCHANGED <<kernelVars, udevVars, opened, dead, byte, device, allocated, scriptVars, mainVars>>

(* Nothing is left to read: the byte, or the error of a device that is gone. *)
EndMonitor(p) ==
  /\ monitor[p] = "select"
  /\ reports[p] = <<>>
  /\ p \in byte \cup dead
  /\ monitor' = [monitor EXCEPT ![p] = "ended"]
  /\ UNCHANGED <<kernelVars, udevVars, opened, dead, reports, byte, leaving, connected, device,
                 allocated, scriptVars, mainVars>>

QueryDevice(p) ==
  /\ monitor[p] = "query"
  /\ NewDevice(p)
  /\ monitor' = [monitor EXCEPT ![p] = "announce"]
  /\ UNCHANGED <<kernelVars, udevVars, opened, dead, reports, byte, leaving, connected,
                 scriptVars, mainVars>>

Announce(p) ==
  /\ monitor[p] = "announce"
  /\ LoadScript(p)
  /\ Return(p)
  /\ UNCHANGED <<kernelVars, udevVars, opened, dead, reports, byte, leaving, connected, device,
                 allocated, requests, orphans, mainVars>>

Retract(p) ==
  /\ monitor[p] = "retract"
  /\ UnloadScript(p)
  /\ monitor' = [monitor EXCEPT ![p] = "delete"]
  /\ UNCHANGED <<kernelVars, udevVars, opened, dead, reports, byte, leaving, connected, device,
                 allocated, requests, orphans, main>>

Delete(p) ==
  /\ monitor[p] = "delete"
  /\ FreeDevice(p)
  /\ Return(p)
  /\ UNCHANGED <<kernelVars, udevVars, opened, dead, reports, byte, leaving, connected,
                 scriptVars, mainVars>>

(* The JS thread runs the handler the input report is emitted to. *)
Serve(p) ==
  /\ monitor[p] = "blocked"
  /\ script[device[p]] = "run"
  /\ Return(p)
  /\ UNCHANGED <<kernelVars, udevVars, opened, dead, reports, byte, leaving, connected, device,
                 allocated, scriptVars, mainVars>>
--------------------------------------------------------------------------------
(* JS threads, as far as a monitor or a request can tell.                    *)

InitReturns(o) ==
  /\ script[o] = "init"
  /\ \E s \in {"run", "failed"} : script' = [script EXCEPT ![o] = s]
  /\ UNCHANGED <<kernelVars, udevVars, receiverVars, requests, orphans, mainVars>>

(* Every JS method of the device is a sendRequest to its receiver. One that  *)
(* init makes is as good as one made when the loop has started.              *)
Unloading(p) == monitor[p] = "retract" \/ (udev = "retract" /\ path = p) \/ main = "stop"

BeginRequest(p) ==
  /\ device[p] \in Objects
  /\ script[device[p]] = "run"
  /\ ~Unloading(p)
  /\ ~Waiting(device[p])
  /\ requests' = requests \cup {<<device[p], p>>}
  /\ UNCHANGED <<kernelVars, udevVars, receiverVars, script, orphans, mainVars>>

(* The script of a deleted controller, whose receiver no thread keeps from it. *)
OrphanRequest(p) ==
  /\ p \in orphans
  /\ requests' = requests \cup {<<0, p>>}
  /\ UNCHANGED <<kernelVars, udevVars, receiverVars, script, orphans, mainVars>>

EndRequest(r) ==
  /\ r \in requests
  /\ requests' = requests \ {r}
  /\ UNCHANGED <<kernelVars, udevVars, receiverVars, script, orphans, mainVars>>
--------------------------------------------------------------------------------
(* main: set-file, and the end of the daemon.                                *)

(* stop waits for an init that is under way.                                 *)
SetFileStop(o) ==
  /\ main = "dispatch"
  /\ restarting = 0 /\ erased = {}
  /\ script[o] \in {"run", "failed"} /\ ~Waiting(o)
  /\ script' = [script EXCEPT ![o] = "stopped"]
  /\ restarting' = o
  /\ UNCHANGED <<kernelVars, udevVars, receiverVars, requests, orphans, main, erased>>

(* start follows whether the script is still there or not: an erased one runs *)
(* in freed memory, if the process survives that, and nobody stops it.        *)
SetFileStart ==
  /\ \/ /\ restarting # 0
        /\ script' = [script EXCEPT ![restarting] = "init"]
        /\ UNCHANGED <<orphans, main>>
     \/ /\ erased # {}
        /\ UNCHANGED script
        /\ \/ orphans' = orphans \cup (erased \cap opened) /\ UNCHANGED main
           \/ main' = "terminated" /\ UNCHANGED orphans
  /\ restarting' = 0 /\ erased' = {}
  /\ UNCHANGED <<kernelVars, udevVars, receiverVars, requests>>

LeaveDispatcher ==
  /\ main = "dispatch"
  /\ restarting = 0 /\ erased = {}
  /\ main' = "join"
  /\ UNCHANGED <<kernelVars, udevVars, receiverVars, scriptVars, restarting, erased>>

(* The udev thread ends between two device events. *)
JoinUdev ==
  /\ main = "join"
  /\ udev = "idle"
  /\ udev' = "ended"
  /\ main' = "stop"
  /\ UNCHANGED <<kernelVars, path, receiverVars, scriptVars, restarting, erased>>

(* ~ScriptManager: one script after the other is stopped. *)
StopScript(o) ==
  /\ main = "stop"
  /\ o \in Scripts /\ ~Waiting(o)
  /\ script' = [script EXCEPT ![o] = "none"]
  /\ UNCHANGED <<kernelVars, udevVars, receiverVars, requests, orphans, mainVars>>

EndManager ==
  /\ main = "stop"
  /\ Scripts = {}
  /\ main' = "statics"
  /\ UNCHANGED <<kernelVars, udevVars, receiverVars, scriptVars, restarting, erased>>

(* ~SteamControllerDriver: stop, join and delete each receiver. *)
StopReceiver(p) ==
  /\ main = "statics"
  /\ p \in opened \ byte
  /\ byte \cap opened = {}
  /\ byte' = byte \cup {p}
  /\ UNCHANGED <<kernelVars, udevVars, opened, dead, reports, leaving, monitor, connected,
                 device, allocated, scriptVars, mainVars>>

DropReceiver(p) ==
  /\ main = "statics"
  /\ p \in opened \cap byte
  /\ monitor[p] = "ended"
  /\ Closed(p)
  /\ UNCHANGED <<kernelVars, udevVars, script, mainVars>>

EndMain ==
  /\ main = "statics"
  /\ opened = {}
  /\ main' = "ended"
  /\ UNCHANGED <<kernelVars, udevVars, receiverVars, scriptVars, restarting, erased>>
--------------------------------------------------------------------------------
Hardware ==
  \E p \in Paths : Plug(p) \/ Unplug(p) \/ SwitchOn(p) \/ SwitchOff(p) \/ Input(p)

UdevThread ==
  \/ TakeUevent \/ OpenReceiver \/ QueryWired \/ LaunchMonitor
  \/ FindReceiver \/ JoinMonitor \/ RetractDevice \/ CloseReceiver

Monitor(p) ==
  \/ StartMonitor(p) \/ ReadReport(p) \/ EndMonitor(p)
  \/ QueryDevice(p) \/ Announce(p) \/ Retract(p) \/ Delete(p)

JsThread ==
  \/ \E o \in Objects : InitReturns(o)
  \/ \E p \in Paths : BeginRequest(p) \/ OrphanRequest(p)
  \/ \E r \in requests : EndRequest(r)

Shutdown ==
  \/ JoinUdev \/ \E o \in Objects : StopScript(o)
  \/ EndManager \/ \E p \in Paths : StopReceiver(p) \/ DropReceiver(p)
  \/ EndMain

Main ==
  \/ \E o \in Objects : SetFileStop(o)
  \/ SetFileStart \/ LeaveDispatcher \/ Shutdown

(* What ends the process ends every thread. *)
Alive == udev # "terminated" /\ main # "terminated"

Next ==
  /\ Alive
  /\ \/ Hardware \/ UdevThread \/ JsThread \/ Main
     \/ \E p \in Paths : Monitor(p) \/ Serve(p)

Spec == Init /\ [][Next]_vars

(* Threads run, requests are answered and init returns. A handler that was   *)
(* queued is executed unless scripts are replaced again and again: strong    *)
(* fairness. None for the hardware, JS code that makes requests, set-file    *)
(* and the signal that ends the daemon.                                      *)
Fairness ==
  /\ WF_vars(Alive /\ UdevThread)
  /\ WF_vars(Alive /\ Shutdown)
  /\ WF_vars(Alive /\ SetFileStart)
  /\ WF_vars(Alive /\ \E o \in Objects : InitReturns(o))
  /\ \A o \in Objects : WF_vars(Alive /\ \E p \in Paths : EndRequest(<<o, p>>))
  /\ \A p \in Paths : WF_vars(Alive /\ Monitor(p)) /\ SF_vars(Alive /\ Serve(p))

FairSpec == Spec /\ Fairness
--------------------------------------------------------------------------------
TypeOK ==
  /\ present \in SUBSET Paths
  /\ on \in SUBSET present
  /\ uevents \in Seq(Uevent)
  /\ udev \in UdevStates
  /\ path \in Paths
  /\ {opened, dead, byte, leaving, connected} \subseteq SUBSET Paths
  /\ reports \in [Paths -> Seq(ReportKinds)]
  /\ monitor \in [Paths -> MonitorStates]
  /\ device \in [Paths -> Objects \cup {0}]
  /\ allocated \in SUBSET Objects
  /\ script \in [Objects -> ScriptStates]
  /\ requests \in SUBSET ((Objects \cup {0}) \X Paths)
  /\ main \in MainStates
  /\ restarting \in Objects \cup {0}
  /\ {orphans, erased} \subseteq SUBSET Paths

(* A receiver and its controller agree: the object exists between Connected  *)
(* and Disconnected, its script while no thread creates or deletes it, and a *)
(* monitor only handles input, or a removal, of a controller that exists.    *)
InTransit(p) ==
  \/ monitor[p] \in {"query", "retract", "delete"}
  \/ path = p /\ udev \in {"query", "retract", "delete"}

ControllersAgree ==
  \A p \in Paths :
    /\ ~InTransit(p) => (p \in connected <=> device[p] # 0)
    /\ monitor[p] \in {"announce", "blocked", "retract", "delete"} => device[p] # 0
    /\ p \in opened <=> monitor[p] # "none"
    /\ Managed /\ ~InTransit(p) /\ p \in connected /\ p \in opened
         /\ monitor[p] \notin {"start", "announce"} => device[p] \in Scripts

(* sendRequest means to lock _request_mutex but declares a variable of that  *)
(* name: an answer is read by the thread that asked because no two threads   *)
(* are ever in a request to one receiver. The JS thread of an earlier        *)
(* controller has been joined when its successor is queried, unless a set-file *)
(* started it again when it had been erased.                                 *)
Requesters(p) ==
  {[by |-> "js", object |-> r[1]] : r \in {q \in requests : q[2] = p}}
    \cup (IF monitor[p] = "query" THEN {[by |-> "monitor", object |-> 0]} ELSE {})
    \cup (IF udev = "query" /\ path = p THEN {[by |-> "udev", object |-> 0]} ELSE {})

RequestsExclusive ==
  Managed => \A p \in Paths \ orphans : Cardinality(Requesters(p)) <= 1

(* Where a thread waits in vain: for an answer of a receiver that is gone,   *)
(* and for a script whose next load failed after the call was queued.        *)
Querying(p) == monitor[p] = "query" \/ (udev = "query" /\ path = p)
Stuck(p) ==
  \/ Querying(p) /\ p \in dead
  \/ monitor[p] = "blocked" /\ script[device[p]] \in {"none", "failed"}

(* removeDevice stops the monitor whatever it is doing, unless it is stuck.  *)
RemovalReturns == udev = "join" ~> udev # "join" \/ Stuck(path) \/ ~Alive

(* A controller that stays switched on gets a script, whether it was there   *)
(* before its receiver was opened or connects later, unless the daemon ends  *)
(* or a thread is stuck.                                                     *)
ControllerGetsScript ==
  \A p \in Paths :
    <>[](p \in on /\ Alive /\ Managed /\ \A q \in Paths : ~Stuck(q))
      => <>[](device[p] \in Scripts)

(* The daemon ends once it has begun to, unless a monitor is stuck.          *)
ShutdownEnds == main = "stop" ~> main = "ended" \/ \E p \in Paths : Stuck(p)

(* "stop must still be called" (InputDevice::error): a device is not deleted *)
(* before its script has stopped it.                                         *)
StoppedBeforeDeleted == Scripts \subseteq allocated

(* While the manager is there, receivers, manager and set-file implement     *)
(* what DeviceScripts promises of the scripts that run; orphans, which have   *)
(* no object any more, are not among these.                                  *)
Running == {o \in Objects : script[o] \notin {"none", "stopped"}}

Promise == INSTANCE DeviceScripts WITH
  alive  <- allocated,
  loaded <- IF Managed THEN Running ELSE {}

PromiseSpec == Promise!Spec
================================================================================
