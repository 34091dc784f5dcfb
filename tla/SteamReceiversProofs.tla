-------------------------- MODULE SteamReceiversProofs --------------------------
(***************************************************************************)
(* Proofs about SteamReceivers, for any receivers, any number of reports    *)
(* and whatever main does meanwhile.                                       *)
(***************************************************************************)
EXTENDS SteamReceivers, FiniteSetTheorems, SequenceTheorems, TLAPS

(* The udev thread is handling p. *)
UdevAt(p, S) == path = p /\ udev \in S

(* The position of the two threads that handle a receiver, what it says of   *)
(* the receiver, and what it says of its controller object.                  *)
Position(p) ==
  /\ p \in opened <=> monitor[p] # "none"
  /\ UdevAt(p, {"query", "launch"}) => p \notin opened
  /\ UdevAt(p, {"join", "retract", "delete"}) => p \in opened
  /\ UdevAt(p, {"retract", "delete"}) => monitor[p] = "ended" /\ p \notin connected

Controller(p) ==
  /\ UdevAt(p, {"query"}) \/ monitor[p] = "query" => p \in connected /\ device[p] = 0
  /\ UdevAt(p, {"retract"}) => device[p] # 0
  /\ monitor[p] \in {"retract", "delete"} => p \notin connected /\ device[p] # 0
  /\ monitor[p] \in {"announce", "blocked"} => p \in connected
  /\ ~InTransit(p) => (p \in connected <=> device[p] # 0)
  /\ ~Open(p) => p \notin connected

(* Objects are not shared. *)
Own == \A p \in Paths : device[p] # 0 =>
         /\ device[p] \in allocated
         /\ \A q \in Paths : device[p] = device[q] => p = q

(* Scripts are those of controllers that were announced and not retracted. *)
Announced(p) ==
  monitor[p] \notin {"none", "start", "announce", "delete"} /\ ~UdevAt(p, {"delete"})

Loaded ==
  Managed =>
    /\ \A p \in Paths : device[p] # 0 => (device[p] \in Scripts <=> Announced(p))
    /\ \A o \in Scripts : \E p \in Paths : device[p] = o

(* A request is made by the loaded script of the receiver's controller, or by *)
(* an orphan.                                                                *)
Allowed(r) ==
  \/ r[1] \in Scripts /\ (Managed => device[r[2]] = r[1])
  \/ r[1] = 0 /\ r[2] \in orphans

Requested == \A r \in requests : Allowed(r)

(* set-file starts the script it has stopped, or an erased one. *)
Restart == restarting # 0 => main = "dispatch" /\ script[restarting] = "stopped"

UdevFirst == Managed \/ udev = "ended" \/ main = "terminated"

Rest == /\ \A p \in Paths : Position(p) /\ Controller(p)
        /\ Own /\ Loaded /\ Requested /\ Restart /\ UdevFirst

SteamInv == TypeOK /\ Rest
--------------------------------------------------------------------------------
USE DEF kernelVars, udevVars, receiverVars, scriptVars, mainVars

LEMMA SteamInit == Init => SteamInv
<1> SUFFICES ASSUME Init PROVE SteamInv
  OBVIOUS
<1> USE DEF Init
<1>1. TypeOK
  <2>1. uevents \in Seq(Uevent)
    <3>1. Found \subseteq Uevent
      BY DEF Found, Uevent
    <3>2. PICK n \in 0 .. MaxUevents : uevents \in [1 .. n -> Found]
      OBVIOUS
    <3>3. n \in Nat /\ uevents \in [1 .. n -> Uevent]
      BY <3>1, <3>2, SteamReceiversAssumption
    <3>4. QED
      BY <3>3, SeqDef
  <2>2. reports \in [Paths -> Seq(ReportKinds)]
    BY EmptySeq
  <2>3. device \in [Paths -> Objects \cup {0}] /\ script \in [Objects -> ScriptStates]
    BY DEF ScriptStates
  <2>4. QED
    BY <2>1, <2>2, <2>3 DEF TypeOK, UdevStates, MonitorStates, MainStates
<1>2. \A p \in Paths : Position(p) /\ Controller(p)
  BY DEF Position, Controller, UdevAt, InTransit, Open, Constructing
<1>3. Scripts = {} /\ Own /\ Loaded /\ Requested /\ Restart /\ UdevFirst
  BY DEF Scripts, Own, Loaded, Requested, Allowed, Restart, UdevFirst, Managed
<1>4. QED
  BY <1>1, <1>2, <1>3 DEF SteamInv, Rest

(* What the reports and device events in transit are plays no part in Rest.  *)
LEMMA HardwareNext == SteamInv /\ Hardware => SteamInv'
<1> SUFFICES ASSUME SteamInv, NEW p \in Paths,
                    Plug(p) \/ Unplug(p) \/ SwitchOn(p) \/ SwitchOff(p) \/ Input(p)
             PROVE  SteamInv'
  BY DEF Hardware
<1>1. UNCHANGED <<udevVars, opened, byte, leaving, monitor, connected, device, allocated,
                  scriptVars, mainVars>>
  BY DEF Plug, Unplug, SwitchOn, SwitchOff, Input
<1>2. TypeOK'
  <2>1. present' \in SUBSET Paths /\ on' \in SUBSET present' /\ dead' \in SUBSET Paths
    BY DEF Plug, Unplug, SwitchOn, SwitchOff, Input, SteamInv, TypeOK
  <2>2. uevents' \in Seq(Uevent)
    <3>1. uevents \in Seq(Uevent)
      BY DEF SteamInv, TypeOK
    <3>2. \A a \in {"add", "remove"} : [action |-> a, path |-> p] \in Uevent
      BY DEF Uevent
    <3>3. QED
      BY <3>1, <3>2 DEF Plug, Unplug, SwitchOn, SwitchOff, Input
  <2>3. reports' \in [Paths -> Seq(ReportKinds)]
    <3>1. reports \in [Paths -> Seq(ReportKinds)]
      BY DEF SteamInv, TypeOK
    <3>2. \A r \in ReportKinds : Report(p, r) => reports' \in [Paths -> Seq(ReportKinds)]
      BY <3>1 DEF Report
    <3>3. QED
      BY <3>1, <3>2 DEF Plug, Unplug, SwitchOn, SwitchOff, Input, ReportKinds
  <2>4. QED
    BY <1>1, <2>1, <2>2, <2>3 DEF SteamInv, TypeOK
<1>3. Rest'
  BY <1>1 DEF SteamInv, Rest, Position, Controller, UdevAt, InTransit, Open, Constructing, Own,
              Loaded, Announced, Managed, Scripts, Requested, Allowed, Restart, UdevFirst
<1>4. QED
  BY <1>2, <1>3 DEF SteamInv

(* A new controller gets an object no other receiver, and no script, has.    *)
LEMMA NewObject ==
  ASSUME SteamInv, NEW p \in Paths, NewDevice(p), device[p] = 0
  PROVE  /\ device' \in [Paths -> Objects \cup {0}] /\ allocated' \in SUBSET Objects
         /\ Own'
         /\ device'[p] # 0 /\ device'[p] \notin Scripts
         /\ \A q \in Paths \ {p} : device'[q] = device[q]
<1>1. PICK o \in Objects \ (allocated \cup Scripts) :
        device' = [device EXCEPT ![p] = o] /\ allocated' = allocated \cup {o}
  BY DEF NewDevice
<1>2. o # 0
  BY DEF Objects
<1>3. QED
  BY <1>1, <1>2 DEF SteamInv, TypeOK, Rest, Own

LEMMA UdevNext == SteamInv /\ Alive /\ UdevThread => SteamInv'
<1> SUFFICES ASSUME SteamInv, Alive, UdevThread PROVE SteamInv'
  OBVIOUS
<1>u. udev # "ended" /\ Managed
  BY DEF UdevThread, TakeUevent, OpenReceiver, QueryWired, LaunchMonitor, FindReceiver,
         JoinMonitor, RetractDevice, CloseReceiver, Alive, SteamInv, Rest, UdevFirst
<1> USE <1>u DEF SteamInv, Rest, UdevStates
<1>1. CASE TakeUevent
  <2>1. TypeOK'
    <3>1. Head(uevents) \in Uevent /\ Tail(uevents) \in Seq(Uevent)
      BY <1>1, HeadTailProperties DEF TakeUevent, TypeOK
    <3>2. path' \in Paths
      BY <1>1, <3>1 DEF TakeUevent, Uevent
    <3>3. QED
      BY <1>1, <3>1, <3>2 DEF TakeUevent, TypeOK
  <2>2. Rest'
    BY <1>1 DEF TakeUevent, Position, Controller, UdevAt, InTransit, Open, Constructing, Own,
                Loaded, Announced, Managed, Scripts, Requested, Allowed, Restart, UdevFirst
  <2>3. QED
    BY <2>1, <2>2
<1>2. CASE OpenReceiver
  <2>1. TypeOK'
    <3>1. reports' \in [Paths -> Seq(ReportKinds)]
      <4>1. \A r \in ReportKinds : <<r>> \in Seq(ReportKinds)
        OBVIOUS
      <4>2. reports \in [Paths -> Seq(ReportKinds)]
        BY DEF TypeOK
      <4>3. QED
        BY <1>2, <4>1, <4>2 DEF OpenReceiver, ReportKinds
    <3>2. connected' \in SUBSET Paths
      BY <1>2 DEF OpenReceiver, TypeOK
    <3>3. QED
      BY <1>2, <3>1, <3>2 DEF OpenReceiver, TypeOK
  <2>2. Rest'
    BY <1>2 DEF OpenReceiver, Position, Controller, UdevAt, InTransit, Open, Constructing, Own,
                Loaded, Announced, Managed, Scripts, Requested, Allowed, Restart, UdevFirst, TypeOK
  <2>3. QED
    BY <2>1, <2>2
<1>3. CASE QueryWired
  <2>1. path \in Paths /\ device[path] = 0
    BY <1>3 DEF QueryWired, Controller, UdevAt, TypeOK
  <2>2. /\ device' \in [Paths -> Objects \cup {0}] /\ allocated' \in SUBSET Objects
        /\ Own'
        /\ device'[path] # 0 /\ device'[path] \notin Scripts
        /\ \A q \in Paths \ {path} : device'[q] = device[q]
    BY <1>3, <2>1, NewObject DEF QueryWired
  <2>3. TypeOK'
    BY <1>3, <2>2 DEF QueryWired, TypeOK
  <2>4. \A q \in Paths : Position(q)' /\ Controller(q)'
    BY <1>3, <2>1, <2>2 DEF QueryWired, Position, Controller, UdevAt, InTransit, Open, Constructing
  <2>5. Loaded' /\ Requested' /\ Restart' /\ UdevFirst'
    BY <1>3, <2>1, <2>2 DEF QueryWired, Position, UdevAt, Loaded, Announced, Managed, Scripts,
                            Requested, Allowed, Restart, UdevFirst, TypeOK, Objects
  <2>6. QED
    BY <2>2, <2>3, <2>4, <2>5
<1>4. CASE LaunchMonitor
  <2>1. TypeOK'
    BY <1>4 DEF LaunchMonitor, TypeOK, MonitorStates
  <2>2. Rest'
    BY <1>4 DEF LaunchMonitor, Position, Controller, UdevAt, InTransit, Open, Constructing, Own,
                Loaded, Announced, Managed, Scripts, Requested, Allowed, Restart, UdevFirst, TypeOK
  <2>3. QED
    BY <2>1, <2>2
<1>5. CASE FindReceiver
  <2>1. TypeOK'
    BY <1>5 DEF FindReceiver, TypeOK
  <2>2. Rest'
    BY <1>5 DEF FindReceiver, Position, Controller, UdevAt, InTransit, Open, Constructing, Own,
                Loaded, Announced, Managed, Scripts, Requested, Allowed, Restart, UdevFirst, TypeOK
  <2>3. QED
    BY <2>1, <2>2
<1>6. CASE JoinMonitor
  <2>1. TypeOK'
    BY <1>6 DEF JoinMonitor, TypeOK
  <2>2. Rest'
    BY <1>6 DEF JoinMonitor, Position, Controller, UdevAt, InTransit, Open, Constructing, Own,
                Loaded, Announced, Managed, Scripts, Requested, Allowed, Restart, UdevFirst, TypeOK
  <2>3. QED
    BY <2>1, <2>2
<1>7. CASE RetractDevice
  <2>1. TypeOK'
    BY <1>7 DEF RetractDevice, UnloadScript, TypeOK, ScriptStates
  <2>2. Rest'
    BY <1>7 DEF RetractDevice, UnloadScript, Waiting, Position, Controller, UdevAt, InTransit, Open,
                Constructing, Own, Loaded, Announced, Managed, Scripts, Requested, Allowed, Restart, UdevFirst, TypeOK
  <2>3. QED
    BY <2>1, <2>2
<1>8. CASE CloseReceiver
  <2>1. TypeOK'
    BY <1>8, EmptySeq DEF CloseReceiver, Closed, FreeDevice, TypeOK, MonitorStates
  <2>2. Rest'
    BY <1>8 DEF CloseReceiver, Closed, FreeDevice, Position, Controller, UdevAt, InTransit, Open,
                Constructing, Own, Loaded, Announced, Managed, Scripts, Requested, Allowed, Restart, UdevFirst, TypeOK
  <2>3. QED
    BY <2>1, <2>2
<1>9. QED
  BY <1>1, <1>2, <1>3, <1>4, <1>5, <1>6, <1>7, <1>8 DEF UdevThread

(* A monitor that goes on, and at most changes _connected of its receiver.   *)
LEMMA MonitorMoves ==
  ASSUME SteamInv, NEW p \in Paths, NEW next, monitor' = [monitor EXCEPT ![p] = next],
         UNCHANGED <<udevVars, opened, device, allocated, scriptVars, main, restarting>>,
         \A q \in Paths \ {p} : q \in connected' <=> q \in connected,
         Position(p)', Controller(p)',
         device[p] # 0 => Announced(p)' = Announced(p)
  PROVE  Rest'
<1>1. \A q \in Paths \ {p} : monitor'[q] = monitor[q]
  BY DEF SteamInv, TypeOK
<1>2. \A q \in Paths \ {p} : Position(q)' /\ Controller(q)'
  BY <1>1 DEF SteamInv, Rest, Position, Controller, UdevAt, InTransit, Open, Constructing
<1>3. UNCHANGED <<Managed, Scripts>>
  BY DEF Managed, Scripts
<1>4. \A q \in Paths : device[q] # 0 => Announced(q)' = Announced(q)
  BY <1>1 DEF Announced, UdevAt
<1>5. Loaded'
  BY <1>3, <1>4 DEF SteamInv, Rest, Loaded
<1>6. Own' /\ Requested' /\ Restart' /\ UdevFirst'
  BY <1>3 DEF SteamInv, Rest, Own, Requested, Allowed, Restart, UdevFirst
<1>7. QED
  BY <1>2, <1>5, <1>6 DEF Rest

LEMMA MonitorNext ==
  ASSUME SteamInv, NEW p \in Paths, Monitor(p) \/ Serve(p)
  PROVE  SteamInv'
<1> USE DEF SteamInv, Rest, MonitorStates
<1>1. CASE StartMonitor(p)
  <2>1. TypeOK'
    BY <1>1 DEF StartMonitor, TypeOK
  <2>2. Position(p)' /\ Controller(p)' /\ (device[p] # 0 => Announced(p)' = Announced(p))
    BY <1>1 DEF StartMonitor, Position, Controller, UdevAt, InTransit, Open, Constructing, Announced,
              TypeOK
  <2>3. QED
    BY <1>1, <2>1, <2>2, MonitorMoves DEF StartMonitor
<1>2. CASE ReadReport(p)
  <2>1. /\ reports \in [Paths -> Seq(ReportKinds)] /\ reports[p] # <<>>
        /\ reports[p] \in Seq(ReportKinds)
    BY <1>2 DEF ReadReport, TypeOK
  <2>2. reports' \in [Paths -> Seq(ReportKinds)]
    <3>1. Tail(reports[p]) \in Seq(ReportKinds)
      BY <2>1, HeadTailProperties
    <3>2. QED
      BY <1>2, <2>1, <3>1 DEF ReadReport
  <2>3. PICK next \in {"query", "retract", "blocked", "ended", "select"} :
          /\ monitor' = [monitor EXCEPT ![p] = next]
          /\ next = "query" => p \notin connected /\ connected' = connected \cup {p}
          /\ next = "retract" => p \in connected /\ connected' = connected \ {p}
          /\ next = "blocked" => p \in connected
          /\ next \notin {"query", "retract"} => connected' = connected
    BY <1>2, Zenon DEF ReadReport
  <2>4. TypeOK'
    BY <1>2, <2>2, <2>3 DEF ReadReport, TypeOK
  <2>5. Position(p)' /\ Controller(p)' /\ (device[p] # 0 => Announced(p)' = Announced(p))
    BY <1>2, <2>3 DEF ReadReport, Position, Controller, UdevAt, InTransit, Open, Constructing, Announced,
              TypeOK
  <2>6. QED
    BY <1>2, <2>3, <2>4, <2>5, MonitorMoves DEF ReadReport
<1>3. CASE EndMonitor(p)
  <2>1. TypeOK'
    BY <1>3 DEF EndMonitor, TypeOK
  <2>2. Position(p)' /\ Controller(p)' /\ (device[p] # 0 => Announced(p)' = Announced(p))
    BY <1>3 DEF EndMonitor, Position, Controller, UdevAt, InTransit, Open, Constructing, Announced,
              TypeOK
  <2>3. QED
    BY <1>3, <2>1, <2>2, MonitorMoves DEF EndMonitor
<1>4. CASE QueryDevice(p)
  <2>1. device[p] = 0
    BY <1>4 DEF QueryDevice, Controller
  <2>2. /\ device' \in [Paths -> Objects \cup {0}] /\ allocated' \in SUBSET Objects
        /\ Own'
        /\ device'[p] # 0 /\ device'[p] \notin Scripts
        /\ \A q \in Paths \ {p} : device'[q] = device[q]
    BY <1>4, <2>1, NewObject DEF QueryDevice
  <2>3. TypeOK'
    BY <1>4, <2>2 DEF QueryDevice, TypeOK
  <2>4. \A q \in Paths : Position(q)' /\ Controller(q)'
    BY <1>4, <2>1, <2>2 DEF QueryDevice, Position, Controller, UdevAt, InTransit, Open, Constructing,
                            TypeOK
  <2>5. UNCHANGED <<Scripts, Managed>>
    BY <1>4 DEF QueryDevice, Scripts, Managed
  <2>6. \A q \in Paths \ {p} : Announced(q)' = Announced(q)
    BY <1>4 DEF QueryDevice, Announced, UdevAt, TypeOK
  <2>7. ~Announced(p)'
    BY <1>4 DEF QueryDevice, Announced, TypeOK
  <2>8. Loaded'
    BY <2>1, <2>2, <2>5, <2>6, <2>7 DEF Loaded, Scripts, Objects
  <2>9. Requested'
    <3>1. ASSUME NEW r \in requests PROVE Allowed(r)'
      <4>1. Allowed(r) /\ r[2] \in Paths
        BY DEF Requested, TypeOK
      <4>2. r[1] \in Scripts /\ Managed => r[2] # p
        BY <2>1, <4>1 DEF Allowed, Scripts, Objects
      <4>3. UNCHANGED orphans
        BY <1>4 DEF QueryDevice
      <4>4. QED
        BY <2>2, <2>5, <4>1, <4>2, <4>3 DEF Allowed, Scripts, Objects
    <3>2. requests' = requests
      BY <1>4 DEF QueryDevice
    <3>3. QED
      BY <3>1, <3>2 DEF Requested
  <2>10. Restart' /\ UdevFirst'
    BY <1>4, <2>5 DEF QueryDevice, Restart, UdevFirst
  <2>11. QED
    BY <2>2, <2>3, <2>4, <2>8, <2>9, <2>10
<1>5. CASE Announce(p)
  <2>1. TypeOK'
    BY <1>5 DEF Announce, LoadScript, Return, TypeOK, ScriptStates
  <2>2. Rest'
    BY <1>5 DEF Announce, LoadScript, Return, Position, Controller, UdevAt, InTransit, Open, Constructing, Own,
                Loaded, Announced, Managed, Scripts, Requested, Allowed, Restart, UdevFirst, TypeOK, Objects
  <2>3. QED
    BY <2>1, <2>2
<1>6. CASE Retract(p)
  <2>1. UNCHANGED <<kernelVars, udevVars, opened, dead, reports, byte, leaving, connected, device,
                    allocated, requests, orphans, main>>
        /\ monitor[p] = "retract" /\ monitor' = [monitor EXCEPT ![p] = "delete"]
    BY <1>6 DEF Retract
  <2>2. \A q \in Paths : Position(q)' /\ Controller(q)'
    BY <2>1 DEF Position, Controller, UdevAt, InTransit, Open, Constructing, TypeOK
  <2>3. Own' /\ UdevFirst' /\ Managed' = Managed
    BY <2>1 DEF Own, UdevFirst, Managed
  <2>4. CASE Managed
    <3>1. ~Waiting(device[p]) /\ script' = [script EXCEPT ![device[p]] = "none"]
      BY <1>6, <2>4 DEF Retract, UnloadScript
    <3>2. Scripts' = Scripts \ {device[p]}
      BY <3>1 DEF Scripts, TypeOK
    <3>3. device[p] # 0 /\ ~Announced(p)'
      BY <2>1 DEF Controller, Announced, TypeOK
    <3>4. \A q \in Paths \ {p} : Announced(q)' = Announced(q)
      BY <2>1 DEF Announced, UdevAt, TypeOK
    <3>5. Loaded'
      BY <2>1, <2>3, <2>4, <3>2, <3>3, <3>4 DEF Loaded, Own
    <3>6. Requested'
      BY <2>1, <2>3, <2>4, <3>1, <3>2 DEF Waiting, Requested, Allowed
    <3>7. /\ restarting' # 0 => restarting' = restarting /\ restarting # device[p]
          /\ restarting' \in Objects \cup {0} /\ erased' \in SUBSET Paths
      BY <1>6, <2>4 DEF Retract, UnloadScript, TypeOK
    <3>8. Restart'
      BY <2>1, <3>1, <3>7 DEF Restart, TypeOK
    <3>9. TypeOK'
      BY <2>1, <3>1, <3>7 DEF TypeOK, ScriptStates
    <3>10. QED
      BY <2>2, <2>3, <3>5, <3>6, <3>8, <3>9
  <2>5. CASE ~Managed
    <3>1. UNCHANGED <<script, restarting, erased>>
      BY <1>6, <2>5 DEF Retract, UnloadScript
    <3>2. TypeOK' /\ Scripts' = Scripts
      BY <2>1, <3>1 DEF TypeOK, Scripts
    <3>3. Loaded' /\ Requested' /\ Restart'
      BY <2>1, <2>3, <2>5, <3>1, <3>2 DEF Loaded, Requested, Allowed, Restart
    <3>4. QED
      BY <2>2, <2>3, <3>2, <3>3
  <2>6. QED
    BY <2>4, <2>5
<1>7. CASE Delete(p)
  <2>1. TypeOK'
    BY <1>7 DEF Delete, FreeDevice, Return, TypeOK
  <2>2. Rest'
    BY <1>7 DEF Delete, FreeDevice, Return, Position, Controller, UdevAt, InTransit, Open, Constructing, Own,
                Loaded, Announced, Managed, Scripts, Requested, Allowed, Restart, UdevFirst, TypeOK, Objects
  <2>3. QED
    BY <2>1, <2>2
<1>8. CASE Serve(p)
  <2>1. TypeOK'
    BY <1>8 DEF Serve, Return, TypeOK
  <2>2. Position(p)' /\ Controller(p)' /\ (device[p] # 0 => Announced(p)' = Announced(p))
    BY <1>8 DEF Serve, Return, Position, Controller, UdevAt, InTransit, Open, Constructing, Announced,
              TypeOK
  <2>3. QED
    BY <1>8, <2>1, <2>2, MonitorMoves DEF Serve, Return
<1>9. QED
  BY <1>1, <1>2, <1>3, <1>4, <1>5, <1>6, <1>7, <1>8 DEF Monitor

(* A step that moves no thread and no controller. *)
LEMMA ScriptStep ==
  ASSUME SteamInv, UNCHANGED <<udevVars, receiverVars>>, UNCHANGED Managed, UNCHANGED Scripts,
         Requested', Restart', UdevFirst'
  PROVE  Rest'
BY DEF SteamInv, Rest, Position, Controller, UdevAt, InTransit, Open, Constructing, Own,
       Loaded, Announced, Requested, Allowed, Restart, UdevFirst

LEMMA JsNext == SteamInv /\ JsThread => SteamInv'
<1> SUFFICES ASSUME SteamInv, JsThread PROVE SteamInv'
  OBVIOUS
<1>1. UNCHANGED <<kernelVars, udevVars, receiverVars, orphans, mainVars>> /\ UNCHANGED Managed
  BY DEF JsThread, InitReturns, BeginRequest, OrphanRequest, EndRequest, Managed
<1>2. UdevFirst'
  BY <1>1 DEF SteamInv, Rest, UdevFirst
<1>3. ASSUME TypeOK', Scripts' = Scripts, Requested', Restart' PROVE SteamInv'
  BY <1>1, <1>2, <1>3, ScriptStep DEF SteamInv
<1>4. ASSUME NEW o \in Objects, InitReturns(o)
      PROVE  SteamInv'
  <2>1. TypeOK' /\ Scripts' = Scripts
    BY <1>1, <1>4 DEF InitReturns, TypeOK, ScriptStates, Scripts, SteamInv
  <2>2. Requested'
    BY <1>1, <1>4, <2>1 DEF InitReturns, SteamInv, Rest, Requested, Allowed
  <2>3. Restart'
    BY <1>1, <1>4 DEF InitReturns, SteamInv, Rest, Restart, TypeOK
  <2>4. QED
    BY <1>3, <2>1, <2>2, <2>3
<1>5. ASSUME UNCHANGED script, requests' \in SUBSET ((Objects \cup {0}) \X Paths), Requested'
      PROVE  SteamInv'
  <2>1. TypeOK' /\ Scripts' = Scripts /\ Restart'
    BY <1>1, <1>5 DEF TypeOK, Scripts, SteamInv, Rest, Restart
  <2>2. QED
    BY <1>3, <1>5, <2>1
<1>6. ASSUME NEW p \in Paths, BeginRequest(p)
      PROVE  SteamInv'
  <2>1. requests' = requests \cup {<<device[p], p>>} /\ UNCHANGED script
    BY <1>6 DEF BeginRequest
  <2>2. requests' \in SUBSET ((Objects \cup {0}) \X Paths)
    BY <2>1 DEF SteamInv, TypeOK
  <2>3. Allowed(<<device[p], p>>)'
    BY <1>1, <1>6 DEF BeginRequest, Allowed, Scripts
  <2>4. \A q \in requests : Allowed(q)'
    BY <1>1, <2>1 DEF SteamInv, Rest, Requested, Allowed, Scripts
  <2>5. QED
    BY <1>1, <1>5, <2>1, <2>2, <2>3, <2>4 DEF Requested
<1>7. ASSUME NEW p \in Paths, OrphanRequest(p)
      PROVE  SteamInv'
  <2>1. requests' = requests \cup {<<0, p>>} /\ p \in orphans /\ UNCHANGED script
    BY <1>7 DEF OrphanRequest
  <2>2. requests' \in SUBSET ((Objects \cup {0}) \X Paths)
    BY <2>1 DEF SteamInv, TypeOK
  <2>3. Allowed(<<0, p>>)'
    BY <1>1, <2>1 DEF Allowed
  <2>4. \A q \in requests : Allowed(q)'
    BY <1>1, <2>1 DEF SteamInv, Rest, Requested, Allowed, Scripts
  <2>5. QED
    BY <1>5, <2>1, <2>2, <2>3, <2>4 DEF Requested
<1>8. ASSUME NEW r \in requests, EndRequest(r)
      PROVE  SteamInv'
  <2>1. requests' = requests \ {r} /\ UNCHANGED script
    BY <1>8 DEF EndRequest
  <2>2. requests' \in SUBSET ((Objects \cup {0}) \X Paths)
    BY <2>1 DEF SteamInv, TypeOK
  <2>3. Requested'
    BY <1>1, <2>1 DEF SteamInv, Rest, Requested, Allowed, Scripts
  <2>4. QED
    BY <1>5, <2>1, <2>2, <2>3
<1>9. QED
  BY <1>4, <1>6, <1>7, <1>8 DEF JsThread

LEMMA MainNext == SteamInv /\ Main => SteamInv'
<1> SUFFICES ASSUME SteamInv, Main PROVE SteamInv'
  OBVIOUS
<1> USE DEF SteamInv, Rest, MainStates
<1>1. ASSUME NEW o \in Objects, SetFileStop(o)
      PROVE  SteamInv'
  <2>1. TypeOK' /\ Scripts' = Scripts /\ Managed' = Managed
    BY <1>1 DEF SetFileStop, TypeOK, ScriptStates, Scripts, Managed
  <2>2. Requested' /\ Restart' /\ UdevFirst'
    BY <1>1, <2>1 DEF SetFileStop, Requested, Allowed, Restart, UdevFirst, TypeOK
  <2>3. QED
    BY <1>1, <2>1, <2>2, ScriptStep DEF SetFileStop
<1>2. CASE SetFileStart
  <2>1. /\ UNCHANGED <<kernelVars, udevVars, receiverVars, requests>> /\ restarting' = 0
        /\ \/ main' = main
           \/ main' = "terminated" /\ UNCHANGED script
        /\ orphans \subseteq orphans' /\ orphans' \subseteq orphans \cup erased
        /\ erased' = {}
        /\ \/ script' = script
           \/ restarting # 0 /\ script' = [script EXCEPT ![restarting] = "init"]
    BY <1>2 DEF SetFileStart
  <2>2. Scripts' = Scripts
    BY <2>1 DEF Scripts, Restart, TypeOK
  <2>3. TypeOK'
    BY <2>1 DEF TypeOK, ScriptStates
  <2>4. Restart'
    BY <2>1 DEF Restart
  <2>5. CASE main' = main
    <3>1. Managed' = Managed /\ UdevFirst'
      BY <2>1, <2>5 DEF Managed, UdevFirst
    <3>2. Requested'
      BY <2>1, <2>2, <3>1 DEF Requested, Allowed
    <3>3. QED
      BY <2>1, <2>2, <2>3, <2>4, <3>1, <3>2, ScriptStep
  <2>6. CASE main' = "terminated"
    <3>1. ~Managed' /\ UdevFirst' /\ Loaded'
      BY <2>6 DEF Managed, UdevFirst, Loaded
    <3>2. Requested'
      BY <2>1, <2>2, <3>1 DEF Requested, Allowed
    <3>3. Own' /\ \A p \in Paths : Position(p)' /\ Controller(p)'
      BY <2>1 DEF Own, Position, Controller, UdevAt, InTransit, Open, Constructing
    <3>4. QED
      BY <2>3, <2>4, <3>1, <3>2, <3>3
  <2>7. QED
    BY <2>1, <2>5, <2>6
<1>3. CASE LeaveDispatcher
  <2>1. TypeOK' /\ Scripts' = Scripts /\ Managed' = Managed
    BY <1>3 DEF LeaveDispatcher, TypeOK, Scripts, Managed
  <2>2. Requested' /\ Restart' /\ UdevFirst'
    BY <1>3, <2>1 DEF LeaveDispatcher, Requested, Allowed, Restart, UdevFirst, Managed
  <2>3. QED
    BY <1>3, <2>1, <2>2, ScriptStep DEF LeaveDispatcher
<1>4. CASE JoinUdev
  <2>1. TypeOK'
    BY <1>4 DEF JoinUdev, TypeOK, UdevStates
  <2>2. Rest'
    BY <1>4 DEF JoinUdev, Position, Controller, UdevAt, InTransit, Open, Constructing, Own,
              Loaded, Announced, Managed, Requested, Allowed, Restart, UdevFirst, Scripts
  <2>3. QED
    BY <2>1, <2>2
<1>5. ASSUME NEW o \in Objects, StopScript(o)
      PROVE  SteamInv'
  <2>1. TypeOK' /\ Scripts' = Scripts \ {o} /\ ~Managed /\ ~Managed'
    BY <1>5 DEF StopScript, TypeOK, ScriptStates, Scripts, Managed
  <2>2. Rest'
    BY <1>5, <2>1 DEF StopScript, Waiting, Position, Controller, UdevAt, InTransit, Open,
                      Constructing, Own, Loaded, Requested, Allowed, Restart, UdevFirst
  <2>3. QED
    BY <2>1, <2>2
<1>6. CASE EndManager \/ EndMain
  <2>1. TypeOK' /\ Scripts' = Scripts /\ Managed' = Managed
    BY <1>6 DEF EndManager, EndMain, TypeOK, Scripts, Managed
  <2>2. Requested' /\ Restart' /\ UdevFirst'
    BY <1>6, <2>1 DEF EndManager, EndMain, Requested, Allowed, Restart, UdevFirst, Managed
  <2>3. QED
    BY <1>6, <2>1, <2>2, ScriptStep DEF EndManager, EndMain
<1>7. ASSUME NEW p \in Paths, StopReceiver(p)
      PROVE  SteamInv'
  <2>1. TypeOK'
    BY <1>7 DEF StopReceiver, TypeOK
  <2>2. Rest'
    BY <1>7 DEF StopReceiver, Position, Controller, UdevAt, InTransit, Open, Constructing, Own,
              Loaded, Announced, Managed, Requested, Allowed, Restart, UdevFirst, Scripts
  <2>3. QED
    BY <2>1, <2>2
<1>8. ASSUME NEW p \in Paths, DropReceiver(p)
      PROVE  SteamInv'
  <2>1. TypeOK'
    BY <1>8, EmptySeq DEF DropReceiver, Closed, FreeDevice, TypeOK, MonitorStates
  <2>2. ~Managed /\ ~Managed' /\ udev = "ended"
    BY <1>8 DEF DropReceiver, Managed, UdevFirst
  <2>3. \A q \in Paths : Position(q)' /\ Controller(q)'
    BY <1>8, <2>2 DEF DropReceiver, Closed, FreeDevice, Position, Controller, UdevAt, InTransit,
                      Open, Constructing, TypeOK
  <2>4. Own' /\ Loaded' /\ Requested' /\ Restart' /\ UdevFirst'
    BY <1>8, <2>2 DEF DropReceiver, Closed, FreeDevice, Own, Loaded, Requested, Allowed, Restart, UdevFirst, Scripts,
                      TypeOK
  <2>5. QED
    BY <2>1, <2>3, <2>4
<1>9. QED
  BY <1>1, <1>2, <1>3, <1>4, <1>5, <1>6, <1>7, <1>8 DEF Main, Shutdown

THEOREM SteamInvariant == Spec => []SteamInv
<1>1. Init => SteamInv
  BY SteamInit
<1>2. SteamInv /\ [Next]_vars => SteamInv'
  <2> SUFFICES ASSUME SteamInv, [Next]_vars PROVE SteamInv'
    OBVIOUS
  <2>1. CASE Next
    BY <2>1, HardwareNext, UdevNext, MonitorNext, JsNext, MainNext DEF Next
  <2>2. CASE UNCHANGED vars
    <3>1. TypeOK'
      BY <2>2 DEF vars, SteamInv, TypeOK
    <3>2. UNCHANGED <<Managed, Scripts>> /\ Requested' /\ Restart' /\ UdevFirst'
      BY <2>2 DEF vars, Managed, Scripts, SteamInv, Rest, Requested, Allowed, Restart, UdevFirst
    <3>3. QED
      BY <2>2, <3>1, <3>2, ScriptStep DEF vars, SteamInv
  <2>3. QED
    BY <2>1, <2>2
<1>3. QED
  BY <1>1, <1>2, PTL DEF Spec

THEOREM TypeCorrect == Spec => []TypeOK
BY SteamInvariant, PTL DEF SteamInv

(* In every behaviour a receiver and its controller agree: no monitor handles *)
(* a report with a controller that was deleted, or never created.            *)
THEOREM ControllersAlwaysAgree == Spec => []ControllersAgree
<1>1. SteamInv => ControllersAgree
  <2> SUFFICES ASSUME SteamInv, NEW p \in Paths
               PROVE  /\ ~InTransit(p) => (p \in connected <=> device[p] # 0)
                      /\ monitor[p] \in {"announce", "blocked", "retract", "delete"} => device[p] # 0
                      /\ p \in opened <=> monitor[p] # "none"
                      /\ Managed /\ ~InTransit(p) /\ p \in connected /\ p \in opened
                           /\ monitor[p] \notin {"start", "announce"} => device[p] \in Scripts
    BY DEF ControllersAgree
  <2>1. Position(p) /\ Controller(p) /\ Loaded
    BY DEF SteamInv, Rest
  <2>2. monitor[p] \in {"announce", "blocked", "retract", "delete"} => device[p] # 0
    BY <2>1 DEF Position, Controller, UdevAt, InTransit
  <2>3. ~InTransit(p) /\ p \in opened /\ monitor[p] \notin {"start", "announce"} => Announced(p)
    BY <2>1 DEF Position, Announced, InTransit, UdevAt
  <2>4. QED
    BY <2>1, <2>2, <2>3 DEF Position, Controller, Loaded
<1>2. QED
  BY <1>1, SteamInvariant, PTL

LEMMA AtMostOne ==
  ASSUME NEW S, NEW x, S \subseteq {x}
  PROVE  Cardinality(S) <= 1
<1>1. S = {} \/ S = {x}
  OBVIOUS
<1>2. Cardinality(S) \in {0, 1}
  <2>1. CASE S = {}
    BY <2>1, FS_EmptySet
  <2>2. CASE S = {x}
    <3>1. Cardinality({x}) = 1
      BY FS_Singleton
    <3>2. QED
      BY <2>2, <3>1
  <2>3. QED
    BY <1>1, <2>1, <2>2
<1>3. QED
  BY <1>2

(* Two threads are never in a request to one receiver, so that each reads     *)
(* the answer to its own although sendRequest takes no lock, as long as the   *)
(* receiver has no orphan.                                                   *)
THEOREM RequestsAreExclusive == Spec => []RequestsExclusive
<1>1. SteamInv => RequestsExclusive
  <2> SUFFICES ASSUME SteamInv, Managed, NEW p \in Paths \ orphans
               PROVE  Cardinality(Requesters(p)) <= 1
    BY DEF RequestsExclusive
  <2> DEFINE asked == {q \in requests : q[2] = p}
             asking == {[by |-> "js", object |-> r[1]] : r \in asked}
  <2>1. asking \subseteq {[by |-> "js", object |-> device[p]]}
    <3>1. \A r \in asked : r[1] = device[p]
      BY DEF SteamInv, Rest, Requested, Allowed
    <3>2. QED
      BY <3>1
  <2>2. device[p] = 0 => asking = {}
    <3>1. \A r \in asked : r[1] # 0
      BY DEF SteamInv, Rest, Requested, Allowed, Scripts, Objects
    <3>2. \A r \in asked : r[1] = device[p]
      BY DEF SteamInv, Rest, Requested, Allowed
    <3>3. device[p] = 0 => asked = {}
      BY <3>1, <3>2
    <3>4. QED
      BY <3>3
  <2>3. Querying(p) => device[p] = 0
    BY DEF Querying, SteamInv, Rest, Controller, UdevAt
  <2>4. ~(monitor[p] = "query" /\ udev = "query" /\ path = p)
    BY DEF SteamInv, Rest, Position, UdevAt
  <2>5. Requesters(p) = asking \cup (IF monitor[p] = "query" THEN {[by |-> "monitor", object |-> 0]} ELSE {})
                         \cup (IF udev = "query" /\ path = p THEN {[by |-> "udev", object |-> 0]} ELSE {})
    BY DEF Requesters
  <2>6. \E x : Requesters(p) \subseteq {x}
    <3>1. CASE monitor[p] = "query"
      BY <2>2, <2>3, <2>4, <2>5, <3>1 DEF Querying
    <3>2. CASE monitor[p] # "query" /\ udev = "query" /\ path = p
      BY <2>2, <2>3, <2>5, <3>2 DEF Querying
    <3>3. CASE ~Querying(p)
      BY <2>1, <2>5, <3>3 DEF Querying
    <3>4. QED
      BY <3>1, <3>2, <3>3 DEF Querying
  <2>7. QED
    BY <2>6, AtMostOne
<1>2. QED
  BY <1>1, SteamInvariant, PTL

LEMMA PromiseNext == SteamInv /\ [Next]_vars => [Promise!Next]_(Promise!vars)
<1> SUFFICES ASSUME SteamInv, [Next]_vars PROVE [Promise!Next]_(Promise!vars)
  OBVIOUS
<1> USE DEF Promise!vars
<1> DEFINE loaded == IF Managed THEN Running ELSE {}
<1>0. loaded \in SUBSET Objects /\ Running \subseteq Scripts
  BY DEF Running, Scripts
(* The three ways in which objects and scripts of controllers change. *)
<1>1. ASSUME NEW p \in Paths, NewDevice(p), UNCHANGED <<script, main>>
      PROVE  [Promise!Next]_(Promise!vars)
  <2>1. PICK o \in Objects \ (allocated \cup Scripts) : allocated' = allocated \cup {o}
    BY <1>1 DEF NewDevice
  <2>2. loaded' = loaded /\ o \in Objects
    BY <1>1 DEF Managed, Running
  <2>3. QED
    BY <2>1, <2>2 DEF Promise!Next, Promise!Create
<1>2. ASSUME NEW p \in Paths, FreeDevice(p), UNCHANGED <<script, main>>, device[p] \notin loaded
      PROVE  [Promise!Next]_(Promise!vars)
  <2>1. loaded' = loaded /\ allocated' = allocated \ {device[p]}
    BY <1>2 DEF FreeDevice, Managed, Running
  <2>2. CASE device[p] \in Objects
    <3>1. {device[p]} \in SUBSET Objects /\ {device[p]} \cap loaded = {}
      BY <1>2, <2>2
    <3>2. Promise!Destroy({device[p]})
      BY <2>1, <3>1 DEF Promise!Destroy
    <3>3. QED
      BY <3>1, <3>2 DEF Promise!Next
  <2>3. CASE device[p] \notin Objects
    BY <2>1, <2>3 DEF SteamInv, TypeOK
  <2>4. QED
    BY <2>2, <2>3
<1>3. ASSUME NEW S \in SUBSET Objects, loaded' = loaded \ S, UNCHANGED allocated
      PROVE  [Promise!Next]_(Promise!vars)
  BY <1>3 DEF Promise!Next, Promise!Unload
<1>4. ASSUME UNCHANGED <<allocated, Managed, Running>>
      PROVE  [Promise!Next]_(Promise!vars)
  BY <1>4
<1>5. CASE UdevThread
  <2>1. path \in Paths
    BY DEF SteamInv, TypeOK
  <2>2. CASE QueryWired
    BY <1>1, <2>1, <2>2 DEF QueryWired
  <2>3. CASE RetractDevice
    <3>1. Managed' = Managed /\ allocated' = allocated
      BY <2>3 DEF RetractDevice, Managed
    <3>2. loaded' = loaded \ ({device[path]} \cap Objects)
      BY <2>3, <3>1 DEF RetractDevice, UnloadScript, Running, SteamInv, TypeOK
    <3>3. {device[path]} \cap Objects \in SUBSET Objects
      OBVIOUS
    <3>4. QED
      BY <1>3, <3>1, <3>2, <3>3
  <2>4. CASE CloseReceiver
    <3>1. Managed => device[path] \notin Scripts
      BY <2>1, <2>4 DEF CloseReceiver, SteamInv, Rest, Loaded, Announced, UdevAt, Scripts, Objects
    <3>2. QED
      BY <1>0, <1>2, <2>1, <2>4, <3>1 DEF CloseReceiver, Closed
  <2>5. CASE TakeUevent \/ OpenReceiver \/ LaunchMonitor \/ FindReceiver \/ JoinMonitor
    <3>1. UNCHANGED <<allocated, Managed, Running>>
      BY <2>5 DEF TakeUevent, OpenReceiver, LaunchMonitor, FindReceiver, JoinMonitor, Managed, Running
    <3>2. QED
      BY <1>4, <3>1
  <2>6. QED
    BY <1>5, <2>2, <2>3, <2>4, <2>5 DEF UdevThread
<1>6. ASSUME NEW p \in Paths, Monitor(p) \/ Serve(p)
      PROVE  [Promise!Next]_(Promise!vars)
  <2>1. CASE QueryDevice(p)
    BY <1>1, <2>1 DEF QueryDevice
  <2>2. CASE Announce(p)
    <3>1. /\ Managed' = Managed /\ allocated' = allocated
          /\ script' = IF Managed THEN [script EXCEPT ![device[p]] = "init"] ELSE script
      BY <2>2 DEF Announce, LoadScript, Managed
    <3>2. CASE Managed
      <4>1. device[p] # 0
        BY <2>2 DEF Announce, SteamInv, Rest, Position, Controller, UdevAt, InTransit
      <4>2. device[p] \in Objects /\ device[p] \in allocated \ Scripts
        BY <2>2, <3>2, <4>1 DEF Announce, SteamInv, TypeOK, Rest, Own, Loaded, Announced
      <4>3. Running' = Running \cup {device[p]}
        BY <3>1, <3>2, <4>2 DEF Running, SteamInv, TypeOK
      <4>4. QED
        BY <1>0, <3>1, <3>2, <4>2, <4>3 DEF Promise!Next, Promise!Load
    <3>3. CASE ~Managed
      BY <3>1, <3>3
    <3>4. QED
      BY <3>2, <3>3
  <2>3. CASE Retract(p)
    <3>1. Managed' = Managed /\ allocated' = allocated
      BY <2>3 DEF Retract, Managed
    <3>2. loaded' = loaded \ ({device[p]} \cap Objects)
      BY <2>3, <3>1 DEF Retract, UnloadScript, Running, SteamInv, TypeOK
    <3>3. {device[p]} \cap Objects \in SUBSET Objects
      OBVIOUS
    <3>4. QED
      BY <1>3, <3>1, <3>2, <3>3
  <2>4. CASE Delete(p)
    <3>1. Managed => device[p] \notin Scripts
      BY <2>4 DEF Delete, SteamInv, Rest, Loaded, Announced, Scripts, Objects
    <3>2. QED
      BY <1>0, <1>2, <2>4, <3>1 DEF Delete
  <2>5. CASE StartMonitor(p) \/ ReadReport(p) \/ EndMonitor(p) \/ Serve(p)
    <3>1. UNCHANGED <<allocated, Managed, Running>>
      BY <2>5 DEF StartMonitor, ReadReport, EndMonitor, Serve, Managed, Running
    <3>2. QED
      BY <1>4, <3>1
  <2>6. QED
    BY <1>6, <2>1, <2>2, <2>3, <2>4, <2>5 DEF Monitor
<1>7. CASE JsThread
  <2>1. UNCHANGED <<allocated, main>>
    BY <1>7 DEF JsThread, InitReturns, BeginRequest, OrphanRequest, EndRequest
  <2>2. Running' = Running
    BY <1>7 DEF JsThread, InitReturns, BeginRequest, OrphanRequest, EndRequest, Running, SteamInv, TypeOK
  <2>3. QED
    BY <1>4, <2>1, <2>2 DEF Managed
<1>8. CASE Main
  <2>1. ASSUME NEW o \in Objects, SetFileStop(o)
        PROVE  [Promise!Next]_(Promise!vars)
    <3>1. UNCHANGED <<allocated, Managed>> /\ Running' = Running \ {o}
      BY <2>1 DEF SetFileStop, Managed, Running, SteamInv, TypeOK
    <3>2. {o} \in SUBSET Objects /\ loaded' = loaded \ {o}
      BY <3>1
    <3>3. QED
      BY <1>3, <3>1, <3>2
  <2>2. ASSUME SetFileStart
        PROVE  [Promise!Next]_(Promise!vars)
    <3>1. CASE restarting # 0 /\ script' = [script EXCEPT ![restarting] = "init"] /\ UNCHANGED main
      <4>1. restarting \in Objects /\ script[restarting] = "stopped" /\ Managed /\ Managed'
        BY <3>1 DEF SteamInv, TypeOK, Rest, Restart, Managed
      <4>2. restarting \in Scripts \ Running
        BY <4>1 DEF Scripts, Running
      <4>3. restarting \in allocated
        BY <4>1, <4>2 DEF SteamInv, Rest, Loaded, Own, Objects
      <4>4. Running' = Running \cup {restarting} /\ UNCHANGED allocated
        BY <2>2, <3>1, <4>1 DEF SetFileStart, Running, SteamInv, TypeOK
      <4>5. Promise!Load(restarting)
        BY <4>1, <4>2, <4>3, <4>4 DEF Promise!Load
      <4>6. QED
        BY <4>1, <4>5 DEF Promise!Next
    <3>2. CASE UNCHANGED <<script, main>>
      BY <1>4, <2>2, <3>2 DEF SetFileStart, Managed, Running
    <3>3. CASE main' = "terminated"
      <4>1. loaded' = loaded \ loaded /\ UNCHANGED allocated
        BY <2>2, <3>3 DEF SetFileStart, Managed
      <4>2. QED
        BY <1>0, <1>3, <4>1
    <3>4. QED
      BY <2>2, <3>1, <3>2, <3>3 DEF SetFileStart
  <2>3. ASSUME LeaveDispatcher \/ EndManager \/ EndMain
        PROVE  UNCHANGED <<allocated, Managed, Running>>
    BY <2>3 DEF LeaveDispatcher, EndManager, EndMain, Managed, Running
  <2>4. ASSUME NEW p \in Paths, StopReceiver(p)
        PROVE  UNCHANGED <<allocated, Managed, Running>>
    BY <2>4 DEF StopReceiver, Managed, Running
  <2>5. ASSUME NEW p \in Paths, DropReceiver(p)
        PROVE  [Promise!Next]_(Promise!vars)
    BY <1>2, <2>5 DEF DropReceiver, Closed, Managed
  <2>6. ASSUME JoinUdev
        PROVE  [Promise!Next]_(Promise!vars)
    BY <1>0, <1>3, <2>6 DEF JoinUdev, Managed
  <2>7. ASSUME NEW o \in Objects, StopScript(o)
        PROVE  [Promise!Next]_(Promise!vars)
    BY <2>7 DEF StopScript, Managed
  <2>8. QED
    BY <1>4, <1>8, <2>1, <2>2, <2>3, <2>4, <2>5, <2>6, <2>7 DEF Main, Shutdown
<1>9. CASE Hardware \/ UNCHANGED vars
  <2>1. UNCHANGED <<allocated, Managed, Running>>
    BY <1>9 DEF Hardware, Plug, Unplug, SwitchOn, SwitchOff, Input, vars, Managed, Running
  <2>2. QED
    BY <1>4, <2>1
<1>10. QED
  BY <1>5, <1>6, <1>7, <1>8, <1>9 DEF Next

(* As long as the manager is there, monitor threads, udev thread and main     *)
(* load, unload and destroy controllers as DeviceScripts allows.              *)
THEOREM KeepsPromise == Spec => PromiseSpec
<1>1. Init => Promise!Init
  BY DEF Init, Promise!Init, Running
<1>2. QED
  BY <1>1, PromiseNext, SteamInvariant, PTL DEF Spec, PromiseSpec, Promise!Spec
================================================================================
