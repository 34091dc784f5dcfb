--------------------------- MODULE ScriptThreadProofs ---------------------------
(***************************************************************************)
(* Proofs about ScriptThread, for any number of timers and of restarts, and *)
(* for both kinds of devices.                                              *)
(***************************************************************************)
EXTENDS ScriptThread, TLAPS

USE DEF Callers, deviceVars, ctlVars, EraseScript

(* A task is either the empty lambda, a call or an erase, and says of whom. *)
LEMMA TaskKinds ==
  ASSUME NEW k \in Task
  PROVE  /\ k.kind \in {"wake", "call", "erase"}
         /\ k.kind = "call" => k.from \in Callers
         /\ k.kind = "erase" => k.from \in Timers
BY DEF Task, Wake

(* The tasks the actions push are tasks. *)
LEMMA TasksPushed ==
  /\ Wake \in Task
  /\ \A c \in Callers, l \in Nat : Call(c, l) \in Task
  /\ \A t \in Timers, l \in Nat : Erase(t, l) \in Task
BY DEF Task, Wake, Call, Erase

(* The JS thread exists only once a load was started. *)
Started == js # "none" => load > 0

LEMMA TypeInit == Init => TypeOK /\ Started
<1> SUFFICES ASSUME Init PROVE TypeOK /\ Started
  OBVIOUS
<1>1. task \in Task /\ queue \in Seq(Task)
  BY TasksPushed DEF Init
<1>2. QED
  BY <1>1 DEF Init, TypeOK, Started, CtlStates, LoopStates, JsStates, ReaderStates, TimerStates

LEMMA TypeNext == TypeOK /\ Started /\ [Next]_vars => TypeOK' /\ Started'
<1> SUFFICES ASSUME TypeOK, Started, [Next]_vars PROVE TypeOK' /\ Started'
  OBVIOUS
<1> USE DEF TypeOK, Started, CtlStates, LoopStates, JsStates, ReaderStates, TimerStates
<1>a. 1 .. load \subseteq 1 .. (load + 1)
  OBVIOUS
<1>1. CASE AddDevice
  <2>1. load' \in Nat /\ load' > 0 /\ conns' \subseteq 1 .. load' /\ todo' \subseteq 1 .. load'
    BY <1>1, <1>a DEF AddDevice, Launch
  <2>2. QED
    BY <1>1, <2>1 DEF AddDevice, Launch
<1>2. CASE SetFile \/ RemoveDevice
  BY <1>2 DEF SetFile, RemoveDevice, BeginStop
<1>3. CASE WakeLoop
  BY <1>3, TasksPushed DEF WakeLoop
<1>4. CASE Join
  <2>1. <<>> \in Seq(Task)
    OBVIOUS
  <2>2. QED
    BY <1>4, <2>1 DEF Join
<1>5. CASE Restart
  <2>1. load' \in Nat /\ load' > 0 /\ conns' \subseteq 1 .. load' /\ todo' \subseteq 1 .. load'
    BY <1>5, <1>a DEF Restart, Launch
  <2>2. QED
    BY <1>5, <2>1 DEF Restart, Launch
<1>6. CASE ConnectSignal
  BY <1>6, ScriptThreadAssumption DEF ConnectSignal
<1>7. CASE DisconnectSignal
  BY <1>7 DEF DisconnectSignal
<1>8. ASSUME NEW t \in Timers, SetTimeout(t) PROVE TypeOK' /\ Started'
  BY <1>8 DEF SetTimeout
<1>9. CASE InitSucceeds
  BY <1>9 DEF InitSucceeds
<1>10. CASE InitFails
  BY <1>10 DEF InitFails
<1>11. CASE TestStopping
  BY <1>11 DEF TestStopping
<1>12. CASE PopTask
  <2>1. Head(queue) \in Task /\ Tail(queue) \in Seq(Task)
    BY <1>12 DEF PopTask
  <2>2. Head(queue).kind \in {"wake", "call", "erase"}
    BY <2>1, TaskKinds
  <2>3. QED
    BY <1>12, <2>1, <2>2 DEF PopTask
<1>13. CASE FinishCall
  BY <1>13, TaskKinds, TasksPushed DEF FinishCall
<1>14. CASE EraseTimer
  BY <1>14, TaskKinds, TasksPushed DEF EraseTimer
<1>15. CASE StopDevice
  <2>1. CASE JoinsReader
    BY <1>15, <2>1 DEF StopDevice
  <2>2. CASE ~JoinsReader
    BY <1>15, <2>2 DEF StopDevice
  <2>3. QED
    BY <2>1, <2>2
<1>16. CASE JoinReader
  BY <1>16 DEF JoinReader
<1>17. CASE DisconnectAll
  BY <1>17 DEF DisconnectAll
<1>18. CASE Finalize
  BY <1>18 DEF Finalize
<1>19. ASSUME NEW t \in Timers, DestroyTimer(t) PROVE TypeOK' /\ Started'
  BY <1>19 DEF DestroyTimer
<1>20. CASE Exit
  BY <1>20 DEF Exit
<1>21. CASE ReadEvent
  BY <1>21 DEF ReadEvent
<1>22. CASE CallHandler
  <2>1. PICK l \in todo \cap conns :
          /\ todo' = todo \ {l}
          /\ queue' = IF ctl = "gone" THEN queue ELSE Append(queue, Call(Reader, l))
    BY <1>22 DEF CallHandler
  <2>2. Call(Reader, l) \in Task
    <3>1. l \in Nat /\ Reader \in Callers
      OBVIOUS
    <3>2. QED
      BY <3>1, TasksPushed
  <2>3. queue' \in Seq(Task)
    BY <2>1, <2>2
  <2>4. todo' \subseteq 1 .. load
    BY <2>1
  <2>5. QED
    BY <1>22, <2>3, <2>4 DEF CallHandler
<1>23. CASE EmissionDone
  BY <1>23 DEF EmissionDone
<1>24. CASE ReadStopByte
  BY <1>24 DEF ReadStopByte
<1>25. CASE DeviceFails
  <2>1. stopping' \in BOOLEAN /\ reader' \in ReaderStates
    BY <1>25 DEF DeviceFails
  <2>2. UNCHANGED <<ctlVars, queue, js, load, task, conns, listening, todo, pipe, timer>>
    BY <1>25 DEF DeviceFails
  <2>3. QED
    BY <2>1, <2>2
<1>26. CASE ErrorWakesLoop
  BY <1>26, TasksPushed DEF ErrorWakesLoop
<1>27. ASSUME NEW t \in Timers, TimerThread(t) PROVE TypeOK' /\ Started'
  <2>1. queue' \in Seq(Task)
    <3>1. Call(t, load) \in Task /\ Erase(t, load) \in Task
      BY TasksPushed DEF Callers
    <3>2. \E k \in Task : queue' = queue \/ queue' = Append(queue, k)
      BY <1>27, <3>1 DEF TimerThread, TimerFires, TimerReturns, TimerEnds
    <3>3. QED
      BY <3>2
  <2>2. timer' \in [Timers -> TimerStates]
    BY <1>27 DEF TimerThread, TimerFires, TimerReturns, TimerEnds
  <2>3. UNCHANGED <<ctlVars, stopping, js, load, task, conns, deviceVars>>
    BY <1>27 DEF TimerThread, TimerFires, TimerReturns, TimerEnds
  <2>4. QED
    BY <2>1, <2>2, <2>3
<1>28. CASE UNCHANGED vars
  BY <1>28 DEF vars
<1>29. QED
  BY <1>1, <1>2, <1>3, <1>4, <1>5, <1>6, <1>7, <1>8, <1>9, <1>10, <1>11, <1>12, <1>13,
     <1>14, <1>15, <1>16, <1>17, <1>18, <1>19, <1>20, <1>21, <1>22, <1>23, <1>24, <1>25,
     <1>26, <1>27, <1>28
  DEF Next, Control, ScriptCode, JsThread, Device

(* Every variable keeps to the values the code gives it. *)
THEOREM TypeCorrect == Spec => []TypeOK
  BY TypeInit, TypeNext, PTL DEF Spec
--------------------------------------------------------------------------------
(* The controlling thread only starts a JS thread it has joined, or the first. *)
ControlJs == ctl \in {"new", "start", "gone"} => js = "none"

(* A thread that has ended has destroyed its timers. *)
TimersGone == js \in {"exited", "none"} => \A t \in Timers : timer[t] = "none"

LEMMA TimersNext == TypeOK /\ ControlJs /\ TimersGone /\ [Next]_vars => TimersGone'
<1> SUFFICES ASSUME TypeOK, ControlJs, TimersGone, [Next]_vars PROVE TimersGone'
  OBVIOUS
<1> USE DEF ControlJs, TimersGone
<1>1. CASE Control
  BY <1>1 DEF Control, AddDevice, SetFile, RemoveDevice, BeginStop, WakeLoop, Join, Restart, Launch
<1>2. CASE ScriptCode
  BY <1>2 DEF ScriptCode, ConnectSignal, DisconnectSignal, SetTimeout, ScriptRuns
<1>3. CASE PopTask
  <2>1. Head(queue).kind \in {"wake", "call", "erase"}
    BY <1>3, TaskKinds DEF PopTask, TypeOK
  <2>2. QED
    BY <1>3, <2>1 DEF PopTask
<1>4. CASE FinishCall \/ EraseTimer
  BY <1>4 DEF FinishCall, EraseTimer
<1>5. ASSUME NEW t \in Timers, DestroyTimer(t) PROVE TimersGone'
  BY <1>5 DEF DestroyTimer
<1>6. CASE InitSucceeds \/ InitFails \/ TestStopping \/ StopDevice \/ JoinReader \/ DisconnectAll
           \/ Finalize \/ Exit
  BY <1>6 DEF InitSucceeds, InitFails, TestStopping, StopDevice, JoinReader, DisconnectAll,
    Finalize, Exit
<1>7. CASE Device
  BY <1>7 DEF Device, ReadEvent, CallHandler, EmissionDone, ReadStopByte, DeviceFails, ErrorWakesLoop
<1>8. ASSUME NEW t \in Timers, TimerThread(t) PROVE TimersGone'
  BY <1>8 DEF TimerThread, TimerFires, TimerReturns, TimerEnds
<1>9. CASE UNCHANGED vars
  BY <1>9 DEF vars
<1>10. QED
  BY <1>1, <1>2, <1>3, <1>4, <1>5, <1>6, <1>7, <1>8, <1>9 DEF Next, JsThread

(* DeviceProtocol needs ControlJs: no thread is launched over a running one. *)
LEMMA DeviceNext ==
  TypeOK /\ ControlJs /\ DeviceProtocol /\ [Next]_vars => ControlJs' /\ DeviceProtocol'
<1> SUFFICES ASSUME TypeOK, ControlJs, DeviceProtocol, [Next]_vars
             PROVE  ControlJs' /\ DeviceProtocol'
  OBVIOUS
<1> USE DEF ControlJs, DeviceProtocol, LoopStates
<1>1. CASE Control
  BY <1>1 DEF Control, AddDevice, SetFile, RemoveDevice, BeginStop, WakeLoop, Join, Restart, Launch
<1>2. CASE ScriptCode
  BY <1>2 DEF ScriptCode, ConnectSignal, DisconnectSignal, SetTimeout
<1>3. CASE InitSucceeds
  BY <1>3 DEF InitSucceeds
<1>4. CASE InitFails \/ TestStopping
  BY <1>4 DEF InitFails, TestStopping
<1>5. CASE PopTask
  <2>1. Head(queue).kind \in {"wake", "call", "erase"}
    BY <1>5, TaskKinds DEF PopTask, TypeOK
  <2>2. js' \in LoopStates
    BY <1>5, <2>1 DEF PopTask
  <2>3. QED
    BY <1>5, <2>2 DEF PopTask
<1>6. CASE FinishCall \/ EraseTimer
  BY <1>6 DEF FinishCall, EraseTimer
<1>7. CASE StopDevice \/ JoinReader
  BY <1>7 DEF StopDevice, JoinReader
<1>8. CASE DisconnectAll \/ Finalize \/ Exit \/ \E t \in Timers : DestroyTimer(t)
  BY <1>8 DEF DisconnectAll, Finalize, Exit, DestroyTimer
<1>9. CASE Device
  BY <1>9 DEF Device, ReadEvent, CallHandler, EmissionDone, ReadStopByte, DeviceFails, ErrorWakesLoop
<1>10. CASE \E t \in Timers : TimerThread(t)
  BY <1>10 DEF TimerThread, TimerFires, TimerReturns, TimerEnds
<1>11. CASE UNCHANGED vars
  BY <1>11 DEF vars
<1>12. QED
  BY <1>1, <1>2, <1>3, <1>4, <1>5, <1>6, <1>7, <1>8, <1>9, <1>10, <1>11 DEF Next, JsThread

(* Nobody sleeps through a stop request. *)
LEMMA StopNext == TypeOK /\ StopWakesLoop /\ [Next]_vars => StopWakesLoop'
<1> SUFFICES ASSUME TypeOK, StopWakesLoop, [Next]_vars PROVE StopWakesLoop'
  OBVIOUS
<1> USE DEF StopWakesLoop
<1>a. \A k : Append(queue, k) # <<>>
  BY DEF TypeOK
<1>1. CASE Control
  BY <1>1, <1>a DEF Control, AddDevice, SetFile, RemoveDevice, BeginStop, WakeLoop, Join, Restart, Launch
<1>2. CASE ScriptCode
  BY <1>2 DEF ScriptCode, ConnectSignal, DisconnectSignal, SetTimeout
<1>3. CASE PopTask
  <2>1. Head(queue).kind \in {"wake", "call", "erase"}
    BY <1>3, TaskKinds DEF PopTask, TypeOK
  <2>2. QED
    BY <1>3, <2>1 DEF PopTask
<1>4. CASE JsThread /\ ~PopTask
  BY <1>4 DEF JsThread, InitSucceeds, InitFails, TestStopping, FinishCall, EraseTimer,
    StopDevice, JoinReader, DisconnectAll, Finalize, DestroyTimer, Exit
<1>5. CASE Device
  BY <1>5, <1>a DEF Device, ReadEvent, CallHandler, EmissionDone, ReadStopByte, DeviceFails, ErrorWakesLoop
<1>6. CASE \E t \in Timers : TimerThread(t)
  BY <1>6, <1>a DEF TimerThread, TimerFires, TimerReturns, TimerEnds
<1>7. CASE UNCHANGED vars
  BY <1>7 DEF vars
<1>8. QED
  BY <1>1, <1>2, <1>3, <1>4, <1>5, <1>6, <1>7 DEF Next
--------------------------------------------------------------------------------
(* Pushing a task adds its own position to the calls of its caller. *)
LEMMA CallsAppend ==
  ASSUME NEW q \in Seq(Task), NEW k \in Task, NEW c
  PROVE  CallsFrom(Append(q, k), c) =
           CallsFrom(q, c) \cup (IF k.kind = "call" /\ k.from = c THEN {Len(q) + 1} ELSE {})
<1>1. DOMAIN Append(q, k) = DOMAIN q \cup {Len(q) + 1} /\ Append(q, k)[Len(q) + 1] = k
  OBVIOUS
<1>2. \A i \in DOMAIN q : Append(q, k)[i] = q[i] /\ i # Len(q) + 1
  OBVIOUS
<1>3. QED
  BY <1>1, <1>2 DEF CallsFrom

(* Popping one moves the others down by one place. *)
LEMMA CallsTail ==
  ASSUME NEW q \in Seq(Task), q # <<>>, NEW c
  PROVE  /\ \A i \in CallsFrom(Tail(q), c) : i \in Nat \ {0} /\ i + 1 \in CallsFrom(q, c)
         /\ \A i \in CallsFrom(q, c) : i # 1 => i - 1 \in CallsFrom(Tail(q), c)
         /\ 1 \in CallsFrom(q, c) <=> Head(q).kind = "call" /\ Head(q).from = c
<1>1. DOMAIN q = 1 .. Len(q) /\ 1 \in DOMAIN q /\ Head(q) = q[1]
  OBVIOUS
<1>2. DOMAIN Tail(q) = 1 .. Len(q) - 1 /\ \A i \in 1 .. Len(q) - 1 : Tail(q)[i] = q[i + 1]
  OBVIOUS
<1>3. QED
  BY <1>1, <1>2 DEF CallsFrom

(* What CallIsAwaited and BlockedIsServed say of one caller. *)
Sync(c) ==
  /\ CallsFrom(queue, c) # {} \/ Served(c) => Blocked(c)
  /\ Blocked(c) => CallsFrom(queue, c) # {} \/ Served(c) \/ Stranded(c)
  /\ Served(c) => CallsFrom(queue, c) = {}
  /\ \A i, j \in CallsFrom(queue, c) : i = j

LEMMA SyncOfAll == (\A c \in Callers : Sync(c)) <=> CallIsAwaited /\ BlockedIsServed
BY DEF Sync, CallIsAwaited, BlockedIsServed

(* A step that moves neither the JS thread's call, nor what c waits for, and *)
(* pushes at most a task that is not a call of c, leaves c as it was.        *)
LEMMA SyncKept ==
  ASSUME TypeOK, NEW c \in Callers, Sync(c), Stranded(c) => ctl' = "gone",
         Served(c)' = Served(c), Blocked(c)' = Blocked(c),
         \/ queue' = queue
         \/ \E k \in Task : queue' = Append(queue, k) /\ ~(k.kind = "call" /\ k.from = c)
  PROVE  Sync(c)'
<1>1. CallsFrom(queue, c)' = CallsFrom(queue, c)
  <2>1. CASE queue' = queue
    BY <2>1 DEF CallsFrom
  <2>2. CASE \E k \in Task : queue' = Append(queue, k) /\ ~(k.kind = "call" /\ k.from = c)
    BY <2>2, CallsAppend DEF TypeOK, CallsFrom
  <2>3. QED
    BY <2>1, <2>2
<1>2. QED
  BY <1>1 DEF Sync, Stranded

(* A caller that starts to wait pushes its one call. *)
LEMMA SyncStarts ==
  ASSUME TypeOK, NEW c \in Callers, Sync(c), NEW k \in Task,
         ~Blocked(c), Blocked(c)', Served(c)' = Served(c),
         queue' = Append(queue, k), k.kind = "call", k.from = c
  PROVE  Sync(c)'
<1>1. CallsFrom(queue, c)' = {Len(queue) + 1}
  BY CallsAppend DEF TypeOK, Sync, CallsFrom
<1>2. ~Served(c)'
  BY DEF Sync
<1>3. QED
  BY <1>1, <1>2 DEF Sync

(* Erasing the script drops the tasks, when only a shared reader can wait. *)
LEMMA SyncErased ==
  ASSUME ControlJs', DeviceProtocol', TimersGone', NEW c \in Callers,
         queue' = <<>>, ctl' = "gone"
  PROVE  Sync(c)'
<1>1. js' = "none" /\ \A t \in Timers : timer'[t] = "none"
  BY DEF ControlJs, TimersGone
<1>2. JoinsReader => reader' = "off"
  BY <1>1 DEF DeviceProtocol, LoopStates
<1>3. Blocked(c)' => Stranded(c)'
  BY <1>1, <1>2 DEF Blocked, Stranded
<1>4. CallsFrom(queue, c)' = {} /\ ~Served(c)'
  BY <1>1 DEF CallsFrom, Served
<1>5. QED
  BY <1>3, <1>4 DEF Sync

(* Every caller stays in step with the queue and the JS thread. A reader is  *)
(* not started anew while it waits: that is what DeviceProtocol is needed for. *)
LEMMA SyncNext ==
  ASSUME TypeOK, ControlJs, DeviceProtocol, [Next]_vars,
         ControlJs', DeviceProtocol', TimersGone', NEW c \in Callers, Sync(c)
  PROVE  Sync(c)'
<1> USE DEF Blocked, Served
<1>w. Wake \in Task /\ Wake.kind # "call"
  BY TasksPushed DEF Wake
<1>g. Stranded(c) /\ UNCHANGED ctl => ctl' = "gone"
  BY DEF Stranded
<1>1. CASE AddDevice \/ Restart
  <2>1. js = "none"
    BY <1>1 DEF AddDevice, Restart, ControlJs
  <2>2. QED
    BY <1>1, <2>1, SyncKept DEF AddDevice, Restart, Launch, Stranded
<1>2. CASE SetFile \/ RemoveDevice
  BY <1>2, SyncKept DEF SetFile, RemoveDevice, BeginStop, Stranded
<1>j. CASE Join
  <2>1. CASE op = "remove"
    BY <1>j, <2>1, SyncErased DEF Join
  <2>2. CASE op = "setfile"
    BY <1>j, <2>2, SyncKept DEF Join, Stranded
  <2>3. QED
    BY <1>j, <2>1, <2>2 DEF Join
<1>3. CASE WakeLoop
  BY <1>3, <1>w, SyncKept DEF WakeLoop, Stranded
<1>4. CASE ConnectSignal \/ DisconnectSignal
  BY <1>4, <1>g, SyncKept DEF ConnectSignal, DisconnectSignal
<1>5. ASSUME NEW t \in Timers, SetTimeout(t) PROVE Sync(c)'
  BY <1>5, <1>g, SyncKept DEF SetTimeout, TypeOK
<1>6. CASE InitSucceeds
  <2>1. JoinsReader => reader = "off"
    BY <1>6 DEF InitSucceeds, DeviceProtocol, LoopStates
  <2>2. QED
    BY <1>6, <2>1, <1>g, SyncKept DEF InitSucceeds
<1>7. CASE InitFails \/ TestStopping
  BY <1>7, <1>g, SyncKept DEF InitFails, TestStopping
<1>8. CASE PopTask
  <2> DEFINE k == Head(queue)
  <2>1. queue \in Seq(Task) /\ queue # <<>> /\ queue' = Tail(queue) /\ task' = k
    BY <1>8 DEF PopTask, TypeOK
  <2>2. ~Served(c) /\ (Served(c)' <=> k.kind = "call" /\ k.from = c)
    <3>1. k.kind \in {"wake", "call", "erase"}
      BY <2>1, TaskKinds
    <3>2. QED
      BY <1>8, <3>1 DEF PopTask
  <2>3. Blocked(c)' = Blocked(c)
    BY <1>8 DEF PopTask
  <2>4. /\ \A i \in CallsFrom(Tail(queue), c) : i \in Nat \ {0} /\ i + 1 \in CallsFrom(queue, c)
        /\ \A i \in CallsFrom(queue, c) : i # 1 => i - 1 \in CallsFrom(Tail(queue), c)
        /\ 1 \in CallsFrom(queue, c) <=> k.kind = "call" /\ k.from = c
    BY <2>1, CallsTail
  <2>5. CallsFrom(queue, c)' = CallsFrom(Tail(queue), c)
    BY <2>1 DEF CallsFrom
  <2>6. CASE k.kind = "call" /\ k.from = c
    <3>1. CallsFrom(Tail(queue), c) = {}
      BY <2>4, <2>6 DEF Sync
    <3>2. QED
      BY <2>2, <2>3, <2>4, <2>5, <2>6, <3>1 DEF Sync
  <2>7. CASE ~(k.kind = "call" /\ k.from = c)
    <3>1. CallsFrom(queue, c) # {} <=> CallsFrom(Tail(queue), c) # {}
      BY <2>4, <2>7
    <3>2. \A i, j \in CallsFrom(Tail(queue), c) : i = j
      BY <2>4 DEF Sync
    <3>3. Stranded(c)' = Stranded(c) /\ Served(c)' = Served(c)
      BY <1>8, <2>2, <2>7 DEF PopTask, Stranded
    <3>4. QED
      BY <2>3, <2>5, <3>1, <3>2, <3>3 DEF Sync
  <2>8. QED
    BY <2>6, <2>7
<1>9. CASE FinishCall
  <2>1. CASE task.from = c
    <3>1. Served(c) /\ ~Served(c)' /\ CallsFrom(queue, c)' = {}
      BY <1>9, <2>1 DEF FinishCall, Sync, CallsFrom
    <3>2. ~Blocked(c)'
      BY <1>9, <2>1 DEF FinishCall, TypeOK
    <3>3. QED
      BY <3>1, <3>2 DEF Sync
  <2>2. CASE task.from # c
    BY <1>9, <2>2, <1>g, SyncKept DEF FinishCall, TypeOK
  <2>3. QED
    BY <2>1, <2>2
<1>10. CASE EraseTimer
  <2>1. Blocked(c)' = Blocked(c)
    BY <1>10, ScriptThreadAssumption DEF EraseTimer, TypeOK
  <2>2. QED
    BY <1>10, <2>1, <1>g, SyncKept DEF EraseTimer
<1>11. CASE StopDevice \/ JoinReader
  BY <1>11, <1>g, SyncKept DEF StopDevice, JoinReader
<1>12. CASE DisconnectAll \/ Finalize \/ Exit
  BY <1>12, <1>g, SyncKept DEF DisconnectAll, Finalize, Exit
<1>13. ASSUME NEW t \in Timers, DestroyTimer(t) PROVE Sync(c)'
  BY <1>13, <1>g, SyncKept DEF DestroyTimer, TypeOK
<1>14. CASE CallHandler
  <2>0. CASE ctl = "gone"
    <3>1. Served(c)' = Served(c) /\ CallsFrom(queue, c)' = CallsFrom(queue, c) /\ ctl' = "gone"
      BY <1>14, <2>0 DEF CallHandler, CallsFrom
    <3>2. ~JoinsReader
      BY <1>14, <2>0 DEF CallHandler, ControlJs, DeviceProtocol, LoopStates
    <3>3. Blocked(c)' => Blocked(c) \/ Stranded(c)'
      BY <1>14, <3>1, <3>2 DEF CallHandler, Stranded
    <3>4. Blocked(c) => Blocked(c)'
      BY <1>14 DEF CallHandler
    <3>5. Stranded(c) => Stranded(c)'
      BY <3>1 DEF Stranded
    <3>6. QED
      BY <3>1, <3>3, <3>4, <3>5 DEF Sync
  <2> SUFFICES ASSUME ctl # "gone" PROVE Sync(c)'
    BY <2>0
  <2>1. PICK l \in todo \cap conns : queue' = Append(queue, Call(Reader, l))
    BY <1>14 DEF CallHandler
  <2>2. Call(Reader, l) \in Task /\ Call(Reader, l).kind = "call" /\ Call(Reader, l).from = Reader
    <3>1. l \in Nat /\ Reader \in Callers
      BY <2>1 DEF TypeOK
    <3>2. QED
      BY <3>1, TasksPushed DEF Call
  <2>3. CASE c = Reader
    BY <1>14, <2>1, <2>2, <2>3, SyncStarts DEF CallHandler
  <2>4. CASE c # Reader
    BY <1>14, <2>1, <2>2, <2>4, <1>g, SyncKept DEF CallHandler
  <2>5. QED
    BY <2>3, <2>4
<1>15. CASE ReadEvent \/ EmissionDone \/ ReadStopByte \/ DeviceFails
  BY <1>15, <1>g, SyncKept DEF ReadEvent, EmissionDone, ReadStopByte, DeviceFails
<1>16. CASE ErrorWakesLoop
  BY <1>16, <1>w, <1>g, SyncKept DEF ErrorWakesLoop
<1>17. ASSUME NEW t \in Timers, TimerFires(t) PROVE Sync(c)'
  <2>1. Call(t, load) \in Task /\ Call(t, load).kind = "call" /\ Call(t, load).from = t
    <3>1. load \in Nat /\ t \in Callers
      BY DEF TypeOK
    <3>2. QED
      BY <3>1, TasksPushed DEF Call
  <2>2. CASE c = t
    BY <1>17, <2>1, <2>2, SyncStarts, ScriptThreadAssumption DEF TimerFires, TypeOK
  <2>3. CASE c # t
    BY <1>17, <2>1, <2>3, <1>g, SyncKept DEF TimerFires, TypeOK
  <2>4. QED
    BY <2>2, <2>3
<1>18. ASSUME NEW t \in Timers, TimerReturns(t) \/ TimerEnds(t) PROVE Sync(c)'
  <2>1. Erase(t, load) \in Task /\ Erase(t, load).kind # "call"
    BY TasksPushed DEF Erase, TypeOK
  <2>2. QED
    BY <1>18, <2>1, <1>g, SyncKept DEF TimerReturns, TimerEnds, TypeOK
<1>19. CASE UNCHANGED vars
  BY <1>19, <1>g, SyncKept DEF vars
<1>20. QED
  BY <1>1, <1>2, <1>j, <1>3, <1>4, <1>5, <1>6, <1>7, <1>8, <1>9, <1>10, <1>11, <1>12, <1>13,
     <1>14, <1>15, <1>16, <1>17, <1>18, <1>19
  DEF Next, Control, ScriptCode, JsThread, Device, TimerThread
--------------------------------------------------------------------------------
(* The inductive invariant: each part needs the ones before it. *)
SafetyInv ==
  /\ TypeOK
  /\ Started
  /\ ControlJs
  /\ TimersGone
  /\ StopWakesLoop
  /\ DeviceProtocol
  /\ CallIsAwaited
  /\ BlockedIsServed

LEMMA SafetyInit == Init => SafetyInv
<1> SUFFICES ASSUME Init PROVE SafetyInv
  OBVIOUS
<1>1. TypeOK /\ Started
  BY TypeInit
<1>2. ControlJs /\ TimersGone /\ StopWakesLoop /\ DeviceProtocol
  BY DEF Init, ControlJs, TimersGone, StopWakesLoop, DeviceProtocol, LoopStates
<1>3. \A c \in Callers : CallsFrom(queue, c) = {} /\ ~Served(c) /\ ~Blocked(c)
  BY DEF Init, CallsFrom, Served, Blocked
<1>4. QED
  BY <1>1, <1>2, <1>3 DEF SafetyInv, CallIsAwaited, BlockedIsServed

LEMMA SafetyNext == SafetyInv /\ [Next]_vars => SafetyInv'
<1> SUFFICES ASSUME SafetyInv, [Next]_vars PROVE SafetyInv'
  OBVIOUS
<1>1. TypeOK' /\ Started'
  BY TypeNext DEF SafetyInv
<1>2. ControlJs' /\ DeviceProtocol' /\ TimersGone'
  BY DeviceNext, TimersNext DEF SafetyInv
<1>3. StopWakesLoop'
  BY StopNext DEF SafetyInv
<1>4. \A c \in Callers : Sync(c)'
  BY <1>2, SyncOfAll, SyncNext DEF SafetyInv
<1>5. CallIsAwaited' /\ BlockedIsServed'
  BY <1>4 DEF Sync, CallIsAwaited, BlockedIsServed
<1>6. QED
  BY <1>1, <1>2, <1>3, <1>5 DEF SafetyInv

LEMMA Safety == Spec => []SafetyInv
  BY SafetyInit, SafetyNext, PTL DEF Spec

(* A stop request always reaches the loop, whatever the number of restarts. *)
THEOREM StopRequestWakes == Spec => []StopWakesLoop
<1>1. SafetyInv => StopWakesLoop
  BY DEF SafetyInv
<1>2. QED
  BY <1>1, Safety, PTL

(* The device is started and stopped in turn, over all loads of the script. *)
THEOREM DeviceProtocolHolds == Spec => []DeviceProtocol
<1>1. SafetyInv => DeviceProtocol
  BY DEF SafetyInv
<1>2. QED
  BY <1>1, Safety, PTL

(* No task outlives the stack frame it refers to. *)
THEOREM CallsAreAwaited == Spec => []CallIsAwaited
<1>1. SafetyInv => CallIsAwaited
  BY DEF SafetyInv
<1>2. QED
  BY <1>1, Safety, PTL

(* No thread waits for a task that was lost, but for a reader several devices *)
(* share, whose task goes with the script it called.                         *)
THEOREM BlockedAreServed == Spec => []BlockedIsServed
<1>1. SafetyInv => BlockedIsServed
  BY DEF SafetyInv
<1>2. QED
  BY <1>1, Safety, PTL
--------------------------------------------------------------------------------
(* Refinement of ScriptLifecycle, where the runs that refute parts of it do   *)
(* not apply: a device whose stop joins its reader, scripts whose init        *)
(* returns and whose finalize connects nothing.                               *)
WellBehaved == JoinsReader /\ ~InitMayFail /\ "finalize" \notin ConnectIn

(* Between two loads nothing is left of the first: no connection, and no call *)
(* in the queue.                                                              *)
NothingLeft ==
  /\ js \notin LoopStates \cup {"init", "devstop", "devjoin", "disconnect"} => conns = {}
  /\ \A i \in DOMAIN queue : queue[i].kind = "call" => queue[i].load = load
  /\ js = "call" => task.load = load
  /\ conns \subseteq {load}

LifeInv == SafetyInv /\ NothingLeft

LEMMA LifeInit == Init => LifeInv
<1> SUFFICES ASSUME Init PROVE LifeInv
  OBVIOUS
<1>1. NothingLeft
  BY DEF Init, NothingLeft, LoopStates
<1>2. QED
  BY <1>1, SafetyInit DEF LifeInv

(* When no JS thread exists, no call is queued: nobody can be waiting. *)
LEMMA NoCallBetweenLoads ==
  ASSUME SafetyInv, NothingLeft, JoinsReader, js = "none"
  PROVE  \A i \in DOMAIN queue : queue[i].kind # "call"
<1>1. \A c \in Callers : ~Blocked(c)
  BY DEF SafetyInv, TimersGone, DeviceProtocol, LoopStates, Blocked
<1>2. \A c \in Callers : CallsFrom(queue, c) = {}
  BY <1>1 DEF SafetyInv, CallIsAwaited
<1>3. \A i \in DOMAIN queue : queue[i].kind = "call" => queue[i].from \in Callers
  BY TaskKinds DEF SafetyInv, TypeOK
<1>4. QED
  BY <1>2, <1>3 DEF CallsFrom

(* Pushing keeps the calls of this load, if what is pushed is one or no call. *)
LEMMA PushKeepsLoad ==
  ASSUME TypeOK, NEW k \in Task, k.kind = "call" => k.load = load,
         \A i \in DOMAIN queue : queue[i].kind = "call" => queue[i].load = load
  PROVE  \A i \in DOMAIN Append(queue, k) :
           Append(queue, k)[i].kind = "call" => Append(queue, k)[i].load = load
BY DEF TypeOK

LEMMA LifeNext == WellBehaved /\ LifeInv /\ [Next]_vars => LifeInv'
<1> SUFFICES ASSUME WellBehaved, SafetyInv, NothingLeft, [Next]_vars PROVE NothingLeft'
  BY SafetyNext DEF LifeInv
<1> USE DEF NothingLeft, LoopStates, WellBehaved
<1>t. TypeOK
  BY DEF SafetyInv
<1>w. Wake \in Task /\ Wake.kind # "call"
  BY TasksPushed DEF Wake
<1>1. CASE AddDevice \/ Restart
  <2>1. js = "none"
    BY <1>1 DEF AddDevice, Restart, SafetyInv, ControlJs
  <2>2. \A i \in DOMAIN queue : queue[i].kind # "call"
    BY <2>1, NoCallBetweenLoads
  <2>3. conns = {}
    BY <2>1
  <2>4. QED
    BY <1>1, <2>1, <2>2, <2>3 DEF AddDevice, Restart, Launch
<1>2. CASE SetFile \/ RemoveDevice \/ Join
  BY <1>2 DEF SetFile, RemoveDevice, BeginStop, Join
<1>3. CASE WakeLoop
  <2>1. \A i \in DOMAIN queue' : queue'[i].kind = "call" => queue'[i].load = load
    BY <1>3, <1>t, <1>w, PushKeepsLoad DEF WakeLoop
  <2>2. QED
    BY <1>3, <2>1 DEF WakeLoop
<1>4. CASE ConnectSignal \/ DisconnectSignal
  BY <1>4, ScriptThreadAssumption DEF ConnectSignal, DisconnectSignal
<1>5. ASSUME NEW t \in Timers, SetTimeout(t) PROVE NothingLeft'
  BY <1>5 DEF SetTimeout, ScriptRuns
<1>6. CASE InitSucceeds \/ InitFails \/ TestStopping
  BY <1>6 DEF InitSucceeds, InitFails, TestStopping
<1>7. CASE PopTask
  <2>1. Head(queue).kind \in {"wake", "call", "erase"}
    BY <1>7, <1>t, TaskKinds DEF PopTask, TypeOK
  <2>2. /\ DOMAIN queue = 1 .. Len(queue)
        /\ 1 \in DOMAIN queue
        /\ Head(queue) = queue[1]
        /\ DOMAIN Tail(queue) = 1 .. Len(queue) - 1
        /\ \A i \in 1 .. Len(queue) - 1 : i + 1 \in DOMAIN queue /\ Tail(queue)[i] = queue[i + 1]
    BY <1>7, <1>t DEF PopTask, TypeOK
  <2>3. \A i \in DOMAIN queue' : queue'[i].kind = "call" => queue'[i].load = load
    BY <1>7, <2>2 DEF PopTask
  <2>4. js' = "call" => task'.load = load
    BY <1>7, <2>1, <2>2 DEF PopTask
  <2>5. QED
    BY <1>7, <2>1, <2>3, <2>4 DEF PopTask
<1>8. CASE FinishCall
  BY <1>8 DEF FinishCall
<1>9. CASE EraseTimer
  BY <1>9 DEF EraseTimer
<1>10. CASE StopDevice \/ JoinReader \/ DisconnectAll \/ Finalize \/ Exit
  BY <1>10 DEF StopDevice, JoinReader, DisconnectAll, Finalize, Exit
<1>11. ASSUME NEW t \in Timers, DestroyTimer(t) PROVE NothingLeft'
  BY <1>11 DEF DestroyTimer
<1>12. CASE CallHandler
  <2>1. PICK l \in todo \cap conns : queue' = Append(queue, Call(Reader, l))
    BY <1>12 DEF CallHandler, SafetyInv, ControlJs, DeviceProtocol
  <2>2. l = load
    BY <2>1
  <2>3. Call(Reader, l) \in Task /\ Call(Reader, l).load = load
    BY <2>2, <1>t, TasksPushed DEF Call, TypeOK
  <2>4. \A i \in DOMAIN queue' : queue'[i].kind = "call" => queue'[i].load = load
    BY <2>1, <2>3, <1>t, PushKeepsLoad
  <2>5. QED
    BY <1>12, <2>4 DEF CallHandler
<1>13. CASE ReadEvent \/ EmissionDone \/ ReadStopByte \/ DeviceFails
  BY <1>13 DEF ReadEvent, EmissionDone, ReadStopByte, DeviceFails
<1>14. CASE ErrorWakesLoop
  <2>1. \A i \in DOMAIN queue' : queue'[i].kind = "call" => queue'[i].load = load
    BY <1>14, <1>t, <1>w, PushKeepsLoad DEF ErrorWakesLoop
  <2>2. QED
    BY <1>14, <2>1 DEF ErrorWakesLoop
<1>15. ASSUME NEW t \in Timers, TimerThread(t) PROVE NothingLeft'
  <2>2. /\ Call(t, load) \in Task /\ Call(t, load).load = load
        /\ Erase(t, load) \in Task /\ Erase(t, load).kind # "call"
    BY <1>t, TasksPushed DEF Call, Erase, TypeOK
  <2>3. \A i \in DOMAIN queue' : queue'[i].kind = "call" => queue'[i].load = load
    BY <1>15, <2>2, <1>t, PushKeepsLoad DEF TimerThread, TimerFires, TimerReturns, TimerEnds
  <2>4. UNCHANGED <<js, load, task, conns>>
    BY <1>15 DEF TimerThread, TimerFires, TimerReturns, TimerEnds
  <2>5. QED
    BY <2>3, <2>4
<1>16. CASE UNCHANGED vars
  BY <1>16 DEF vars
<1>17. QED
  BY <1>1, <1>2, <1>3, <1>4, <1>5, <1>6, <1>7, <1>8, <1>9, <1>10, <1>11, <1>12, <1>13,
     <1>14, <1>15, <1>16
  DEF Next, Control, ScriptCode, JsThread, Device
LEMMA RefinesInit == Init => Lifecycle!Init
BY DEF Init, Lifecycle!Init, LoopStates

LEMMA RefinesNext == WellBehaved /\ LifeInv /\ [Next]_vars => [Lifecycle!Next]_(Lifecycle!vars)
<1> SUFFICES ASSUME WellBehaved, SafetyInv, NothingLeft, [Next]_vars
             PROVE  Lifecycle!Next \/ UNCHANGED Lifecycle!vars
  BY DEF LifeInv
<1> USE DEF Lifecycle!vars, Lifecycle!Next, LoopStates
<1>t. TypeOK /\ Started
  BY DEF SafetyInv
<1>1. CASE AddDevice \/ Restart
  <2>1. js = "none"
    BY <1>1 DEF AddDevice, Restart, SafetyInv, ControlJs
  <2>2. conns = {}
    BY <2>1 DEF NothingLeft
  <2>3. Lifecycle!Load
    BY <1>1, <2>1, <2>2 DEF AddDevice, Restart, Launch, Lifecycle!Load
  <2>4. QED
    BY <2>3
<1>2. CASE SetFile \/ RemoveDevice \/ WakeLoop \/ Join
  BY <1>2 DEF SetFile, RemoveDevice, BeginStop, WakeLoop, Join
<1>3. CASE ConnectSignal
  <2>1. js \in {"init", "call"}
    BY <1>3, ScriptThreadAssumption DEF ConnectSignal, WellBehaved
  <2>2. Lifecycle!Subscribe
    BY <1>3, <2>1 DEF ConnectSignal, Lifecycle!Subscribe
  <2>3. QED
    BY <2>2
<1>4. CASE DisconnectSignal
  <2>1. js \in {"init", "call"}
    BY <1>4 DEF DisconnectSignal, ScriptRuns, NothingLeft
  <2>2. Lifecycle!Subscribe
    BY <1>4, <2>1 DEF DisconnectSignal, Lifecycle!Subscribe
  <2>3. QED
    BY <2>2
<1>5. ASSUME NEW t \in Timers, SetTimeout(t) \/ DestroyTimer(t) \/ TimerThread(t)
      PROVE  UNCHANGED Lifecycle!vars
  BY <1>5 DEF SetTimeout, DestroyTimer, TimerThread, TimerFires, TimerReturns, TimerEnds
<1>6. CASE InitSucceeds
  <2>1. Lifecycle!Loaded
    BY <1>6 DEF InitSucceeds, Lifecycle!Loaded
  <2>2. QED
    BY <2>1
<1>7. CASE InitFails
  BY <1>7 DEF InitFails, WellBehaved
<1>8. CASE TestStopping
  BY <1>8 DEF TestStopping
<1>9. CASE PopTask
  <2>1. Head(queue).kind \in {"wake", "call", "erase"}
    BY <1>9, <1>t, TaskKinds DEF PopTask, TypeOK
  <2>2. CASE Head(queue).kind = "call"
    <3>1. task' = Head(queue) /\ task'.load = load
      BY <1>9, <2>2, <1>t DEF PopTask, TypeOK, NothingLeft
    <3>2. Lifecycle!Handle
      BY <1>9, <2>2, <3>1 DEF PopTask, Lifecycle!Handle
    <3>3. QED
      BY <3>2
  <2>3. CASE Head(queue).kind # "call"
    BY <1>9, <2>1, <2>3 DEF PopTask
  <2>4. QED
    BY <2>2, <2>3
<1>10. CASE FinishCall
  <2>1. task.load # 0
    BY <1>10, <1>t DEF FinishCall, NothingLeft, Started, TypeOK
  <2>2. Lifecycle!Handled
    BY <1>10, <2>1 DEF FinishCall, Lifecycle!Handled
  <2>3. QED
    BY <2>2
<1>11. CASE EraseTimer \/ StopDevice \/ JoinReader
  BY <1>11 DEF EraseTimer, StopDevice, JoinReader
<1>12. CASE DisconnectAll
  <2>1. Lifecycle!BeginUnload
    BY <1>12 DEF DisconnectAll, Lifecycle!BeginUnload
  <2>2. QED
    BY <2>1
<1>13. CASE Finalize
  <2>1. Lifecycle!Finalized
    BY <1>13 DEF Finalize, Lifecycle!Finalized
  <2>2. QED
    BY <2>1
<1>14. CASE Exit
  BY <1>14 DEF Exit
<1>15. CASE Device
  BY <1>15 DEF Device, ReadEvent, CallHandler, EmissionDone, ReadStopByte, DeviceFails, ErrorWakesLoop
<1>16. CASE UNCHANGED vars
  BY <1>16 DEF vars
<1>17. QED
  BY <1>1, <1>2, <1>3, <1>4, <1>5, <1>6, <1>7, <1>8, <1>9, <1>10, <1>11, <1>12, <1>13,
     <1>14, <1>15, <1>16
  DEF Next, Control, ScriptCode, JsThread

(* The threads and the queue give scripts the life cycle README promises:    *)
(* one load at a time from a clean slate, handlers of that load only and one *)
(* at a time, all signals disconnected before finalize.                      *)
THEOREM ImplementsLifecycle ==
  ASSUME WellBehaved
  PROVE  Spec => LifecycleSpec
<1>1. LifeInv /\ [Next]_vars => LifeInv'
  BY LifeNext
<1>2. LifeInv /\ [Next]_vars => [Lifecycle!Next]_(Lifecycle!vars)
  BY RefinesNext
<1>3. QED
  BY <1>1, <1>2, LifeInit, RefinesInit, PTL DEF Spec, LifecycleSpec, Lifecycle!Spec
================================================================================
