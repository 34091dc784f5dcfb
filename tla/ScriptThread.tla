------------------------------ MODULE ScriptThread ------------------------------
(***************************************************************************)
(* The life of one script: the JS thread of jstpl::Thread running          *)
(* Script::run, the task queue other threads use to call into it, the      *)
(* device's reader thread, the timer threads of System::setTimeout, and    *)
(* the thread (DBus dispatcher, driver or main) that starts and stops it.  *)
(*                                                                         *)
(* MTQueue is used as an atomic FIFO here; module MTQueue justifies that.  *)
(* JS code is abstracted to what it asks of C++: connecting and            *)
(* disconnecting signals, setting timeouts, failing in init.               *)
(***************************************************************************)
EXTENDS Naturals, Sequences

CONSTANTS
  Timers,         \* the Timer objects a script may have at a time
  Reader,         \* the device thread that emits the event signals
  MaxLoads,       \* bound: how many times the script is started
  JoinsReader,    \* InputDevice::stop joins the reader (event, wiimote) or
                  \* only disconnects from it (steamcontroller, hidpp20)
  DeviceMayFail,  \* the device may emit its error signal
  InitMayFail,    \* the script's init may throw
  ConnectIn       \* where a script calls connect: init, call (a handler), finalize

ASSUME ScriptThreadAssumption ==
  /\ Reader \notin Timers
  /\ MaxLoads \in Nat \ {0}
  /\ {JoinsReader, DeviceMayFail, InitMayFail} \subseteq BOOLEAN
  /\ ConnectIn \subseteq {"init", "call", "finalize"}

VARIABLES
  ctl,        \* pc of the controlling thread, in Thread::start and Thread::stop
  op,         \* what it stops the script for: a new file or removal
  stopping,   \* Thread::_stopping
  queue,      \* Thread::_task_queue
  js,         \* pc of the JS thread; "none" when _thread is not joinable
  load,       \* how many times the thread was started: names the JSContext,
              \* the System and the callbacks that belong to the current run
  task,       \* the task the JS thread is executing
  conns,      \* loads that have a handler connected to the device (and in
              \* Script::_signal_connections)
  listening,  \* between InputDevice::start and the end of InputDevice::stop
  reader,     \* pc of the reader thread; "off" when it does not exist
  todo,       \* handlers the signal being emitted has not called yet
  pipe,       \* bytes in the device's pipe
  timer       \* state of each Timer

ctlVars    == <<ctl, op>>
deviceVars == <<listening, reader, todo, pipe>>
vars == <<ctl, op, stopping, queue, js, load, task, conns,
          listening, reader, todo, pipe, timer>>

Callers == Timers \cup {Reader}

(* The tasks: the empty lambda that wakes the loop, a blocking call into   *)
(* JS (execOnJsThreadSync) and the deferred deletion of a timer.           *)
Wake        == [kind |-> "wake"]
Call(c, l)  == [kind |-> "call", from |-> c, load |-> l]
Erase(t, l) == [kind |-> "erase", from |-> t, load |-> l]

CtlStates    == {"new", "idle", "wake", "join", "start", "gone"}
LoopStates   == {"test", "pop", "call", "erase"}
JsStates     == {"none", "init", "devstop", "devjoin", "disconnect",
                 "finalize", "unwind", "exited"} \cup LoopStates
ReaderStates == {"off", "select", "emit", "blocked", "wake", "ended"}
TimerStates  == {"none", "armed", "blocked", "returned", "leaving", "done"}

Init ==
  /\ ctl = "new" /\ op = "none"
  /\ stopping = FALSE
  /\ queue = <<>>
  /\ js = "none"
  /\ load = 0
  /\ task = Wake
  /\ conns = {}
  /\ listening = FALSE
  /\ reader = IF JoinsReader THEN "off" ELSE "select"
  /\ todo = {}
  /\ pipe = 0
  /\ timer = [t \in Timers |-> "none"]
--------------------------------------------------------------------------------
(* Plausible mistakes in the code, each a wrong version of the action named  *)
(* before the underscore. No behaviour of Spec uses them: PROJECT.json lists *)
(* which property notices each of them.                                      *)

(* stop() sets the flag and joins, but does not wake the loop. *)
WakeLoop_NoTask ==
  /\ ctl = "wake"
  /\ ctl' = "join"
  /\ UNCHANGED <<op, stopping, queue, js, load, task, conns, deviceVars, timer>>

(* The error handler sets the flag, but does not wake the loop. *)
ErrorWakesLoop_NoTask ==
  /\ reader = "wake"
  /\ reader' = "ended"
  /\ UNCHANGED <<ctlVars, stopping, queue, js, load, task, conns, listening, todo, pipe, timer>>

(* The slot uses execOnJsThreadAsync and goes on with its dead arguments. *)
CallHandler_Async ==
  /\ reader = "emit"
  /\ \E l \in todo \cap conns :
       /\ todo' = todo \ {l}
       /\ queue' = Append(queue, Call(Reader, l))
  /\ UNCHANGED <<ctlVars, stopping, js, load, task, conns, listening, reader, pipe, timer>>

(* The tasks of the signals that are disconnected are thrown away. *)
DisconnectAll_DropsTasks ==
  /\ js = "disconnect"
  /\ conns' = {}
  /\ queue' = <<>>
  /\ js' = "finalize"
  /\ UNCHANGED <<ctlVars, stopping, load, task, deviceVars, timer>>

(* The remaining connections are forgotten, not disconnected. *)
DisconnectAll_Forgets ==
  /\ js = "disconnect"
  /\ js' = "finalize"
  /\ UNCHANGED <<ctlVars, stopping, queue, load, task, conns, deviceVars, timer>>

(* The device is not stopped when its error signal ended the loop. *)
StopDevice_SkippedOnError ==
  /\ js = "devstop"
  /\ IF JoinsReader /\ reader # "ended"
       THEN pipe' = pipe + 1 /\ js' = "devjoin"
       ELSE js' = "disconnect" /\ UNCHANGED pipe
  /\ UNCHANGED <<ctlVars, stopping, queue, load, task, conns, listening, reader, todo, timer>>
--------------------------------------------------------------------------------
(* The controlling thread: ScriptManager::addDevice, Script::on_set_property *)
(* and ScriptManager::removeDevice (or ~ScriptManager).                      *)

(* Thread::start. *)
Launch ==
  /\ stopping' = FALSE
  /\ js' = "init"
  /\ load' = load + 1

AddDevice ==
  /\ ctl = "new"
  /\ Launch
  /\ ctl' = "idle"
  /\ UNCHANGED <<op, queue, task, conns, deviceVars, timer>>

(* Thread::stop up to the assignment of _stopping. *)
BeginStop(reason) ==
  /\ ctl = "idle"
  /\ js # "none"
  /\ op' = reason
  /\ stopping' = TRUE
  /\ ctl' = "wake"
  /\ UNCHANGED <<queue, js, load, task, conns, deviceVars, timer>>

SetFile == load < MaxLoads /\ BeginStop("setfile")
RemoveDevice == BeginStop("remove")

(* The rest of Thread::stop: push an empty task, then join. *)
WakeLoop ==
  /\ ctl = "wake"
  /\ queue' = Append(queue, Wake)
  /\ ctl' = "join"
  /\ UNCHANGED <<op, stopping, js, load, task, conns, deviceVars, timer>>

(* removeDevice, once stop has returned: the Script goes, and its _task_queue. *)
EraseScript ==
  /\ ctl' = "gone"
  /\ queue' = <<>>

Join ==
  /\ ctl = "join"
  /\ js = "exited"
  /\ js' = "none"
  /\ \/ op = "setfile" /\ ctl' = "start" /\ UNCHANGED queue
     \/ op = "remove" /\ EraseScript
  /\ UNCHANGED <<op, stopping, load, task, conns, deviceVars, timer>>

(* on_set_property, once stop has returned: set _filename and start. *)
Restart ==
  /\ ctl = "start"
  /\ Launch
  /\ ctl' = "idle"
  /\ op' = "none"
  /\ UNCHANGED <<queue, task, conns, deviceVars, timer>>
--------------------------------------------------------------------------------
(* JS code: what a script does while init, a handler or finalize runs. *)

ScriptRuns == js \in {"init", "call", "finalize"}

ConnectSignal ==
  /\ js \in ConnectIn
  /\ conns' = conns \cup {load}
  /\ UNCHANGED <<ctlVars, stopping, queue, js, load, task, deviceVars, timer>>

DisconnectSignal ==
  /\ ScriptRuns
  /\ \E l \in conns : conns' = conns \ {l}
  /\ UNCHANGED <<ctlVars, stopping, queue, js, load, task, deviceVars, timer>>

SetTimeout(t) ==
  /\ ScriptRuns
  /\ timer[t] = "none"
  /\ timer' = [timer EXCEPT ![t] = "armed"]
  /\ UNCHANGED <<ctlVars, stopping, queue, js, load, task, conns, deviceVars>>
--------------------------------------------------------------------------------
(* Script::run and Thread::exec, on the JS thread. *)

(* init returned true: connect to the error signal, start the device. *)
InitSucceeds ==
  /\ js = "init"
  /\ js' = "test"
  /\ listening' = TRUE
  /\ reader' = IF JoinsReader THEN "select" ELSE reader
  /\ UNCHANGED <<ctlVars, stopping, queue, load, task, conns, todo, pipe, timer>>

(* The script cannot be read or init throws: Script::run is left at once. *)
InitFails ==
  /\ InitMayFail
  /\ js = "init"
  /\ js' = "unwind"
  /\ UNCHANGED <<ctlVars, stopping, queue, load, task, conns, deviceVars, timer>>

TestStopping ==
  /\ js = "test"
  /\ js' = IF stopping THEN "devstop" ELSE "pop"
  /\ UNCHANGED <<ctlVars, stopping, queue, load, task, conns, deviceVars, timer>>

PopTask ==
  /\ js = "pop"
  /\ queue # <<>>
  /\ task' = Head(queue)
  /\ queue' = Tail(queue)
  /\ js' = IF Head(queue).kind = "wake" THEN "test" ELSE Head(queue).kind
  /\ UNCHANGED <<ctlVars, stopping, load, conns, deviceVars, timer>>

(* The callback returned: promise.set_value lets the caller go on. *)
FinishCall ==
  /\ js = "call"
  /\ js' = "test"
  /\ task' = Wake
  /\ IF task.from = Reader
       THEN reader' = "emit" /\ UNCHANGED timer
       ELSE timer' = [timer EXCEPT ![task.from] = "returned"] /\ UNCHANGED reader
  /\ UNCHANGED <<ctlVars, stopping, queue, load, conns, listening, todo, pipe>>

(* _timers.erase: ~Timer joins the timer's thread. The System of an earlier *)
(* load is gone; what its erase does to freed memory is not modelled.       *)
EraseTimer ==
  /\ js = "erase"
  /\ IF task.load = load
       THEN timer[task.from] = "done" /\ timer' = [timer EXCEPT ![task.from] = "none"]
       ELSE UNCHANGED timer
  /\ js' = "test"
  /\ task' = Wake
  /\ UNCHANGED <<ctlVars, stopping, queue, load, conns, deviceVars>>

(* exec returned: disconnect from the error signal and stop the device. *)
StopDevice ==
  /\ js = "devstop"
  /\ IF JoinsReader
       THEN pipe' = pipe + 1 /\ js' = "devjoin" /\ UNCHANGED listening
       ELSE listening' = FALSE /\ js' = "disconnect" /\ UNCHANGED pipe
  /\ UNCHANGED <<ctlVars, stopping, queue, load, task, conns, reader, todo, timer>>

JoinReader ==
  /\ js = "devjoin"
  /\ reader = "ended"
  /\ reader' = "off"
  /\ listening' = FALSE
  /\ js' = "disconnect"
  /\ UNCHANGED <<ctlVars, stopping, queue, load, task, conns, todo, pipe, timer>>

DisconnectAll ==
  /\ js = "disconnect"
  /\ conns' = {}
  /\ js' = "finalize"
  /\ UNCHANGED <<ctlVars, stopping, queue, load, task, deviceVars, timer>>

Finalize ==
  /\ js = "finalize"
  /\ js' = "unwind"
  /\ UNCHANGED <<ctlVars, stopping, queue, load, task, conns, deviceVars, timer>>

(* ~System destroys the timers. Timer::stop needs the mutex its thread holds *)
(* while it runs the callback, and then joins that thread.                   *)
DestroyTimer(t) ==
  /\ js = "unwind"
  /\ timer[t] \in {"armed", "done"}
  /\ timer' = [timer EXCEPT ![t] = "none"]
  /\ UNCHANGED <<ctlVars, stopping, queue, js, load, task, conns, deviceVars>>

Exit ==
  /\ js = "unwind"
  /\ \A t \in Timers : timer[t] = "none"
  /\ js' = "exited"
  /\ UNCHANGED <<ctlVars, stopping, queue, load, task, conns, deviceVars, timer>>
--------------------------------------------------------------------------------
(* The reader thread: readEvents of event and wiimote devices, monitor of a *)
(* Steam Controller receiver.                                               *)

ReadEvent ==
  /\ reader = "select"
  /\ listening
  /\ reader' = "emit"
  /\ todo' = conns
  /\ UNCHANGED <<ctlVars, stopping, queue, js, load, task, conns, listening, pipe, timer>>

(* The signal calls its next slot, which blocks until the JS thread ran it.  *)
(* The slot a deleted script left connected has no queue to push to any more. *)
CallHandler ==
  /\ reader = "emit"
  /\ \E l \in todo \cap conns :
       /\ todo' = todo \ {l}
       /\ queue' = IF ctl = "gone" THEN queue ELSE Append(queue, Call(Reader, l))
  /\ reader' = "blocked"
  /\ UNCHANGED <<ctlVars, stopping, js, load, task, conns, listening, pipe, timer>>

EmissionDone ==
  /\ reader = "emit"
  /\ todo \cap conns = {}
  /\ todo' = {}
  /\ reader' = "select"
  /\ UNCHANGED <<ctlVars, stopping, queue, js, load, task, conns, listening, pipe, timer>>

ReadStopByte ==
  /\ JoinsReader
  /\ reader = "select"
  /\ pipe > 0
  /\ pipe' = pipe - 1
  /\ reader' = "ended"
  /\ UNCHANGED <<ctlVars, stopping, queue, js, load, task, conns, listening, todo, timer>>

(* The lambda Script::run connects to InputDevice::error is connected. *)
ErrorConnected == js \in LoopStates \cup {"devstop"}

(* A fatal error: emit error and leave the thread. *)
DeviceFails ==
  /\ DeviceMayFail /\ JoinsReader
  /\ reader = "select"
  /\ IF ErrorConnected
       THEN stopping' = TRUE /\ reader' = "wake"
       ELSE reader' = "ended" /\ UNCHANGED stopping
  /\ UNCHANGED <<ctlVars, queue, js, load, task, conns, listening, todo, pipe, timer>>

ErrorWakesLoop ==
  /\ reader = "wake"
  /\ queue' = Append(queue, Wake)
  /\ reader' = "ended"
  /\ UNCHANGED <<ctlVars, stopping, js, load, task, conns, listening, todo, pipe, timer>>
--------------------------------------------------------------------------------
(* A timer thread. From TimerFires to TimerEnds it holds Timer::_mutex. *)

TimerFires(t) ==
  /\ timer[t] = "armed"
  /\ queue' = Append(queue, Call(t, load))
  /\ timer' = [timer EXCEPT ![t] = "blocked"]
  /\ UNCHANGED <<ctlVars, stopping, js, load, task, conns, deviceVars>>

(* The lambda of setTimeout goes on to push the deletion of its own timer. *)
TimerReturns(t) ==
  /\ timer[t] = "returned"
  /\ queue' = Append(queue, Erase(t, load))
  /\ timer' = [timer EXCEPT ![t] = "leaving"]
  /\ UNCHANGED <<ctlVars, stopping, js, load, task, conns, deviceVars>>

TimerEnds(t) ==
  /\ timer[t] = "leaving"
  /\ timer' = [timer EXCEPT ![t] = "done"]
  /\ UNCHANGED <<ctlVars, stopping, queue, js, load, task, conns, deviceVars>>
--------------------------------------------------------------------------------
Control == AddDevice \/ SetFile \/ RemoveDevice \/ WakeLoop \/ Join \/ Restart

ScriptCode == ConnectSignal \/ DisconnectSignal \/ \E t \in Timers : SetTimeout(t)

JsThread ==
  \/ InitSucceeds \/ InitFails
  \/ TestStopping \/ PopTask \/ FinishCall \/ EraseTimer
  \/ StopDevice \/ JoinReader \/ DisconnectAll \/ Finalize
  \/ \E t \in Timers : DestroyTimer(t)
  \/ Exit

Device ==
  \/ ReadEvent \/ CallHandler \/ EmissionDone \/ ReadStopByte
  \/ DeviceFails \/ ErrorWakesLoop

TimerThread(t) == TimerFires(t) \/ TimerReturns(t) \/ TimerEnds(t)

Next ==
  \/ Control
  \/ ScriptCode
  \/ JsThread
  \/ Device
  \/ \E t \in Timers : TimerThread(t)

Spec == Init /\ [][Next]_vars

(* Threads the scheduler does not starve and scripts whose code returns. A  *)
(* stop byte is read once the reader has drained the device, which it does  *)
(* again and again: strong fairness. No fairness for what the user and the  *)
(* hardware do (SetFile, RemoveDevice, ReadEvent, DeviceFails).             *)
Fairness ==
  /\ WF_vars(AddDevice \/ WakeLoop \/ Join \/ Restart)
  /\ WF_vars(JsThread)
  /\ WF_vars(CallHandler \/ EmissionDone \/ ErrorWakesLoop)
  /\ SF_vars(ReadStopByte)
  /\ \A t \in Timers : WF_vars(TimerThread(t))

FairSpec == Spec /\ Fairness
--------------------------------------------------------------------------------
Task ==
  {Wake} \cup [kind : {"call"}, from : Callers, load : Nat]
         \cup [kind : {"erase"}, from : Timers, load : Nat]

(* Every variable ranges over the values the code can give it. *)
TypeOK ==
  /\ ctl \in CtlStates
  /\ op \in {"none", "setfile", "remove"}
  /\ stopping \in BOOLEAN
  /\ queue \in Seq(Task)
  /\ js \in JsStates
  /\ load \in Nat
  /\ task \in Task
  /\ js \in {"call", "erase"} => task.kind = js
  /\ conns \subseteq 1 .. load
  /\ listening \in BOOLEAN
  /\ reader \in ReaderStates
  /\ todo \subseteq 1 .. load
  /\ pipe \in Nat
  /\ timer \in [Timers -> TimerStates]

(* No stop request is lost (Thread::stop and the error handler of          *)
(* Script::run against Thread::exec): the loop never sleeps in pop with    *)
(* _stopping set unless a task is there, or about to be pushed, to wake it. *)
StopWakesLoop ==
  js = "pop" /\ stopping => queue # <<>> \/ ctl = "wake" \/ reader = "wake"

Blocked(c) == IF c = Reader THEN reader = "blocked" ELSE timer[c] = "blocked"
Served(c)  == js = "call" /\ task.from = c
CallsFrom(q, c) == {i \in DOMAIN q : q[i].kind = "call" /\ q[i].from = c}

(* The lambda execOnJsThreadSync queues refers to the promise and the       *)
(* function on the caller's stack: as long as such a task is queued or runs *)
(* its caller is still waiting for it, and waits for that one task only.    *)
CallIsAwaited ==
  \A c \in Callers :
    /\ CallsFrom(queue, c) # {} \/ Served(c) => Blocked(c)
    /\ Served(c) => CallsFrom(queue, c) = {}
    /\ \A i, j \in CallsFrom(queue, c) : i = j

(* A thread that waits in execOnJsThreadSync has its task queued or running: *)
(* no stop, restart or failed load drops a task somebody waits for. Erasing   *)
(* the script does, and strands nobody but a reader its stop does not join.   *)
Stranded(c) == ctl = "gone" /\ c = Reader /\ ~JoinsReader

BlockedIsServed ==
  \A c \in Callers :
    Blocked(c) => CallsFrom(queue, c) # {} \/ Served(c) \/ Stranded(c)

(* The asserts of InputDevice::start and stop hold over all restarts: the   *)
(* device is started only when it is stopped, stopped only when it was      *)
(* started, and a joined reader thread exists exactly in between.           *)
DeviceProtocol ==
  /\ listening <=> js \in LoopStates \cup {"devstop", "devjoin"}
  /\ JoinsReader => (listening <=> reader # "off")

(* A handler only runs during the load that connected it (README, Scripts). *)
HandlersOfThisLoad == js = "call" => task.load = load

(* Thread::stop returns, unless a callback the JS thread itself has to wait   *)
(* for waits for the JS thread: a timer's, or that of a reader it joins.      *)
StopReturns ==
  ctl = "join" ~> \/ ctl # "join"
                  \/ \E t \in Timers : timer[t] = "blocked"
                  \/ JoinsReader /\ Blocked(Reader)

(* "finalize: called when the script is unloaded" (README, Scripts): a       *)
(* script that is running when it is stopped gets to its finalize.           *)
FinalizeOnUnload == ctl = "join" /\ js \in LoopStates ~> js = "finalize"

(* An error of the device ends the script that runs on it. *)
ErrorEndsScript == reader = "wake" ~> js = "finalize"

(* The thread and queue protocol implements the promised life cycle. *)
Lifecycle == INSTANCE ScriptLifecycle WITH
  load       <- load,
  phase      <- CASE js = "init" -> "loading"
                  [] js \in LoopStates \cup {"devstop", "devjoin", "disconnect"} -> "active"
                  [] js = "finalize" -> "unloading"
                  [] OTHER -> "unloaded",
  subscribed <- conns # {},
  handler    <- IF js = "call" THEN task.load ELSE 0

LifecycleSpec == Lifecycle!Spec
================================================================================
