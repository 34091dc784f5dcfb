# TLA+ models of input-scripts

`input-scripts` is a daemon that runs one JavaScript script per input device. The
models in this directory are about what makes that hard: several threads call into a
script that has a thread of its own, scripts are started, stopped and replaced at
any time, and devices come and go meanwhile.

Paths below are relative to the repository; `daemon/` stands for `src/daemon/`.

## Parts of the system

| Part | State | Operations | Interacts with |
|---|---|---|---|
| Script thread (`daemon/jstpl/Thread.*`, `Script.*`) | `_stopping`, `_task_queue`, `_thread`, `_signal_connections`, `_filename` | start, stop, exec, execOnJsThreadSync/Async, run, connect, disconnect, on_set_property | started and stopped by the script manager and DBus; called by reader and timer threads |
| Task queue (`daemon/MTQueue.h`) | `_queue`, `_mutex`, `_condvar`, `_interrupted` | push, pop, try_pop, interrupt, resetInterruption | every thread pushes, the JS thread pops |
| Timers (`daemon/Timer.h`, `System.*`) | `_timers`, and per timer `_state`, `_mutex`, `_thread` | setTimeout, Timer::start/stop/run, ~System | timer threads block in the JS thread, which destroys them |
| Input devices (`daemon/InputDevice.*`, `event/EventDevice.*`, `wiimote/WiimoteDevice.*`, `steamcontroller/SteamControllerDevice.*`, `hidpp/HIDPP*Device.*`) | reader thread, pipe, signal connections, last state of the inputs | start, stop, readEvents, getEvent | emit `event`, `simpleEvent`, `error` to scripts |
| Script manager (`daemon/ScriptManager.*`) | `_scripts`, `_mutex`, DBus objects | addDevice, removeDevice, GetManagedObjects | called by driver threads, DBus and main |
| Udev monitor, main (`daemon/Udev.*`, `main.cpp`) | `_state`, `_pipe` | exec, interrupt | calls the drivers |
| Drivers (`daemon/Driver.*`, `*/...Driver.*`, `SteamControllerReceiver.*`) | devices by syspath, receivers, nodes | addDevice, changeDevice, removeDevice, parseReport, receiverEvent | udev thread and their own threads; call the script manager |
| UInput (`daemon/classes/UInput.*`) | uinput device, force feedback thread and callbacks | create, destroy, readEvents, send* | its thread calls into the script |
| Remapper, EventFilter (`daemon/classes/`) | rules, modifier states, connections | event, testEvent, connect | between a device and UInput or a script |
| Class registry (`daemon/jstpl/ClassManager.*`) | factories and inheritance trees | registerClass, initClasses, inherits | every JS thread |
| Configuration (`daemon/Config.*`) | default scripts | loadConfig, getDefaultScript, getConfigPath | Script's constructor and importScript |
| DBus proxy (`daemon/classes/DBusProxy.*`, `jstpl/Types.h`) | signatures and values of a call | call | a script and a D-Bus service |
| HID++ 1.0 mice (`daemon/hidpp/HIDPP10Device.*`) | the mouse's memory and profile | loadTemporaryProfile, registers | a script |
| log, `input-scripts-remote` | | | not modelled, see below |


How they interact: the udev thread (`Udev::exec`) calls the drivers' handlers;
drivers create device objects, on the udev thread or on threads of their own, and
tell the script manager through `inputDeviceAdded` and `inputDeviceRemoved`; the
manager keeps one `Script` per device and starts and stops it. A `Script` is a
thread with a task queue. Whoever emits a signal a script is connected to (a reader
thread, a timer, the force feedback thread, a DBus call) pushes a task and **waits**
until the JS thread has executed it. main runs the DBus dispatcher, and its signal
handler begins the shutdown.

### What is hard about it, and what makes it correct

* **Blocking calls into a thread that is stopped.** A stop must wake the loop, a
  waiting caller must be served, a task refers to its caller's stack; the JS thread
  in turn waits for readers and timers when it stops. Correct: no stop request and
  no call is lost, a handler runs in the load that connected it, stop returns,
  finalize is called. (`ScriptThread`)
* **A queue built from a mutex and a condition variable.** Correct: it is an atomic
  FIFO, and every item is delivered. (`MTQueue`)
* **Devices that come and go while the daemon starts, serves and ends.** Correct: a
  plugged device gets one script, an unplugged one is forgotten, a script never
  outlives its device, the daemon ends. (`UdevDevices`)
* **A wireless receiver whose controllers come and go on another thread than the
  receiver does.** Correct: controller, script and receiver agree, requests do not
  overlap, removals end. (`SteamReceivers`)
* **Reports that become events.** Small moves are swallowed, events are collected
  and sent later, lists are compared in place. Correct: who applies the events knows
  the device's state, up to the fuzz. (`SteamReports`, `HIDPP20Reports`)
* **HID++ receivers**, with several devices and no mutex between the udev thread and
  the dispatcher of a node. Correct: a device in range has a script, scripts and
  devices agree, the udev thread gets its joins. (`HIDPPNodes`)
* **Force feedback**, a thread that asks the script for the kernel, and that the
  script joins when it destroys the device. Correct: the script knows the effects
  the kernel holds, requests are answered, destroy returns. (`UInput`)
* **What happens between the events of a report.** A modifier and the keys it
  modifies change at once and are told one after the other; rules are added and
  connected while others are held; hotplug events queue up; the kernel drops events.
  Correct: outputs, filters and states are right once the events have come.
  (`Remapper`, `EventFilter`, `WiimoteEvents`, `EventReports`)
* **Descriptions that scripts and users write**, which are read to the first error:
  signatures, configuration, profiles. Correct: what is accepted is what was meant,
  and what fails half way leaves what was there. (`DBusCalls`, `DefaultScripts`,
  `TemporaryProfile`)
* **Inheritance trees** built on first use, by any thread. Correct: every context
  gets every class after its parent, and inherits is what was registered.
  (`ClassRegistry`)

## The modules

| Module | Models | Extends |
|---|---|---|
| `ScriptLifecycle` | what a user script is promised: init, handlers one at a time, finalize, clean slate | |
| `ScriptThread` | `jstpl::Thread`, `Script::run`, a device's reader, timers, set-file and removal | |
| `MCScriptThread` | the values of its constants | `ScriptThread` |
| `ScriptThreadProofs` | theorems | `ScriptThread` |
| `TaskQueue` | an atomic queue of numbered items | |
| `MTQueue` | `MTQueue` between any two points where threads interfere | |
| `MTQueueProofs` | theorems | `MTQueue` |
| `DeviceScripts` | what drivers and script manager promise together | |
| `UdevDevices` | `Udev`, the event and Wii remote drivers, the manager, main | |
| `UdevDevicesProofs` | theorems | `UdevDevices` |
| `SteamReceivers` | Steam Controller driver, receivers, monitors, controllers, main | |
| `SteamReceiversProofs` | theorems | `SteamReceivers` |
| `InputDevice` | what the events of a device promise to those who apply them | |
| `SteamReports` | `SteamControllerDevice::readEvent`, getEvent, setTouchPadEventMode | |
| `HIDPP20Reports` | `HIDPP20Device::eventHandler`, getEvent | |
| `ReportsProofs` | theorems | `SteamReports`, `HIDPP20Reports` |
| `WiimoteEvents` | `WiimoteDevice`: camera, buttons, interfaces, hotplug | |
| `EventReports` | `EventDevice::readEvents` and the kernel's buffer | |
| `Remapper` | `Remapper` and the uinput device it sends to | |
| `EventFilter` | `EventFilter` between a device and a script | |
| `DBusCalls` | `DBusProxy::call`, with the checked number conversions of `Types.h` | |
| `ClassRegistry` | `ClassManager`'s trees | |
| `DefaultScripts` | `Config`, and the file of a `Script` | |
| `TemporaryProfile` | `HIDPP10Device::loadTemporaryProfile` | |
| `DBusCallsProofs` | theorems | `DBusCalls` |
| `ScriptInputsProofs` | theorems | the last seven but `DBusCalls` |
| `MCScriptInputs` | one of these ten (devices' reports included) at a time, and the values of the constants | all of them |
| `HIDPPNodes` | `HIDPPDriver`, one node with its two threads | |
| `UInput`, `MCUInput` | `UInput`, its force feedback thread and the kernel; the effects | |
| `DeviceProofs` | theorems | `HIDPPNodes`, `UInput` |

`ScriptLifecycle`, `TaskQueue`, `DeviceScripts` and `InputDevice` are abstract: they
know no threads and no reports. `ScriptThread` implements the first, `MTQueue` the
second, both `UdevDevices` and `SteamReceivers` the third, and `SteamReports`,
`HIDPP20Reports`, `WiimoteEvents` and `EventReports` the last, each by an `INSTANCE
... WITH` (properties `LifecycleSpec`, `AtomicSpec`, `PromiseSpec`, `SteamToldSpec`,
`HidToldSpec`, `WiiToldSpec`, `EvToldSpec`).

The models are layered: `ScriptThread` takes the queue as an atomic FIFO, which
`MTQueue` justifies; `UdevDevices` takes `Thread::stop` to return, which
`ScriptThread` shows with the exceptions listed under "Deviations"; `SteamReceivers`
keeps of a script only whether its loop runs, since that is what a monitor waiting
in `emit` depends on. `Remapper` and `EventFilter` take a device as what
`InputDevice` promises: a state that is new, then events about what changed.
`HIDPPNodes` takes loading and removing a script to return, as `UdevDevices` does,
and keeps of it whether the dispatcher's call will be taken; `UInput` takes a
script's loop as the place where callbacks run. A set-file that meets a removal is
told in full by `UdevDevices`; the two receiver modules take the manager's addDevice
and removeDevice as one step each, and keep what such a set-file leaves behind: a
script that runs without a device.

Each of the modules has "plausible mistakes": wrong versions of an action or helper,
which no specification uses. Every property is broken by one of them; the pairs are
listed in `PROJECT.json`, with the source lines of every definition.

### ScriptThread

A step is what a thread does between two accesses to something shared.

| Variable | Code |
|---|---|
| `ctl`, `op` | the thread in `Thread::start`/`stop`: the manager's caller or DBus |
| `stopping`, `queue` | `Thread::_stopping`, `_task_queue` |
| `js`, `task`, `load` | position of the JS thread in `Script::run`/`Thread::exec`; `load` numbers the starts, and with them the `JSContext`, the `System` and the callbacks that belong to one |
| `conns` | `_signal_connections`, as the set of loads with a connected handler |
| `listening`, `reader`, `todo`, `pipe` | `InputDevice::start`/`stop`, the reader thread, the slots its current emission still has to call, the pipe that stops it |
| `timer` | per `Timer`: its thread and what it waits for |

Actions: `AddDevice`, `SetFile`, `RemoveDevice`, `WakeLoop`, `Join`, `Restart` (the
controlling thread); `InitSucceeds`, `InitFails`, `TestStopping`, `PopTask`,
`FinishCall`, `EraseTimer`, `StopDevice`, `JoinReader`, `DisconnectAll`, `Finalize`,
`DestroyTimer`, `Exit` (the JS thread); `ConnectSignal`, `DisconnectSignal`,
`SetTimeout` (what a script does while its code runs); `ReadEvent`, `CallHandler`,
`EmissionDone`, `ReadStopByte`, `DeviceFails`, `ErrorWakesLoop` (the reader);
`TimerFires`, `TimerReturns`, `TimerEnds`.

`JoinsReader` distinguishes two kinds of devices: event devices, Wii remotes and
HID++ 1.0 event devices have a reader thread that `stop` joins; Steam Controllers
and HID++ 2.0 devices disconnect from a thread they share, which goes on. A handler
that throws does not end the loop, since every JS callback returns void and the glue
reports the error, so that only init has a failing branch. A removal erases the
`Script` once stop has returned, and its queue with it (`EraseScript`): a reader
that shares its thread and waits in a slot then has no task any more (`Stranded`),
and a slot that a failed load left connected has no queue to push to.

### MTQueue

One action per critical section or access outside of one: `PushItem`, `NotifyOne`,
`Lock`, the test, `Wait` (atomic with unlocking), spurious wake-ups, `Relock`,
taking the item, `TryPop`, the two halves of `interrupt`, and `resetInterruption`.
Items are numbered in the order they were pushed, so that the content of an atomic
queue is known from two counters. pop reads `_interrupted` twice, and tests the
queue only with the first: a reset in between (`raced`) makes it take the front of
an empty queue, which is undefined (`TakeUndefined`). `TaskQueue` promises nothing
from such a reset on.

### UdevDevices

`udev` is the position of the udev thread in `Udev::exec` and in the handler it
called; `devices` the `_devices` of both drivers; `made` and `allocated` the device
objects that were created and those that still exist; `scripts` the manager's map,
and `running` the objects on which a script's thread runs. The kernel plugs and
unplugs devices at any time, learns the type of those in `Late` some time after it
announced them, and queues what it announces once the monitor is enabled. main
receives the signal and shuts down as `main()` and the static destructors do, and
before that it restarts scripts: set-file stops a script and starts it again without
the manager's mutex, so that the manager may register, start, stop or erase that
script in between (`RegisterDevice` and `StartScript`, `StopScript` and
`EraseScript` are steps of their own for this). The start follows whatever has
happened: a thread that is started on an erased script is an orphan (`orphans`),
which nobody stops, and one assigned to a script whose thread runs already, or
erased while it runs, ends the process. So does an exception in the udev thread
(`Alive`): `EventDevice`'s constructor throws for a device that is gone.

### SteamReceivers

`opened` is the driver's `_receivers`, `connected` and `device` a receiver's
`_connected` and `_device`, `monitor` its thread; a `select` that finds both a
report and the byte handles the report first and then ends (`leaving`). `allocated`,
`script` and `requests` belong to controller objects; object numbers are reused once
neither object nor script exists. Requests of a script to its controller
(`sendRequest`) run on its JS thread between `BeginRequest` and `EndRequest`; those
of init are counted as soon as the loop runs. A script that is removed between the
stop and the start of a set-file is remembered by its receiver (`erased`), and the
start that follows leaves an orphan there (`orphans`), whose requests no thread
keeps from the receiver (`OrphanRequest`), or ends the process. hidraw nodes that
are not a receiver end in a caught `InvalidDeviceError`, change nothing, and are not
in `Paths`.

### SteamReports

`state` is `_state`, `report` what was parsed last, `unsent` the events `readEvent`
has collected and not emitted yet, `heard` what the events have told a script that
applies them. `ReadReport` is `readEvent` up to "send events"; then `SendEvent`
emits simple events, other events and the SYN event in that order (within one kind
in any order). Inputs are members of sets, by the way they are treated: axes of a
pad (compared one by one, told one by one or as a pair), triggers (stored in an
`int8_t`), buttons (exact), and parts of a sensor (told together, as they were
reported). `_state` is not initialized: until the first report both `state` and
`report` stand for the garbage that getEvent answers. A script may call
`setTouchPadEventMode` between any two events, and then asks for the axes, which it
cannot know otherwise.

### HIDPP20Reports

`mouse`, `buttons` and `current` are the states of the three features that have any,
`incoming`, `oldI` and `newI` the local variables of the comparison of two lists,
`changed` and `announced` the events still to come, `known` what the script was
told. One action per emitted event or comparison, since a handler may ask for the
state at each. A control that changes places with another is released and pressed
again within one report; `InputDevice` allows such passing events. Settings that
change between the constructor and `start` are out of the model, as are raw reports
and raw movements, which carry no state.

### WiimoteEvents

`at` is the light source that `readEvents` has come to in a camera's report, since a
handler may run at each; `watches` the hotplug events in libxwiimote's queue. An
XWII_EVENT_WATCH event carries what is plugged in now and what has changed since the
last one, so that the first of several tells everything and the others no change.
`open` throws when not all interfaces could be opened, after it has opened some.
`_tracking` is not initialized: any value, which costs one event more than
necessary. getEvent and its likes are not implemented for Wii remotes
(`WiimoteDevice.cpp:222`), so that events are all a script has.

### EventReports

`buffer` is the kernel's queue for a reader that may be late. A full one is replaced
by SYN_DROPPED and the event at hand; libevdev then asks for the state and returns
the differences (`resync`) as long as `readEvents` reads with
LIBEVDEV_READ_FLAG_SYNC. Events are told one by one, from libevdev's copy of the
state.

### Remapper

A rule is a record of its source, transformation, default and modifiers, and its
output stands for a code of the uinput device. `level` is the device's new state,
which `testModifiers` reads; `untold` the sources whose event of that report is to
come. `settled` is history: rules whose output was right when it was last sent. A
rule that is added or connected while its modifiers are held is not right until it
is switched, nor is one on a device that was created anew. A send to a uinput device
that does not exist throws in the reader thread and ends it.

### EventFilter

Rules are given by the five calls; an event is emitted as `simpleEvent` and `event`,
or as `event` only, as HID++ 2.0 devices do also with events that have a type, a
code and a value. The script may change the filter between the two (`touched`).

### HIDPPNodes

One syspath. `thread`, `at` and `holds` are where the udev thread and the dispatcher
of the node are, each in `addDevice (node, index)` with an object in a local
`unique_ptr`. The kernel plugs and unplugs, devices go in and out of range, and
notices queue up for the dispatcher. Nothing locks `node->devices`. `contended` is
history: the indices that both threads handled, that were added again by a second
notice, or removed while being added; properties are about the others.

The dispatcher also emits the events of HID++ 2.0 devices (`DeviceEvent`), and then
waits for the script (`blocked`, `calling`) until its loop, or that of a later load,
takes the call (`Serve`). Scripts are replaced (`SetFileStop`, `SetFileStart`), and
a load may fail; that is told only of the script the dispatcher waits for
(`failed`), since any other script that failed is as good as one whose device is
silent. `orphans` are scripts a set-file started after they were erased. At the end
of the daemon ~ScriptManager first clears the callbacks (`LeaveManager`) and then
stops one script after the other (`StopScript`), while the dispatcher goes on. Of
the HID++ library the model takes two things: handlers can be unregistered while one
of them runs, and a request made in a handler is answered.

### UInput

`script` and `ff` are the threads; the kernel keeps one request (upload or erasure)
waiting, passes events on in order, and forgets effects when the device is
destroyed. `known` is what callbacks have told the script, field by field:
`EffectToMap` reads the envelope of any effect where a constant one has it, as the
code does, and of a type without a case (springs, dampers, frictions, inertias) only
the header, which stands for the type here: replay, trigger and direction are told
as they are and left out. Such uploads are answered 0 all the same. An exception in
the thread ends the daemon (`Running`).

### DBusCalls, ClassRegistry, DefaultScripts, TemporaryProfile

`DBusCalls` reads a signature by recursive descent, converts each value to what the
signature says, and back: `asked`, `sent` and `result` are the call in three steps.
Values and the elements of a message are trees of at most `Nesting` levels; 5 is
what the run's arguments need, a structure in a structure in a variant among them.
The code's recursion on the signature is a recursive function of positions (`Ends`),
its loops one of the position that comes next (`Walk`), and the recursion of
`writeValue` and `readValue` one of the depth (`WriteValue`, `ReadValue`); `Writing`
and `Reading` are one level each. What a signature ought to be is stated apart from
the parser, as the sets of positions where a type or a list of types may end by the
grammar (`Phrases`). That the signature within a variant is one single type is not
checked, by the code or by the statement.

`ClassRegistry` has one action per part of `initClasses` that other threads may fall
between: test and build of the trees, then a context's classes in their order.
`raced` is history: a thread used the trees while another was building them; nothing
is said of what happens then, and the behaviour ends there. What a walk along
parents or children comes to is the least set that is closed under them (`Met`).

`DefaultScripts` is `loadConfig` entry by entry, the match of a device, the search
for a script's file in the user's directory, then in the system's (`Search`,
`TestFile` for each place), its opening (`OpenFile`), and imports, while files come
and go between any two of these steps. `missed` is history: the user had no such
file at some time since the search began, which is when the system's may be taken.
config.json is read once and taken not to change meanwhile.

`TemporaryProfile` builds a profile from what a script asks for, value by value,
writes it to the mouse's memory and has the mouse load it; each may fail, and leaves
the profile in use. Writing is one step: a failure that leaves memory half written
is not modelled.

## Runs

| Run | Configuration | Shows |
|---|---|---|
| `shared_reader` | one timer, three loads, failing inits, `JoinsReader = FALSE` | a blocking call is awaited by its caller, and none is lost but with the script that is erased, while events keep arriving during and after stops; `stop` returns unless a timer callback waits for the JS thread |
| `lifecycle` | two timers, two loads, device errors, `JoinsReader = TRUE` | no stop request is lost and start/stop of the device alternate, for devices with a reader of their own; `ScriptLifecycle` is implemented for scripts that connect in init and handlers; a device error gets the script to finalize |
| `queue` | two producers, two consumers, three items | `MTQueue` implements `TaskQueue`, also with interruptions, until one is reset in the middle of a pop; before one, no lost wake-up and every item is delivered |
| `udev_devices` | an event device, a Wii remote typed late, two plugs in all beyond those at start | tables, objects and scripts agree, but for scripts a set-file starts when they are erased; every plugged device gets a script and every unplugged one is forgotten, however the plug falls between monitor, enumeration and loop; an interrupted daemon ends |
| `steam_receivers` | a cabled and a wireless controller, one plugged at a time, two reports, two uevents | receivers, controllers and scripts agree and requests never overlap, but for scripts a set-file starts when they are erased; removal and shutdown end unless a thread is stuck in one of two named ways; a controller that stays on gets its script |
| `script_inputs` | ten instances, one at a time (see below) | for every sequence of reports, a script that applies the events knows the state of a Steam controller, a HID++ 2.0 mouse, a Wii remote and a kernel device, up to the fuzz; remapped and filtered events are what the rules say; calls, classes, configured scripts and profiles are what was asked for |
| `hidpp_nodes` | a receiver with two indices or a cable with two, three link changes or plugs | devices, scripts and the table agree when the threads rest, no script of the manager outlives its device, a device in range gets its script, joins return; but for contended indices, a dispatcher that waits for a script in vain, and, for scripts that outlive devices, the time after ~ScriptManager has cleared the callbacks |
| `force_feedback` | one effect id, a periodic effect and a spring, three events in the queue, two creations | script and kernel agree on the effects, as far as their type is told; requests are answered, destroy returns unless the thread it joins waits for the script; but for daemons ended by an exception |

The remaining runs each exhibit a deviation from what the documentation says, in the
smallest instance that has it: see the next section.

In `script_inputs` exactly one of the ten modules moves (`used`), which adds their
state spaces instead of multiplying them. Steam reports take the values 0 to 3 with
a fuzz of 1, so that a drift of two small steps exceeds it; one axis and one part of
the sensor move together, the other two only make large moves, which keeps the
number of reports at 16. A trigger's byte has four values, the upper two of which
wrap. Three controls, all of which may be pressed, are the fewest of which two can
change places around a third. Two light sources let one be lost while the other is
seen, and two hotplug events let the second find nothing new. A kernel buffer of two
events is exceeded by three changes, also while a reader is in the middle of the
differences. The remapper's rules are two of one source for disjoint ranges of a
modifier, the second of which its own source modifies too, and one without
modifiers, so that press, change and release of a modifier fall together with a
change of the source; the filter's are one of each kind on two types. Calls have
every sequence of up to five tokens as a signature, which contains every bracket and
every way to leave one open, with a `Half` of 4 for 2^31: what matters is on which
side of it a value is. Three classes, with every registration (missing parents and
cycles included), and two threads. A configuration has up to two entries, of every
kind, so that one may stand in the other's way; the scripts' files are those of four
disks, by what the user and the system have, which may change between the tests for
a file, and again before it is opened.

In `hidpp_nodes` three changes allow a device to come, go and come again, or to come
and go before the node is unplugged. No more than four objects are constructed then,
two of them by the udev thread, so that `MaxObjects = 4` never blocks a
construction. In `force_feedback` one id suffices, since requests are one at a time;
the periodic effect and the spring are a type whose words are told and one whose are
not. Three events are the fewest with which an erasure (a stop and a request)
follows an event not read yet, and the second creation meets what the first left in
the queue.

Bounds. Tasks, loads and bytes are only counted, so that the interesting cases are
those where two of them coexist: two loads let a task, a byte or a connection of the
first meet the second, the third load of `shared_reader` lets a failed one lie in
between; two timers let one block while the other is destroyed. `MaxLoads` bounds
`SetFile`. In `queue`, three items let two wait while a third is being pushed.
`MaxPlugs = 2` lets a device be replaced while the removal of the first is being
handled; `MaxObjects = 4` allows as many objects as can be created then, so it never
blocks `OpenDevice`. In `steam_receivers` `MaxObjects = 3` never blocks `NewDevice`
either: one controller per receiver and one script that is still being stopped.
`MaxReports = 2` lets Disconnected follow Connected unread, and `MaxPlugged = 1`
keeps the product of two independent receivers small; the other receiver may still
be open, and removed, meanwhile. Deadlock is not checked: a daemon that has ended, a
device that is not touched and a queue nobody pushes to rest legitimately; that
waiting threads go on is what the liveness properties say.

Fairness. Threads are scheduled (weak fairness per thread; `UdevStep` and `NodeStep`
in `HIDPPNodes`, `FFStep` and `ScriptStep` in `UInput`), JS code returns, and
requests to a receiver are answered. A set-file that has begun is finished
(`SetFileStart`). The user and the hardware owe nothing: no fairness for set-file,
removal, events, errors, plugging or signals. Strong fairness is used for three
kinds of steps. `ReadStopByte`: a reader returns to `select` again and again, and
the byte stays readable, so that it cannot be missed for ever; one event after the
other may only delay it. `NodeStep` of `HIDPPNodes` likewise: a dispatcher that
emits events returns to reading again and again, and reports come in order, so that
a notice, or the request to stop, is reached. `Serve` (in both receiver modules): a
queued handler is executed by a loop that runs again and again, unless scripts are
replaced for ever before they get to it. The liveness properties of `UdevDevices`
and `SteamReceivers` are about a daemon that serves (`Serving`, `Alive`, `~Stuck`,
`Running`) and say so in their statement. In `HIDPPNodes` and `UInput` the user, the
kernel and a shutdown owe nothing either. The modules of `script_inputs` have safety
properties and step properties only, and no fairness.

## Deviations

What the code does otherwise than the text beside it says, each with a run that ends
in a counterexample:

| Run | Property | What happens |
|---|---|---|
| `stop_during_events` | `FinalizeOnUnload` | a script is stopped while its device emits: the JS thread joins a reader that waits for the JS thread |
| `late_call` | `HandlersOfThisLoad` | a task left in the queue is executed by the next load, with callbacks of the last |
| `added_twice` | `OneScriptPerDevice` | a device found and announced is added twice; the second script is never removed |
| `trigger_answers` | `TriggerAnswersAreCurrent` | the byte of a trigger is stored in an `int8_t`: getEvent answers -1 for 255 |

Deviations the models contain and no run is spent on:

* A stop while a timer's callback waits for the JS thread: ~System, on the JS
  thread, locks the mutex the timer's thread holds (`Timer.h:49`). `StopReturns`
  names this wait; set-file then never loads the new file.
* An exception in init leaves `Script::run` before the loop that disconnects signals
  (`Script.cpp:292`), although "the script terminates" (`README.md:103`): handlers
  stay connected.
* The stop byte of a reader that had ended by itself stays in the pipe and ends the
  reader of the next load, without an error (`EventDevice.cpp:93`).
* set-file restarts a script on the DBus thread without the manager's mutex, while a
  driver's thread adds or removes it (`Script.cpp:321`). Erased between the stop and
  the start, the script is started nevertheless, without its device, and nobody
  stops it (`orphans`); started twice, it ends the daemon. The properties about
  scripts and their devices hold but for orphans, and say so. That both threads may
  join one JS thread at once is not modelled.
* A removal erases the script's queue with the tasks in it
  (`ScriptManager.cpp:115`). A reader that shares its thread with other devices and
  waits for one of these tasks is not woken by the stop: it waits for ever, or is
  thrown a `broken_promise`. `BlockedIsServed` names it (`Stranded`).
* A handler of a diverted control's event that asks for the control is answered its
  old state: the list is stored after the events (`HIDPP20Device.cpp:191`).
* Events of triggers carry the byte (0 to 255), answers the `int8_t`; the promise
  holds up to the sign (`Byte`).
* A timer's deferred deletion (`System.cpp:52`) may be executed by the next load, as
  a call may (`late_call`); its access to a destroyed list is not modelled.
* `MTQueue::interrupt` writes its flag without the mutex, so that a consumer between
  test and wait misses it (`MTQueue.h:99`), and a reset between the two tests of a
  pop makes it take from an empty queue (`MTQueue.h:68`; `raced`, `TakeUndefined`).
  The daemon uses neither.
* `Udev::interrupt` before `exec` has set `_state` does nothing (`Udev.cpp:49`), and
  main then joins the udev thread for ever. `InterruptEndsDaemon` is about
  interruptions that find the monitor running.
* An exception in a driver's handler terminates the daemon (`EventDriver.cpp:40`),
  as does a receiver that is added twice (`SteamControllerDriver.cpp:62`).
* `Stuck`: `querySerial` retries for ever on a receiver that is gone
  (`SteamControllerDevice.cpp:344`), and a monitor waits in `emit` for a script
  whose next init failed or that the manager has destroyed
  (`SteamControllerReceiver.cpp:203`), as a HID++ dispatcher does
  (`HIDPP20Device.cpp:99`). Whoever joins the thread then waits too, and the
  dispatcher reads no more notices.
* `~ScriptManager` clears the drivers' callbacks before it stops the scripts
  (`ScriptManager.cpp:43`): a controller or a HID++ device that disconnects in
  between is deleted while its script runs. `StoppedBeforeDeleted` states what fails
  then for Steam controllers; `PromiseSpec` and `ScriptsKeepTheirDevice` are about
  the time before.
* HID++ (`contended`): a device whose notice comes while the udev thread tries its
  index is added twice, a second notice replaces nothing and destroys the new object
  while its script runs, and a disconnection that finds no device yet leaves one
  that is gone (`HIDPPDriver.cpp:191`).
* `ClassManager` builds its trees without a mutex (`ClassManager.cpp:27`, `raced`).
* Force feedback: the envelopes of ramp and periodic effects are those of a constant
  one's, and of effects without a case in effectToMap the script is told the header
  only, although they are answered as accepted (`UInput.cpp:268`; `EffectToMap`); an
  exception in the thread (an expired request, a callback that is not set, a device
  destroyed under it) ends the daemon; destroy, on the JS thread, joins a thread
  that may wait for the JS thread (`UInput.cpp:168`). `UInput::version` answers the
  product.
* A rule "for any event with type" (`EventFilter.h:61`) sees no event without a code
  (`EventFilter.cpp:121`); `RuleMatches` says so.
* Remapper: an output is not touched when a rule is added or connected while its
  modifiers are held; a send before the uinput device exists ends the reader thread
  (`Remapper.cpp:98`).
* D-Bus: after a plain value in a container the next one is skipped when it is read
  (an additional `++`); booleans and unsigned or wide integers come back as other
  numbers; of an array that is passed for a structure, what is left when every field
  has its value is not sent, and nobody is told (`DBusProxy.cpp:182`; `unsent`),
  while an array that is too short is refused. `EchoIsExact` leaves these out, by
  `Spaced` and `Preserved`. An odd number of arguments and errors of the bus throw
  through the JS engine, which does not expect it.
* Configuration: an entry that is a scalar, or a list for a value, throws in main
  and ends the daemon; a file of the user's that cannot be read hides the system's;
  an empty XDG_CONFIG_HOME hides HOME; a device without an entry has the script "",
  which cannot be loaded.
* `loadTemporaryProfile` constructs the exception for a bit that is too large and
  does not throw it (`HIDPP10Device.cpp:208`, `217`), and cuts a key code to 8 bits:
  `TooBig`, `% 256`.
* `sendRequest` declares a local variable where it means to lock
  (`SteamControllerReceiver.cpp:232`). `RequestsExclusive` shows when nothing
  depends on it: controllers are queried only when no script exists for them, but
  for the orphan of a set-file, which may ask at the same time.
* Wii remotes: `getEvent` and `getSimpleEvent` answer what they were asked with, and
  0 (`WiimoteDevice.cpp:222`).

## Proofs

The theorems hold for every value of the constants: any number of timers, loads,
producers, consumers, paths, objects and receivers, and need no fairness. The only
assumptions are the ASSUMEs of the modules (types of the constants; a device's
reader is not a timer; producers are not consumers), which TLC evaluates for each
instance.

* **ScriptThreadProofs.** `SafetyInv` is inductive; each of its parts needs some of
  those before it. `ControlJs` (a JS thread is launched only where none runs) keeps
  `DeviceProtocol`. `StopWakesLoop` is inductive with the types alone.
  `CallIsAwaited` and `BlockedIsServed` are proved together and caller by caller
  (`Sync`: a caller waits if and only if exactly one call of its is queued or
  running, or it is stranded on an erased script); they need `DeviceProtocol`, since
  the reader must not be started anew, and lose its position, while it waits, and
  that no timer is left when the script is erased (`TimersGone`), so that only a
  reader loses its task with the queue. Under `WellBehaved` (a device whose stop
  joins its reader, init does not fail, finalize connects nothing) `LifeInv` adds
  `NothingLeft`: queued calls and connections belong to the current load, and none
  of them, nor a timer, is left when it ends; with it every step is a step of
  `ScriptLifecycle` or changes nothing of it (`ImplementsLifecycle`).
* **MTQueueProofs.** `QueueInv` says that, before `raced`, the items queued are
  those pushed and not popped, in order, and a consumer that is about to take one
  finds one unless it is interrupted; that one thread at most is between lock and
  unlock; and that a consumer that is about to wait has just seen an empty queue
  under the mutex. Every step then is one of `TaskQueue`. Until somebody interrupts,
  `DaemonInv` adds `NoLostWakeup`: queued items are covered by notifications and
  awake consumers, which is a statement on cardinalities; the step that needs an
  argument is a consumer that is awake and goes back to sleep, which it does on an
  empty queue.
* **UdevDevicesProofs.** `DeviceInv`: the drivers' tables, what the handler that is
  running holds in its local variables, and how far the shutdown has got. The script
  that a set-file has stopped is loaded still or counted among the orphans
  (`Restart`), so that the thread it starts is one of these.
* **SteamReceiversProofs.** `SteamInv`: for each receiver, where its two threads may
  be at the same time (`Position`), what each place says of `_connected` and
  `_device` (`Controller`); objects have one owner; a script exists exactly for a
  controller that was announced and not yet retracted; and a request is made by the
  script of the receiver's present controller, or by the orphan of a receiver that
  is open. The last two are what the missing lock rests on: a receiver is asked by
  its monitor, or by the udev thread, only while it has no controller, and then no
  script has requests under way but an orphan.
* **ReportsProofs.** Steam controllers: `SteamInv` says that `_state` is within the
  fuzz of the last report (`NearReport`), that an event that carries what was
  reported is about an input that was stored (`SentIsStored`), and that what no
  event is pending for is known (`Heard`), also when the script switches events off
  in between. HID++ 2.0 mice: `HidInv` adds to `DiffIsRight` that, while the old
  list is read, each control passed in the new one was passed in the old one too
  (`Progress`). Without repetitions in the lists a control that is released is
  therefore not among those passed, which is what a release could get wrong.
* **ScriptInputsProofs.** `EvInv`: unless the kernel has left a mark, the last
  queued event about a code tells its state, and a code without one has the state
  libevdev holds (`BufferIsCurrent`); between differences to be told, the script
  knows libevdev's copy. With an empty buffer these meet (`EvNothingMissed`).
  `WiiInv`: what the changes add up to is `_available`, and the sources a report has
  come past are known; a script that knows a source to be seen is what `_tracking`
  remembers, so that a loss is told. For `RemapOutputFollows` the statement is not
  inductive, since it says nothing while events are to come. `RuleInv` says what
  holds in between: a modifier the rule has not noticed yet is still to be told, a
  rule that is released on both sides has its default, and one that is held on both
  sides has its source's value unless that is to be told. Any number of rules,
  modifiers and sources, any order.

  `FilterInv` says that the two tables of an event filter hold the tests of the
  rules that were given, each in one of them, and what was passed of an event so
  far; a type or a code is not changed by the cut to 16 bits, since drivers have it
  from 16 bits. `ConfigInv` says that the table of scripts is that of the useful
  entries of one file, in their order (`IsTable`), so that the first rule that fits
  is the first entry that fits; and that a search for a file that has come to a
  place, or found the file there, keeps what `UsersFileFirst` asks of a file that is
  opened (`Searching`), whatever becomes of the files. The table is a recursive
  function of the number of entries read; that it exists, and what it returns for
  each number, is proved by taking the least number for which it would not hold
  (`LeastElement`, from the library's `WFMin`). `ProfileInv` says that what is being
  built, what is in the mouse's memory and what it uses were made whole from one
  call's description.

  `ClassInv` says what `buildInheritanceTrees` has made of the first n classes
  (`TreesTo`): links to declared parents, no cycle of links (`LinksEnd`: every set
  of classes has one whose link leaves it), the root of each class, and children
  that are the links' other side. A class whose link was refused, which would have
  closed a cycle, is the root of its own tree. `Planted` are the classes in a tree
  whose root declares no parent: these are the ones with a complete line of
  ancestors (`PlantedAreRooted`). A thread's stack holds, without repetition, those
  of them whose parent is made and that are not (`StackIsNext`); with an empty stack
  everything is made (`AllIsMade`), and since there are no cycles of links, the walk
  up from a class meets what the registrations put above it (`BuiltInherits`). All
  of this is about behaviours before `raced`.
* **DeviceProofs.** `NodesInv`: each object that exists is in `node->devices` or in
  one thread's local `unique_ptr`, and never in two of these (`Owned`). A thread
  that holds an object for an index that has one already, or that the other thread
  holds one for, has found a contended index, and so has the udev thread that still
  holds one when the dispatcher has ended (`Disputed`). What is in the table has its
  script, but for the object whose script was just stopped (`ScriptsRun`), and a
  script its device (`Kept`), as long as the manager's callbacks are installed; the
  scripts that run besides are orphans. The last notice in the queue about an index
  says whether it is in range (`LastNotice`), and where no notice is queued the
  table says the same (`Caught`), unless the index is contended or still to be
  tried: with no notice left this is `QuietAgrees`. `UInputInv`: the threads'
  positions fit each other (`UInputShape`), and while the force feedback thread is
  about to answer, the script has the effect as `EffectToMap` converts it, or has it
  no more (`AnswerKnown`): the answer makes kernel and script agree. Effects are any
  records with a type and nine words, of the types effectToMap has a case for or
  not.
* **DBusCallsProofs.** `CallsAsSigned` is about what recursive functions compute.
  They exist, and are what their equations say, by induction over a set of numbers
  (`Upwards` for depths; `Downwards` for positions, since where a type ends depends
  only on what comes after it: `TypeEndIsLocal`). From the right to the left the
  parser's end is then the only position at which the grammar lets a type end, or it
  has none (`TypeRecognised`, `FieldsRecognised`), so that a signature is accepted
  exactly when it is one complete type (`TypesRecognised`). Depth by depth, what is
  written for a value is an element of that depth, refused or with the value's
  parts, and reading it gives the value back (`Returned`, one lemma for each kind of
  value, `ValuesComeBack`); `ReadAllReadsEach` is where the additional `++` matters.
  `CallInv` says which of the three ends a call has come to, and with which
  argument. The statement needs `unsent`: without it an array that is longer than
  the structure it is passed for comes back shorter, and the run, which has such an
  argument, refutes it.

Only model-checked: every liveness property, since the prover has no rules for
ENABLED and fairness; and the counterexamples of the section above. The inductive
invariants themselves hold in the runs' instances too, and are not among their
properties: they are theorems (`NodesInvariant`, `UInputInvariant`,
`FilterInvariance`, `ConfigInvariance`, `ClassInvariance`, `ProfileInvariance`,
`CallInvariant` and those above), as are the type invariants and `EvToldSpec`. Every
safety and step property of the passing runs is a theorem.

## Not modelled

* The choice of JS conversions (`jstpl/Functions.h`, `Class.h`, `detector.h`): made
  by the compiler, without state. The code a connected callback runs through is part
  of `ScriptThread`, the conversions of numbers part of `DBusCalls`.
* `DBusConnections` (two connections, opened on first use), `d` and arrays in place
  of dictionaries in D-Bus calls, the log, the command line client and the example
  configuration: conversions and I/O without state of their own.
* `System::exec` and the other calls of `system`: they start processes and print.
  (exec leaves a pipe open when it throws, and `wait` reaps any child.)
* Registers of HID++ devices, LEDs, rumble, batteries, accelerometers, haptic
  feedback: passed on as they are.
* The search for the event devices of a HID++ mouse on a cable
  (`find_event_devices`): it reads what the kernel shows, and keeps nothing. It is
  made from the node's USB parent; the walk up to that does not end for a node
  without one (`HIDPPDriver.cpp:142`), and nodes are taken to have one.
* What a mouse does with a profile that was written in part, and a concurrent first
  use of `ClassManager`'s trees beyond the fact that it happens (`raced`).
* Memory: what a call on a destroyed object does. The models stop at the fact that
  it is made.
* Unsynchronized accesses to containers (sigc signals that are connected during
  their emission, `GetManagedObjects`): the operations are taken as atomic.
* In `SteamReceivers`, a monitor that is inside `ScriptManager::addDevice` while the
  manager is being destroyed.

## Plan

What the models state as safety is proved. What is next is more of the system:

1. HID++ 1.0: the registers of resolution and LEDs, with what a script reads back.
2. The accelerometers and raw movements, once an event of theirs is remembered.
3. `set-file` while a driver removes the device, where both threads join one JS
   thread at once: what the C++ library does then is undefined, and the models now
   order the two joins.

