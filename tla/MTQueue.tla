-------------------------------- MODULE MTQueue --------------------------------
(***************************************************************************)
(* MTQueue: a std::queue behind a mutex and a condition variable. A step   *)
(* is what a thread does between two points where others can interfere;    *)
(* interrupt() and resetInterruption() do not take the mutex.              *)
(***************************************************************************)
EXTENDS Naturals, Sequences, FiniteSets

CONSTANTS
  Producers,    \* threads that call push
  Consumers,    \* threads that call pop (Thread::exec has one per queue)
  MaxPushes     \* bound: how many items are pushed

ASSUME MTQueueAssumption ==
  /\ IsFiniteSet(Producers) /\ IsFiniteSet(Consumers)
  /\ Producers \cap Consumers = {}
  /\ MaxPushes \in Nat

VARIABLES
  queue,        \* _queue
  interrupted,  \* _interrupted
  pc,           \* where each producer and consumer is
  interrupter,  \* where the thread that calls interrupt is, if one ever does
  pushed,       \* how many items were pushed: items are numbered by this
  popped,       \* the last item a pop returned
  raced         \* history: a reset came between the two tests of somebody's pop

vars == <<queue, interrupted, pc, interrupter, pushed, popped, raced>>

Threads == Producers \cup Consumers

PcStates == {"idle", "notify", "test", "wait", "asleep", "relock", "take"}

(* A thread in one of these states holds _mutex. *)
Holds(t) == pc[t] \in {"test", "wait", "take"}
MutexFree == \A t \in Threads : ~Holds(t)

Asleep == {c \in Consumers : pc[c] = "asleep"}

Init ==
  /\ queue = <<>>
  /\ interrupted = FALSE
  /\ pc = [t \in Threads |-> "idle"]
  /\ interrupter = "never"
  /\ pushed = 0
  /\ popped = 0
  /\ raced = FALSE
--------------------------------------------------------------------------------
(* Plausible mistakes, each a wrong version of the action named before the  *)
(* underscore; PROJECT.json lists which property notices each of them.      *)

(* push notifies only when the queue was empty. *)
PushItem_NotifyIfEmpty(p) ==
  /\ pc[p] = "idle"
  /\ MutexFree
  /\ pushed < MaxPushes
  /\ queue' = Append(queue, pushed + 1)
  /\ pushed' = pushed + 1
  /\ pc' = [pc EXCEPT ![p] = IF queue = <<>> THEN "notify" ELSE "idle"]
  /\ UNCHANGED <<interrupted, interrupter, popped, raced>>

(* pop waits once, with an if in the place of the while. *)
Relock_NoRetest(c) ==
  /\ pc[c] = "relock"
  /\ MutexFree
  /\ pc' = [pc EXCEPT ![c] = "take"]
  /\ UNCHANGED <<queue, interrupted, interrupter, pushed, popped, raced>>

(* push forgets notify_one. *)
NotifyOne_Never(p) ==
  /\ pc[p] = "notify"
  /\ pc' = [pc EXCEPT ![p] = "idle"]
  /\ UNCHANGED <<queue, interrupted, interrupter, pushed, popped, raced>>
--------------------------------------------------------------------------------
(* push: the critical section, then notify_one without the mutex. *)
PushItem(p) ==
  /\ pc[p] = "idle"
  /\ MutexFree
  /\ pushed < MaxPushes
  /\ queue' = Append(queue, pushed + 1)
  /\ pushed' = pushed + 1
  /\ pc' = [pc EXCEPT ![p] = "notify"]
  /\ UNCHANGED <<interrupted, interrupter, popped, raced>>

NotifyOne(p) ==
  /\ pc[p] = "notify"
  /\ IF Asleep = {}
       THEN pc' = [pc EXCEPT ![p] = "idle"]
       ELSE \E c \in Asleep : pc' = [pc EXCEPT ![p] = "idle", ![c] = "relock"]
  /\ UNCHANGED <<queue, interrupted, interrupter, pushed, popped, raced>>

(* pop: lock, test, and wait until there is an item or an interruption. *)
Lock(c) ==
  /\ pc[c] = "idle"
  /\ MutexFree
  /\ pc' = [pc EXCEPT ![c] = "test"]
  /\ UNCHANGED <<queue, interrupted, interrupter, pushed, popped, raced>>

Test(c) ==
  /\ pc[c] = "test"
  /\ pc' = [pc EXCEPT ![c] = IF queue = <<>> /\ ~interrupted THEN "wait" ELSE "take"]
  /\ UNCHANGED <<queue, interrupted, interrupter, pushed, popped, raced>>

(* condition_variable::wait unlocks and sleeps in one step... *)
Wait(c) ==
  /\ pc[c] = "wait"
  /\ pc' = [pc EXCEPT ![c] = "asleep"]
  /\ UNCHANGED <<queue, interrupted, interrupter, pushed, popped, raced>>

(* ... and may wake up without being notified. *)
WakeSpuriously(c) ==
  /\ pc[c] = "asleep"
  /\ pc' = [pc EXCEPT ![c] = "relock"]
  /\ UNCHANGED <<queue, interrupted, interrupter, pushed, popped, raced>>

Relock(c) ==
  /\ pc[c] = "relock"
  /\ MutexFree
  /\ pc' = [pc EXCEPT ![c] = "test"]
  /\ UNCHANGED <<queue, interrupted, interrupter, pushed, popped, raced>>

(* _interrupted is read once more, but not whether the queue is empty: pop    *)
(* returns nothing, or the first item, or what front() of an empty queue is:  *)
(* undefined, an old item or none, in a queue that need not look empty then.  *)
TakeUndefined ==
  /\ popped' \in 0 .. pushed
  /\ queue' \in {<<>>} \cup {<<i>> : i \in 1 .. pushed}

Take(c) ==
  /\ pc[c] = "take"
  /\ \/ interrupted /\ UNCHANGED <<queue, popped>>
     \/ ~interrupted /\ queue # <<>> /\ popped' = Head(queue) /\ queue' = Tail(queue)
     \/ ~interrupted /\ queue = <<>> /\ TakeUndefined
  /\ pc' = [pc EXCEPT ![c] = "idle"]
  /\ UNCHANGED <<interrupted, interrupter, pushed, raced>>

(* try_pop with an item in the queue; with none it changes nothing. *)
TryPop(c) ==
  /\ pc[c] = "idle"
  /\ MutexFree
  /\ queue # <<>>
  /\ popped' = Head(queue)
  /\ queue' = Tail(queue)
  /\ UNCHANGED <<interrupted, pc, interrupter, pushed, raced>>

Interrupt ==
  /\ interrupter # "notify"
  /\ interrupted' = TRUE
  /\ interrupter' = "notify"
  /\ UNCHANGED <<queue, pc, pushed, popped, raced>>

NotifyAll ==
  /\ interrupter = "notify"
  /\ pc' = [t \in Threads |-> IF t \in Asleep THEN "relock" ELSE pc[t]]
  /\ interrupter' = "done"
  /\ UNCHANGED <<queue, interrupted, pushed, popped, raced>>

(* A consumer that left the wait has not read _interrupted for the last time. *)
ResetInterruption ==
  /\ interrupted
  /\ interrupted' = FALSE
  /\ raced' = (raced \/ \E c \in Consumers : pc[c] = "take")
  /\ UNCHANGED <<queue, pc, interrupter, pushed, popped>>
--------------------------------------------------------------------------------
Push(p) == PushItem(p) \/ NotifyOne(p)
Pop(c)  == Lock(c) \/ Test(c) \/ Wait(c) \/ Relock(c) \/ Take(c)

Next ==
  \/ \E p \in Producers : Push(p)
  \/ \E c \in Consumers : Pop(c) \/ WakeSpuriously(c) \/ TryPop(c)
  \/ Interrupt \/ NotifyAll \/ ResetInterruption

Spec == Init /\ [][Next]_vars

(* Threads run and get the mutex; nobody has to push, interrupt or try_pop. *)
Fairness ==
  /\ \A p \in Producers : WF_vars(NotifyOne(p))
  /\ \A c \in Consumers : WF_vars(Pop(c))
  /\ WF_vars(NotifyAll)

FairSpec == Spec /\ Fairness
--------------------------------------------------------------------------------
TypeOK ==
  /\ queue \in Seq(1 .. pushed)
  /\ interrupted \in BOOLEAN
  /\ pc \in [Threads -> PcStates]
  /\ \A p \in Producers : pc[p] \in {"idle", "notify"}
  /\ \A c \in Consumers : pc[c] # "notify"
  /\ interrupter \in {"never", "notify", "done"}
  /\ pushed \in Nat
  /\ popped \in Nat
  /\ raced \in BOOLEAN

(* Nobody has called interrupt yet; the daemon never does. *)
Undisturbed == interrupter = "never"

(* pop's comment: it blocks until an item is available unless interrupted.  *)
(* When it goes on to return an item there is one, unless a reset came       *)
(* between its two tests of _interrupted.                                    *)
TakesAnItem ==
  ~raced => \A c \in Consumers : pc[c] = "take" => queue # <<>> \/ interrupted

(* No item waits for a notification that was spent: as long as somebody      *)
(* sleeps in pop, each item in the queue has a notification on its way or a   *)
(* consumer that is awake to take it, although push notifies after it has     *)
(* unlocked and notify_one may wake a thread that finds the queue empty.      *)
Notifying == {p \in Producers : pc[p] = "notify"}
Awake     == {c \in Consumers : pc[c] \in {"relock", "test", "take"}}

NoLostWakeup ==
  Undisturbed /\ Asleep # {} =>
    Len(queue) <= Cardinality(Notifying) + Cardinality(Awake)

(* An item that was pushed is popped, unless somebody interrupts. *)
PushedIsPopped ==
  \A n \in 1 .. MaxPushes : pushed >= n ~> popped >= n \/ ~Undisturbed

(* Mutex, condition variable and std::queue together are an atomic queue, as *)
(* long as nobody resets an interruption between the two tests of a pop.     *)
Atomic == INSTANCE TaskQueue
AtomicSpec == Atomic!Spec
================================================================================
