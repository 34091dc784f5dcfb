---------------------------- MODULE ScriptLifecycle ----------------------------
(***************************************************************************)
(* What a user script is promised, as README.md ("Scripts") puts it: init  *)
(* is called when the script is loaded, finalize when it is unloaded, its  *)
(* signals are disconnected when it is terminated, and its handlers run    *)
(* one at a time, between init and finalize of the load they belong to.    *)
(* Nothing here knows of threads or queues: ScriptThread implements this.  *)
(***************************************************************************)
EXTENDS Naturals

VARIABLES
  load,        \* number of the current load; 0 before the first one
  phase,       \* where the current load is in its life
  subscribed,  \* a handler of the script is connected to a device signal
  handler      \* the load whose handler is being executed; 0 when none is

vars == <<load, phase, subscribed, handler>>

Phases == {"unloaded", "loading", "active", "unloading"}

Init ==
  /\ load = 0
  /\ phase = "unloaded"
  /\ subscribed = FALSE
  /\ handler = 0

(* A load begins from a clean slate: nothing is left of the one before. *)
Load ==
  /\ phase = "unloaded"
  /\ ~subscribed
  /\ phase' = "loading"
  /\ load' = load + 1
  /\ UNCHANGED <<subscribed, handler>>

(* init returned: the device is started. *)
Loaded ==
  /\ phase = "loading"
  /\ phase' = "active"
  /\ UNCHANGED <<load, subscribed, handler>>

(* init, or one of its handlers, connects a signal or disconnects one. *)
Subscribe ==
  /\ phase \in {"loading", "active"}
  /\ subscribed' \in BOOLEAN
  /\ UNCHANGED <<load, phase, handler>>

(* A handler runs, and it is one of the current load. *)
Handle ==
  /\ phase = "active"
  /\ handler = 0
  /\ handler' = load
  /\ UNCHANGED <<load, phase, subscribed>>

Handled ==
  /\ handler # 0
  /\ handler' = 0
  /\ UNCHANGED <<load, phase, subscribed>>

(* Unloading first disconnects every signal, then calls finalize. *)
BeginUnload ==
  /\ phase = "active"
  /\ handler = 0
  /\ phase' = "unloading"
  /\ subscribed' = FALSE
  /\ UNCHANGED <<load, handler>>

Finalized ==
  /\ phase = "unloading"
  /\ phase' = "unloaded"
  /\ UNCHANGED <<load, subscribed, handler>>

Next ==
  \/ Load \/ Loaded \/ Subscribe \/ Handle \/ Handled \/ BeginUnload \/ Finalized

Spec == Init /\ [][Next]_vars
================================================================================
