---------------------------------- MODULE UInput ----------------------------------
(***************************************************************************)
(* UInput: a device that a script creates, and its force feedback thread.    *)
(* The kernel passes on what the device's users upload, erase and play; the   *)
(* thread asks the script, on the script's thread, and answers the kernel.    *)
(***************************************************************************)
EXTENDS Naturals, Sequences, FiniteSets, SequencesExt

CONSTANTS
  Ids,        \* of effects
  Uploads,    \* the effects users upload: a type and 16 bit words
  MaxQueue,   \* bound: events in the kernel's queue
  MaxCreates  \* bound: how often the device is created

Callbacks == {"upload", "erase", "start", "stop", "gain"}

(* struct ff_effect: the words of the union, by type. Effects of other types,  *)
(* springs, dampers and the like, have words that the code does not read.     *)
Envelope == <<"attack_length", "attack_level", "fade_length", "fade_level">>
Layout ==
  [constant |-> <<"level">> \o Envelope,
   ramp     |-> <<"start_level", "end_level">> \o Envelope,
   periodic |-> <<"waveform", "period", "magnitude", "offset", "phase">> \o Envelope,
   rumble   |-> <<"strong_magnitude", "weak_magnitude">>]

ASSUME UInputAssumption ==
  /\ {MaxQueue, MaxCreates} \subseteq Nat
  /\ Uploads # {}
  /\ \A e \in Uploads : {"type", "words"} \subseteq DOMAIN e /\ Len(e.words) = 9

VARIABLES
  callbacks,  \* the ff callbacks the script has set
  script,     \* where the script's thread is
  leaving,    \* the task loop was left: the finalizer destroys the device
  created,    \* the kernel has the device
  creates,
  byte,       \* something to read in _pipe
  ff,         \* where the force feedback thread is
  event,      \* the event it is handling, a sequence of 0 or 1
  queue,      \* the kernel's events
  request,    \* the upload or erasure the kernel waits for, a sequence of 0 or 1
  expired,    \* the kernel has given up a request
  effects,    \* the kernel's effects, by id
  known       \* what the callbacks told the script of this device, by id

userVars == <<queue, request, expired, effects>>
scriptVars == <<callbacks, script, leaving, created, creates, byte, known>>
uinputVars == <<userVars, scriptVars, ff, event>>

Fields(e) == IF e.type \in DOMAIN Layout THEN ToSet(Layout[e.type]) ELSE {}

Value(e, field) == e.words[CHOOSE k \in DOMAIN Layout[e.type] : Layout[e.type][k] = field]

(* effectToMap: any type's envelope is read where a constant effect has it.   *)
(* Of a type without a case only the header, here its type, is told.          *)
EffectToMap(e) ==
  [type |-> e.type,
   told |-> [field \in Fields(e) |->
               IF field \in ToSet(Envelope)
               THEN Value([type |-> "constant", words |-> e.words], field)
               ELSE Value(e, field)]]

NoEffect == CHOOSE e \in Uploads : TRUE
Ev(kind, id, e) == [kind |-> kind, id |-> id, effect |-> e]
Asks(e) == e.kind \in {"upload", "erase"}

(* A table of effects after e, which uploads v or erases.                    *)
Applied(table, e, v) ==
  CASE e.kind = "upload" -> [i \in DOMAIN table \cup {e.id} |-> IF i = e.id THEN v ELSE table[i]]
    [] e.kind = "erase"  -> [i \in DOMAIN table \ {e.id} |-> table[i]]
    [] OTHER             -> table

UInputInit ==
  /\ callbacks \in SUBSET Callbacks
  /\ script = "loop" /\ leaving = FALSE
  /\ created = FALSE /\ creates = 0
  /\ byte = FALSE
  /\ ff = "none" /\ event = <<>>
  /\ queue = <<>> /\ request = <<>> /\ expired = FALSE
  /\ effects = <<>> /\ known = <<>>

(* An exception in the thread ends the daemon.                               *)
Running == ff # "crashed"
--------------------------------------------------------------------------------
(* Users of the device. The kernel keeps one upload or erasure at a time      *)
(* waiting, and stops an effect before it is erased.                         *)
Queues(events) ==
  /\ Running /\ created
  /\ Len(queue) + Len(events) <= MaxQueue
  /\ queue' = queue \o events

UserUploads(id, e) ==
  /\ request = <<>>
  /\ Queues(<<Ev("upload", id, e)>>)
  /\ request' = <<Ev("upload", id, e)>>
  /\ UNCHANGED <<expired, effects, scriptVars, ff, event>>

UserErases(id) ==
  /\ request = <<>> /\ id \in DOMAIN effects
  /\ Queues(<<Ev("stop", id, NoEffect), Ev("erase", id, NoEffect)>>)
  /\ request' = <<Ev("erase", id, NoEffect)>>
  /\ UNCHANGED <<expired, effects, scriptVars, ff, event>>

UserPlays(kind, id) ==
  /\ id \in DOMAIN effects
  /\ Queues(<<Ev(kind, id, NoEffect)>>)
  /\ UNCHANGED <<request, expired, effects, scriptVars, ff, event>>

UserSetsGain ==
  /\ Queues(<<Ev("gain", 0, NoEffect)>>)
  /\ UNCHANGED <<request, expired, effects, scriptVars, ff, event>>

(* The kernel waits for an answer, but not for ever.                         *)
RequestExpires ==
  /\ Running /\ request # <<>>
  /\ request' = <<>>
  /\ expired' = TRUE
  /\ UNCHANGED <<queue, effects, scriptVars, ff, event>>
--------------------------------------------------------------------------------
(* The script: create; a second create would throw.                          *)
CreateDevice ==
  /\ Running /\ script = "loop" /\ ~ created
  /\ creates < MaxCreates
  /\ creates' = creates + 1
  /\ created' = TRUE
  /\ ff' = "select"
  /\ UNCHANGED <<userVars, callbacks, script, leaving, byte, known, event>>

(* destroy, called by the script (last = FALSE) or by the finalizer; the      *)
(* kernel forgets effects and requests, not the events in its queue.         *)
DestroyDevice(last) ==
  /\ Running /\ script = "loop" /\ created
  /\ created' = FALSE
  /\ effects' = <<>> /\ request' = <<>> /\ known' = <<>>
  /\ leaving' = last
  /\ script' = "destroy"
  /\ UNCHANGED <<queue, expired, callbacks, creates, byte, ff, event>>

(* Plausible mistake: the thread ends by itself when the device is destroyed. *)
WakeThread_Never ==
  /\ Running /\ script = "destroy"
  /\ script' = "join"
  /\ UNCHANGED <<userVars, callbacks, leaving, created, creates, byte, known, ff, event>>

WakeThread ==
  /\ Running /\ script = "destroy"
  /\ byte' = TRUE
  /\ script' = "join"
  /\ UNCHANGED <<userVars, callbacks, leaving, created, creates, known, ff, event>>

JoinThread ==
  /\ script = "join" /\ ff = "ended"
  /\ ff' = "none"
  /\ script' = IF leaving THEN "ended" ELSE "loop"
  /\ UNCHANGED <<userVars, callbacks, leaving, created, creates, byte, known, event>>

LeaveLoop ==
  /\ script = "loop" /\ ~ created
  /\ script' = "ended" /\ leaving' = TRUE
  /\ UNCHANGED <<userVars, callbacks, created, creates, byte, known, ff, event>>

(* The script's thread runs the callback the ff thread waits for.            *)
RunCallback ==
  /\ script = "loop" /\ ff = "waiting"
  /\ LET e == Head(event)
     IN  /\ known' = Applied(known, e, EffectToMap(e.effect))
         /\ ff' = IF Asks(e) THEN "answer" ELSE "select"
         /\ event' = IF Asks(e) THEN event ELSE <<>>
  /\ UNCHANGED <<userVars, callbacks, script, leaving, created, creates, byte>>
--------------------------------------------------------------------------------
(* Reading the device, starting a request and calling the callback throw when *)
(* the device is destroyed, the request has expired, the callback is not set. *)
Fails(e) ==
  \/ ~ created
  \/ e.kind \notin callbacks
  \/ Asks(e) /\ request # <<e>>

(* Plausible mistake: the kernel is answered before the script is asked.      *)
ReadRequest_AnswersFirst ==
  /\ ff = "select" /\ queue # <<>>
  /\ event' = <<Head(queue)>>
  /\ queue' = Tail(queue)
  /\ LET e == Head(queue)
     IN  /\ ff' = IF Fails(e) THEN "crashed" ELSE "waiting"
         /\ IF Asks(e) /\ ~ Fails(e)
            THEN request' = <<>> /\ effects' = Applied(effects, e, e.effect)
            ELSE UNCHANGED <<request, effects>>
  /\ UNCHANGED <<expired, scriptVars>>

(* readEvents reads an event and hands it to the script's thread.            *)
ReadRequest ==
  /\ ff = "select" /\ queue # <<>>
  /\ event' = <<Head(queue)>>
  /\ queue' = Tail(queue)
  /\ ff' = IF Fails(Head(queue)) THEN "crashed" ELSE "waiting"
  /\ UNCHANGED <<request, expired, effects, scriptVars>>

(* Plausible mistake: the answer is left out.                               *)
AnswerRequest_Never ==
  /\ ff = "answer"
  /\ ff' = "select"
  /\ event' = <<>>
  /\ UNCHANGED <<userVars, scriptVars>>

(* UI_END_FF_UPLOAD, UI_END_FF_ERASE                                         *)
AnswerRequest ==
  /\ ff = "answer"
  /\ event' = <<>>
  /\ IF request # event
     THEN ff' = "crashed" /\ UNCHANGED <<request, effects>>
     ELSE /\ ff' = "select"
          /\ request' = <<>>
          /\ effects' = Applied(effects, Head(event), Head(event).effect)
  /\ UNCHANGED <<queue, expired, scriptVars>>

(* destroy's byte ends the thread.                                           *)
ReadByte ==
  /\ ff = "select" /\ byte /\ queue = <<>>
  /\ byte' = FALSE
  /\ ff' = "ended"
  /\ UNCHANGED <<userVars, callbacks, script, leaving, created, creates, known, event>>

FFStep == ReadRequest \/ AnswerRequest \/ ReadByte
ScriptStep == WakeThread \/ JoinThread \/ RunCallback

UInputNext ==
  \/ \E id \in Ids, e \in Uploads : UserUploads(id, e)
  \/ \E id \in Ids : UserErases(id)
  \/ \E kind \in {"start", "stop"}, id \in Ids : UserPlays(kind, id)
  \/ UserSetsGain
  \/ RequestExpires
  \/ CreateDevice \/ LeaveLoop
  \/ \E last \in BOOLEAN : DestroyDevice(last)
  \/ FFStep \/ ScriptStep

UInputSpec ==
  UInputInit /\ [][UInputNext]_uinputVars /\ WF_uinputVars(FFStep) /\ WF_uinputVars(ScriptStep)
--------------------------------------------------------------------------------
UInputTypeOK ==
  /\ callbacks \subseteq Callbacks
  /\ script \in {"loop", "destroy", "join", "ended"}
  /\ {leaving, created, byte, expired} \subseteq BOOLEAN
  /\ creates \in 0 .. MaxCreates
  /\ ff \in {"none", "select", "waiting", "answer", "ended", "crashed"}
  /\ created => ff # "none"
  /\ byte => script = "join"
  /\ {event, request, queue} \subseteq Seq([kind : Callbacks, id : Ids \cup {0}, effect : Uploads])
  /\ Len(queue) <= MaxQueue /\ Len(request) <= 1
  /\ ff \in {"waiting", "answer"} => Len(event) = 1
  /\ ff \in {"none", "select", "ended"} => event = <<>>
  /\ DOMAIN effects \subseteq Ids /\ DOMAIN known \subseteq Ids

(* What the kernel holds the script knows, as it was uploaded last, but for    *)
(* the effect whose upload or erasure the thread is about to answer: a user   *)
(* is never told of an upload before the script, nor of an erasure. Envelopes *)
(* of ramp and periodic effects are wrong, and of springs, dampers, frictions *)
(* and inertias the script knows that there is one and nothing else, though   *)
(* their uploads are answered as if they were played (see EffectToMap).       *)
Told(e, m) ==
  /\ m.type = e.type
  /\ e.type \in DOMAIN Layout =>
       \A field \in ToSet(Layout[e.type]) :
         \/ m.told[field] = Value(e, field)
         \/ e.type \in {"ramp", "periodic"} /\ field \in ToSet(Envelope)

EffectsKnown ==
  created /\ Running =>
    \A id \in Ids :
      \/ ff = "answer" /\ Head(event).id = id
      \/ /\ id \in DOMAIN effects <=> id \in DOMAIN known
         /\ id \in DOMAIN effects => Told(effects[id], known[id])

(* Each request is answered, unless the device is destroyed or expires first. *)
RequestAnswered ==
  \A id \in Ids :
    request # <<>> /\ Head(request).id = id ~> request = <<>> \/ ~ Running

(* destroy returns, unless the thread it joins waits for the script.         *)
DestroyReturns == script = "join" ~> script # "join" \/ ff = "waiting" \/ ~ Running
================================================================================
