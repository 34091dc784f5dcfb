------------------------------- MODULE EventFilter -------------------------------
(***************************************************************************)
(* EventFilter: events of an input device that match one of the script's    *)
(* rules are passed on, through the same two signals. The reader thread      *)
(* emits; between two emissions scripts may change the filter.               *)
(***************************************************************************)
EXTENDS Integers, FiniteSets

CONSTANTS
  DeviceEvents,  \* functions from properties, "type" among them, to integers
  MatchRules,    \* arguments of the addMatch... calls a script may make
  CodeRange      \* number of values of a uint16_t

SimpleCalls == {"type", "code", "codeRange"}
PropCalls == {"prop", "propRange"}

(* Drivers fill types and codes from uint16_t or from less; a rule's arguments *)
(* are converted before the call.                                           *)
ASSUME EventFilterAssumption ==
  /\ CodeRange \in Nat \ {0}
  /\ \A e \in DeviceEvents :
       /\ "type" \in DOMAIN e
       /\ \A p \in DOMAIN e : e[p] \in Int
       /\ \A p \in {"type", "code"} \cap DOMAIN e : e[p] \in 0 .. CodeRange - 1
  /\ \A r \in MatchRules : r.call \in SimpleCalls \cup PropCalls /\ r.min \in Int /\ r.max \in Int

VARIABLES
  simpleFilters,  \* _simple_filters
  propFilters,    \* _prop_filters
  simpleOnly,     \* _simple_only
  inverted,       \* _inverted
  simpleConn,     \* _simple_conn.connected ()
  allConn,        \* _all_conn.connected ()
  emitting,       \* what the device emits: the event, how, and the signals still to come
  passed,         \* by signal, whether it was passed on to the filter's listeners
  given,          \* history: the calls the script made
  touched         \* history: the filter was changed since the event's first signal

filterVars == <<simpleFilters, propFilters, simpleOnly, inverted, simpleConn, allConn,
                emitting, passed, given, touched>>

Signals == {"simple", "event"}

FilterInit ==
  /\ simpleFilters = {} /\ propFilters = {}
  /\ simpleOnly = FALSE /\ inverted = FALSE
  /\ simpleConn = FALSE /\ allConn = FALSE
  /\ \E e \in DeviceEvents : emitting = [event |-> e, simple |-> FALSE, left |-> {}]
  /\ passed = {}
  /\ given = {}
  /\ touched = TRUE
--------------------------------------------------------------------------------
(* FilterTest: any value, one value, or a range with both its ends.          *)
Accepts(test, v) ==
  CASE test.kind = "any"   -> TRUE
    [] test.kind = "value" -> v = test.min
    [] test.kind = "range" -> v >= test.min /\ v <= test.max

TestSimpleEvent(type, code) == \E f \in simpleFilters : f.type = type /\ Accepts(f.test, code)

(* Plausible mistake: an event with a code is looked up by its code only.     *)
TestEvent_CodeDecides(e) ==
  IF "code" \in DOMAIN e THEN TestSimpleEvent(e["type"] % CodeRange, e["code"] % CodeRange)
  ELSE \E f \in propFilters : /\ f.type = e["type"] % CodeRange
                              /\ f.prop \in DOMAIN e
                              /\ Accepts(f.test, e[f.prop])

(* The type and the code become uint16_t on the way.                         *)
TestEvent(e) ==
  \/ "code" \in DOMAIN e /\ TestSimpleEvent(e["type"] % CodeRange, e["code"] % CodeRange)
  \/ \E f \in propFilters : /\ f.type = e["type"] % CodeRange
                            /\ f.prop \in DOMAIN e
                            /\ Accepts(f.test, e[f.prop])
--------------------------------------------------------------------------------
(* The test that a rule's call puts into the tables.                          *)
TestOf(r) ==
  CASE r.call = "type"              -> [kind |-> "any", min |-> 0, max |-> 0]
    [] r.call \in {"code", "prop"}  -> [kind |-> "value", min |-> r.min, max |-> r.min]
    [] OTHER                        -> [kind |-> "range", min |-> r.min, max |-> r.max]

(* addMatchType, addMatchCode, addMatchCodeRange, addMatchProp, ...PropRange  *)
AddMatch(r) ==
  /\ IF r.call \in PropCalls
     THEN /\ propFilters' =
               propFilters \cup {[type |-> r.type, prop |-> r.prop, test |-> TestOf(r)]}
          /\ UNCHANGED simpleFilters
     ELSE /\ simpleFilters' = simpleFilters \cup {[type |-> r.type, test |-> TestOf(r)]}
          /\ UNCHANGED propFilters
  /\ given' = given \cup {r}
  /\ touched' = TRUE
  /\ UNCHANGED <<simpleOnly, inverted, simpleConn, allConn, emitting, passed>>

SetSimpleOnly(b) ==
  /\ simpleOnly' = b
  /\ UNCHANGED <<simpleFilters, propFilters, inverted, simpleConn, allConn,
                 emitting, passed, given, touched>>

SetInverted(b) ==
  /\ inverted' = b
  /\ touched' = TRUE
  /\ UNCHANGED <<simpleFilters, propFilters, simpleOnly, simpleConn, allConn,
                 emitting, passed, given>>

ConnectFilter ==
  /\ ~ simpleConn
  /\ simpleConn' = TRUE
  /\ allConn' = ~ simpleOnly
  /\ touched' = TRUE
  /\ UNCHANGED <<simpleFilters, propFilters, simpleOnly, inverted, emitting, passed, given>>

DisconnectFilter ==
  /\ simpleConn' = FALSE /\ allConn' = FALSE
  /\ touched' = TRUE
  /\ UNCHANGED <<simpleFilters, propFilters, simpleOnly, inverted, emitting, passed, given>>
--------------------------------------------------------------------------------
(* The device reads an event: simpleEventRead, for a type, a code and a value, *)
(* or eventRead.                                                            *)
DeviceEvent(e, simple) ==
  /\ emitting.left = {}
  /\ simple => DOMAIN e = {"type", "code", "value"}
  /\ emitting' = [event |-> e, simple |-> simple, left |-> IF simple THEN Signals ELSE {"event"}]
  /\ passed' = {}
  /\ touched' = FALSE
  /\ UNCHANGED <<simpleFilters, propFilters, simpleOnly, inverted, simpleConn, allConn, given>>

(* processSimpleEvent *)
EmitSimpleEvent ==
  /\ "simple" \in emitting.left
  /\ emitting' = [emitting EXCEPT !.left = @ \ {"simple"}]
  /\ LET e == emitting.event
     IN  passed' = IF simpleConn /\ TestSimpleEvent(e["type"], e["code"]) # inverted
                   THEN passed \cup {"simple"} ELSE passed
  /\ UNCHANGED <<simpleFilters, propFilters, simpleOnly, inverted, simpleConn, allConn, given,
                 touched>>

(* processEvent *)
EmitEvent ==
  /\ emitting.left = {"event"}
  /\ emitting' = [emitting EXCEPT !.left = {}]
  /\ passed' = IF allConn /\ TestEvent(emitting.event) # inverted
               THEN passed \cup {"event"} ELSE passed
  /\ UNCHANGED <<simpleFilters, propFilters, simpleOnly, inverted, simpleConn, allConn, given,
                 touched>>

FilterNext ==
  \/ \E r \in MatchRules : AddMatch(r)
  \/ \E b \in BOOLEAN : SetSimpleOnly(b) \/ SetInverted(b)
  \/ ConnectFilter \/ DisconnectFilter
  \/ \E e \in DeviceEvents, simple \in BOOLEAN : DeviceEvent(e, simple)
  \/ EmitSimpleEvent \/ EmitEvent

FilterSpec == FilterInit /\ [][FilterNext]_filterVars
--------------------------------------------------------------------------------
(* The rules of EventFilter.h (lines 61 to 85), but that a type rule does not  *)
(* see events without a code, which the header does not say.                 *)
RuleMatches(r, e, simple) ==
  /\ e["type"] = r.type
  /\ CASE r.call = "type"      -> "code" \in DOMAIN e
       [] r.call = "code"      -> "code" \in DOMAIN e /\ e["code"] = r.min
       [] r.call = "codeRange" -> "code" \in DOMAIN e /\ e["code"] \in r.min .. r.max
       [] r.call = "prop"      -> ~ simple /\ r.prop \in DOMAIN e /\ e[r.prop] = r.min
       [] r.call = "propRange" -> ~ simple /\ r.prop \in DOMAIN e /\ e[r.prop] \in r.min .. r.max

(* "Events are passed through when matching any of the rules": the listeners  *)
(* of both signals of the filter are told of an event exactly when a rule the *)
(* script gave says so, or, inverted, when none does. (Type rules do not see  *)
(* events without a code.)                                                  *)
PassedAsRuled ==
  emitting.left = {} /\ ~ touched =>
    LET e == emitting.event
        ruled(simple) == (\E r \in given : RuleMatches(r, e, simple)) # inverted
    IN  /\ "simple" \in passed <=> simpleConn /\ emitting.simple /\ ruled(TRUE)
        /\ "event" \in passed <=> allConn /\ ruled(FALSE)
================================================================================
