------------------------------- MODULE DBusCalls -------------------------------
(***************************************************************************)
(* DBusProxy.call: a script calls a D-Bus method with pairs of a signature    *)
(* and a value; the values of the answer come back as an array. A signature    *)
(* is a sequence of tokens. What a script passes and what is sent are trees,    *)
(* whose nodes say what they are: a JavaScript value or a typed element.       *)
(* "i" and "u" stand for the types of up to 32 bits and "x" for the wider ones; *)
(* "s" stands for the other strings; "d", an array passed for a dictionary and  *)
(* the reading of a key that is not a string are left out.                    *)
(***************************************************************************)
EXTENDS Integers, Sequences

CONSTANTS
  CallArguments,  \* sequences of [sig, value]: what scripts pass
  Nesting,        \* how deep a value is nested
  Half            \* 2^31: int32_t is -Half .. Half - 1

VARIABLES
  asked,   \* the arguments of the last call
  sent,    \* the message it sent, or an empty one
  result   \* its value, the error that was reported, or pending

callVars == <<asked, sent, result>>

Number(n) == [t |-> "number", n |-> n]
String(s) == [t |-> "string", s |-> s]
Boolean(b) == [t |-> "boolean", b |-> b]
Array(items) == [t |-> "array", sub |-> items]
Property(id, value) == [t |-> "property", sub |-> <<id, value>>]
Object(props) == [t |-> "object", sub |-> props]

Refused == "refused"  \* the token of what cannot be written

Numbers == {"i", "u", "x"}
Basic == Numbers \cup {"b", "s"}

Width(token) ==
  CASE token = "i" -> -Half .. Half - 1
    [] token = "u" -> 0 .. 2 * Half - 1
    [] token = "x" -> -Half * Half .. Half * Half - 1

Leaves == [t : Numbers \cup {"number"}, n : Int] \cup [t : {"b", "boolean"}, b : BOOLEAN]
            \cup [t : {"s", "string"}, s : Seq(STRING)] \cup [t : {Refused}]

(* Values and elements that are nested at most d deep. Of a structure, unsent   *)
(* tells how many items of the script's array it has no field for.             *)
Trees[d \in 0 .. Nesting] ==
  IF d = 0 THEN {} ELSE
    Leaves \cup [t : {"array", "object", "a", "a{"}, sub : Seq(Trees[d - 1])]
      \cup [t : {"("}, sub : Seq(Trees[d - 1]), unsent : Nat]
      \cup [t : {"property", "{", "v"}, sub : Trees[d - 1] \X Trees[d - 1]]

ASSUME DBusCallsAssumption ==
  /\ Half \in Nat \ {0} /\ Nesting \in Nat
  /\ CallArguments \subseteq Seq([sig : Seq(STRING), value : Trees[Nesting]])

At(sig, p) == IF p \in 1 .. Len(sig) THEN sig[p] ELSE "end"
--------------------------------------------------------------------------------
(* getSignatureEnd: the position after the type that starts at p, with the     *)
(* ends of what follows.                                                    *)
Bad == 0

(* Plausible mistake: the closing brace is not consumed.                     *)
DictEnd_KeepsBrace(sig, p) == IF At(sig, p) = "}" THEN p ELSE Bad

(* After the two types of an entry.                                         *)
DictEnd(sig, p) == IF At(sig, p) = "}" THEN p + 1 ELSE Bad

GetSignatureEnd(sig, end, p) ==
  CASE At(sig, p) \in Basic \cup {"h", "v"} -> p + 1
    [] At(sig, p) = "a"                     -> end["type"][p + 1]
    [] At(sig, p) = "("                     -> end["fields"][p + 1]
    [] At(sig, p) = "{"                     -> DictEnd(sig, end["type"][end["type"][p + 1]])
    [] OTHER                                -> Bad

StructEnd(sig, end, p) ==
  CASE At(sig, p) = ")"   -> p + 1
    [] At(sig, p) = "end" -> Bad
    [] OTHER              -> end["fields"][end["type"][p]]

(* The ends of the types, and of the structures whose next field is at p.      *)
Ends(sig) ==
  LET end[what \in {"type", "fields"}] ==
        [p \in 0 .. Len(sig) + 1 |->
           IF what = "type" THEN GetSignatureEnd(sig, end, p) ELSE StructEnd(sig, end, p)]
  IN  end

OneType(sig) == Ends(sig)["type"][1] = Len(sig) + 1

(* The positions from p on, each of them followed by the next one's.           *)
Walk(next) ==
  LET walk[p \in Nat] == IF p \in DOMAIN next THEN <<p>> \o walk[next[p]] ELSE << >>
  IN  walk

Fields(sig, p) ==
  Walk([q \in {k \in DOMAIN sig : sig[k] # ")"} |-> Ends(sig)["type"][q]])[p]
--------------------------------------------------------------------------------
(* writeValue: the element that is written for a value of the type at p. The    *)
(* parts of the value are written by write.                                  *)
Checked(element) ==
  IF \E k \in DOMAIN element.sub : element.sub[k] = [t |-> Refused]
  THEN [t |-> Refused] ELSE element

(* A structure: as many items as it has fields, or more.                     *)
WriteFields(write, sig, p, items) ==
  LET fields == Fields(sig, p)
  IN  IF Ends(sig)["fields"][p] = Bad \/ Len(items) < Len(fields) THEN [t |-> Refused]
      ELSE Checked([t |-> "(", sub |-> [k \in DOMAIN fields |-> write[<<sig, fields[k], items[k]>>]],
                    unsent |-> Len(items) - Len(fields)])

(* key_sig: the type at p alone.                                            *)
KeySignature(sig, p) == IF p \in 1 .. Len(sig) THEN <<sig[p]>> ELSE << >>

Writing(write, sig, p, value) ==
  LET token == At(sig, p)
      each == [k \in DOMAIN value.sub |-> write[<<sig, p + 1, value.sub[k]>>]]
  IN  CASE token \in Numbers /\ value.t = "number" /\ value.n \in Width(token) ->
             [t |-> token, n |-> value.n]
        [] token = "b" /\ value.t = "boolean" -> [t |-> token, b |-> value.b]
        [] token = "s" /\ value.t = "string"  -> [t |-> token, s |-> value.s]
        [] token = "a" /\ Ends(sig)["type"][p] # Bad /\ At(sig, p + 1) = "{"
             /\ value.t = "object" -> Checked([t |-> "a{", sub |-> each])
        [] token = "a" /\ Ends(sig)["type"][p] # Bad /\ At(sig, p + 1) # "{"
             /\ value.t = "array"  -> Checked([t |-> "a", sub |-> each])
        [] token = "{" /\ value.t = "property" ->
             Checked([t |-> "{", sub |-> << write[<<KeySignature(sig, p + 1), 1, value.sub[1]>>],
                                            write[<<sig, p + 2, value.sub[2]>>] >>])
        [] token = "(" /\ value.t = "array" -> WriteFields(write, sig, p + 1, value.sub)
        [] token = "v" /\ value.t = "array" /\ Len(value.sub) = 2 /\ value.sub[1].t = "string" ->
             Checked([t |-> "v", sub |-> << [t |-> "s", s |-> value.sub[1].s],
                                            write[<<value.sub[1].s, 1, value.sub[2]>>] >>])
        [] OTHER -> [t |-> Refused]

WriteValue[d \in 0 .. Nesting] ==
  IF d = 0 THEN << >> ELSE
    [w \in Seq(STRING) \X Nat \X Trees[d] |-> Writing(WriteValue[d - 1], w[1], w[2], w[3])]
--------------------------------------------------------------------------------
(* setInt32 (value), whatever the width of the integer.                      *)
Int32(n) == ((n + Half) % (2 * Half)) - Half

(* >> moves on behind the value it reads, and the loops' ++ once more; the     *)
(* iterator of a container moves by that ++ only.                            *)
Following(element) == IF element.t \in Basic THEN 2 ELSE 1

(* The loops of readValue and of call.                                      *)
ReadAll(read, elements) ==
  LET visited == Walk([k \in DOMAIN elements |-> k + Following(elements[k])])[1]
  IN  [i \in DOMAIN visited |-> read[elements[visited[i]]]]

(* readValue, with the values of the parts.                                  *)
Reading(read, element) ==
  CASE element.t \in Numbers -> Number(Int32(element.n))
    [] element.t = "b" -> Number(IF element.b THEN 1 ELSE 0)
    [] element.t = "s" -> String(element.s)
    [] element.t = "a{" -> Object([k \in DOMAIN element.sub |-> read[element.sub[k]]])
    [] element.t = "{" -> Property(String(element.sub[1].s), read[element.sub[2]])
    [] element.t \in {"a", "("} -> Array(ReadAll(read, element.sub))
    [] element.t = "v" -> Array(<<String(element.sub[1].s), read[element.sub[2]]>>)

ReadValue[d \in 0 .. Nesting] ==
  IF d = 0 THEN << >> ELSE [element \in Trees[d] |-> Reading(ReadValue[d - 1], element)]
--------------------------------------------------------------------------------
(* A script calls.                                                          *)
CallInit == asked \in CallArguments /\ sent = << >> /\ result = [pending |-> TRUE]

Pending == "pending" \in DOMAIN result

Written == [k \in DOMAIN asked |-> WriteValue[Nesting][<<asked[k].sig, 1, asked[k].value>>]]

Faulty(k) == ~ OneType(asked[k].sig) \/ Written[k] = [t |-> Refused]

(* The first argument at fault is reported.                                  *)
RefuseCall ==
  \E k \in DOMAIN asked :
    /\ Pending
    /\ Faulty(k) /\ \A j \in 1 .. k - 1 : ~ Faulty(j)
    /\ result' = [error |-> IF OneType(asked[k].sig) THEN "value" ELSE "signature", argument |-> k]
    /\ UNCHANGED <<asked, sent>>

(* invoke_method throws.                                                    *)
FailCall ==
  /\ Pending
  /\ \A k \in DOMAIN asked : ~ Faulty(k)
  /\ sent' = Written
  /\ result' = [error |-> "call"]
  /\ UNCHANGED asked

(* A method that answers with its arguments.                                *)
EchoCall ==
  /\ Pending
  /\ \A k \in DOMAIN asked : ~ Faulty(k)
  /\ sent' = Written
  /\ result' = [value |-> Array(ReadAll(ReadValue[Nesting], Written))]
  /\ UNCHANGED asked

CallNext == RefuseCall \/ FailCall \/ EchoCall

CallSpec == CallInit /\ [][CallNext]_callVars
--------------------------------------------------------------------------------
(* Where a type that starts at p may end by D-Bus's grammar, and where a list   *)
(* of types; as the proxy has it, a structure may be empty and an entry may     *)
(* stand, with any key, alone.                                              *)
Closed(sig, ends, bracket) == {q + 1 : q \in {e \in ends : At(sig, e) = bracket}}

TypeEnds(sig, ends, p) ==
  CASE At(sig, p) \in Basic \cup {"h", "v"} -> {p + 1}
    [] At(sig, p) = "a" -> ends["type"][p + 1]
    [] At(sig, p) = "(" -> Closed(sig, ends["list"][p + 1], ")")
    [] At(sig, p) = "{" -> Closed(sig, UNION {ends["type"][k] : k \in ends["type"][p + 1]}, "}")
    [] OTHER -> {}

ListEnds(ends, p) == {p} \cup UNION {ends["list"][k] : k \in ends["type"][p]}

Phrases(sig) ==
  LET ends[what \in {"type", "list"}] ==
        [p \in 1 .. Len(sig) + 1 |->
           IF what = "type" THEN TypeEnds(sig, ends, p) ELSE ListEnds(ends, p)]
  IN  ends

CompleteType(sig) == Len(sig) + 1 \in Phrases(sig)["type"][1]

(* A call is refused for a signature exactly when that signature, read from    *)
(* the left, is not one complete type: the recursive descent stops where the   *)
(* grammar's brackets close, and never runs past the end of the string.        *)
TypesAreRecognised ==
  ~ Pending => \A k \in DOMAIN asked :
    ("argument" \in DOMAIN result => k <= result.argument)
    => (~ CompleteType(asked[k].sig) <=>
          "argument" \in DOMAIN result /\ result.error = "signature" /\ result.argument = k)

(* Nothing follows a plain value in its container.                           *)
Spaced(elements) == \A k \in DOMAIN elements : elements[k].t \in Basic => k = Len(elements)

(* The elements whose values JavaScript gets back: a boolean and an integer of   *)
(* more than 31 bits come back as another number, and of an array that is passed *)
(* for a structure only what the structure has fields for is sent.              *)
Preserved[d \in 0 .. Nesting] ==
  IF d = 0 THEN {} ELSE
    [t : Numbers, n : -Half .. Half - 1] \cup [t : {"s"}, s : Seq(STRING)]
      \cup [t : {"{", "v"}, sub : [t : {"s"}, s : Seq(STRING)] \X Preserved[d - 1]]
      \cup [t : {"a{"}, sub : Seq(Preserved[d - 1])]
      \cup {e \in [t : {"a"}, sub : Seq(Preserved[d - 1])]
                    \cup [t : {"("}, sub : Seq(Preserved[d - 1]), unsent : {0}] : Spaced(e.sub)}

(* The values that an echoing method returns are those the script passed, in   *)
(* number, order and shape, when they are of a kind that the two conversions   *)
(* preserve.                                                                *)
EchoIsExact ==
  "value" \in DOMAIN result /\ Spaced(sent) /\ sent \in Seq(Preserved[Nesting]) =>
    result.value = Array([k \in DOMAIN asked |-> asked[k].value])

(* Both.                                                                    *)
CallsAsSigned == TypesAreRecognised /\ EchoIsExact
================================================================================
