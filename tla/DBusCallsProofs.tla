---------------------------- MODULE DBusCallsProofs ----------------------------
(***************************************************************************)
(* Which calls of D-Bus methods are refused and what a method that answers with   *)
(* its arguments returns, for any arguments, any depth of their values and any     *)
(* width of the integers. Functions that are defined by recursion on positions    *)
(* or on depth are shown to exist by induction over sets of numbers.            *)
(***************************************************************************)
EXTENDS DBusCalls, WellFoundedInduction, FiniteSetTheorems, TLAPS

(* Induction over sets of numbers: upwards, and downwards from n.              *)
LEMMA Upwards ==
  ASSUME NEW S, \A m \in Nat : (\A k \in 0 .. m - 1 : k \in S) => m \in S
  PROVE  \A m \in Nat : m \in S
<1> DEFINE Out == {m \in Nat : m \notin S}
<1>1. SUFFICES ASSUME Out # {} PROVE FALSE
  OBVIOUS
<1>2. PICK m \in Out : \A y \in Out : <<y, m>> \notin OpToRel(<, Nat)
  BY <1>1, WFMin, NatLessThanWellFounded, Zenon
<1>3. m \in Nat /\ m \notin S
  OBVIOUS
<1>4. ASSUME NEW k \in 0 .. m - 1 PROVE k \in S
  <2>1. k \in Nat /\ k < m
    BY <1>3
  <2>2. k \notin Out
    <3> HIDE DEF Out
    <3> QED
      BY <1>2, <1>3, <2>1, Zenon DEF OpToRel
  <2> QED
    BY <2>1, <2>2
<1> QED
  BY <1>3, <1>4

LEMMA Downwards ==
  ASSUME NEW n \in Nat, NEW S,
         \A m \in 0 .. n : (\A k \in m + 1 .. n : k \in S) => m \in S
  PROVE  \A m \in 0 .. n : m \in S
<1> DEFINE Above == {i \in Nat : i <= n => n - i \in S}
<1>1. ASSUME NEW i \in Nat, \A k \in 0 .. i - 1 : k \in Above PROVE i \in Above
  <2>1. SUFFICES ASSUME i <= n PROVE n - i \in S
    OBVIOUS
  <2>2. ASSUME NEW k \in (n - i) + 1 .. n PROVE k \in S
    <3>1. n - k \in 0 .. i - 1 /\ n - k <= n /\ n - (n - k) = k
      BY <2>1
    <3> QED
      BY <1>1, <3>1
  <2>3. n - i \in 0 .. n
    BY <2>1
  <2> QED
    BY <2>2, <2>3
<1>2. \A i \in Nat : i \in Above
  <2> HIDE DEF Above
  <2> QED
    BY <1>1, Upwards
<1>3. ASSUME NEW m \in 0 .. n PROVE m \in S
  <2>1. n - m \in Nat /\ n - m <= n /\ n - (n - m) = m
    OBVIOUS
  <2> QED
    BY <1>2, <2>1
<1> QED
  BY <1>3

--------------------------------------------------------------------------------
(* A function that is defined by recursion on depth exists, and is as its equation *)
(* says: each of the four is built from the one for one level less.             *)
LEMMA TreesDef ==
  /\ Trees[0] = {}
  /\ \A d \in 1 .. Nesting : Trees[d] =
       Leaves \cup [t : {"array", "object", "a", "a{"}, sub : Seq(Trees[d - 1])]
         \cup [t : {"("}, sub : Seq(Trees[d - 1]), unsent : Nat]
         \cup [t : {"property", "{", "v"}, sub : Trees[d - 1] \X Trees[d - 1]]
<1> DEFINE Step(before, d) ==
             Leaves \cup [t : {"array", "object", "a", "a{"}, sub : Seq(before)]
               \cup [t : {"("}, sub : Seq(before), unsent : Nat]
               \cup [t : {"property", "{", "v"}, sub : before \X before]
           Fits(f, n) == f = [d \in 0 .. n |-> IF d = 0 THEN {} ELSE Step(f[d - 1], d)]
           S == {n \in Nat : \E f : Fits(f, n)}
<1>1. ASSUME NEW m \in Nat, \A k \in 0 .. m - 1 : k \in S PROVE m \in S
  <2>1. CASE m = 0
    <3>1. Fits([d \in 0 .. 0 |-> {}], 0)
      OBVIOUS
    <3> QED
      BY <2>1, <3>1
  <2>2. CASE m # 0
    <3>1. m - 1 \in 0 .. m - 1
      BY <2>2
    <3>2. PICK f : Fits(f, m - 1)
      BY <1>1, <3>1
    <3> HIDE DEF Step
    <3> DEFINE g == [d \in 0 .. m |-> IF d = 0 THEN {} ELSE Step(f[d - 1], d)]
    <3>3. ASSUME NEW d \in 0 .. m, d # 0 PROVE g[d - 1] = f[d - 1]
      <4>1. d - 1 \in 0 .. m /\ d - 1 \in 0 .. m - 1
        BY <3>3
      <4> QED
        BY <3>2, <4>1
    <3>4. Fits(g, m)
      BY <3>3
    <3> QED
      BY <3>4
  <2> QED
    BY <2>1, <2>2
<1>2. \E f : Fits(f, Nesting)
  <2>1. \A m \in Nat : m \in S
    <3> HIDE DEF S
    <3> QED
      BY <1>1, Upwards
  <2> QED
    BY <2>1, DBusCallsAssumption
<1>3. Fits(Trees, Nesting)
  BY <1>2, Zenon DEF Trees
<1>4. Trees[0] = {} /\ \A d \in 1 .. Nesting : Trees[d] = Step(Trees[d - 1], d)
  <2>1. 0 \in 0 .. Nesting /\ \A d \in 1 .. Nesting : d \in 0 .. Nesting /\ d # 0
    BY DBusCallsAssumption
  <2> HIDE DEF Step
  <2> QED
    BY <1>3, <2>1
<1> QED
  BY <1>4

LEMMA PreservedDef ==
  /\ Preserved[0] = {}
  /\ \A d \in 1 .. Nesting : Preserved[d] =
       [t : Numbers, n : -Half .. Half - 1] \cup [t : {"s"}, s : Seq(STRING)]
         \cup [t : {"{", "v"}, sub : [t : {"s"}, s : Seq(STRING)] \X Preserved[d - 1]]
         \cup [t : {"a{"}, sub : Seq(Preserved[d - 1])]
         \cup {e \in [t : {"a"}, sub : Seq(Preserved[d - 1])]
                       \cup [t : {"("}, sub : Seq(Preserved[d - 1]), unsent : {0}] : Spaced(e.sub)}
<1> DEFINE Step(before, d) ==
             [t : Numbers, n : -Half .. Half - 1] \cup [t : {"s"}, s : Seq(STRING)]
               \cup [t : {"{", "v"}, sub : [t : {"s"}, s : Seq(STRING)] \X before]
               \cup [t : {"a{"}, sub : Seq(before)]
               \cup {e \in [t : {"a"}, sub : Seq(before)]
                             \cup [t : {"("}, sub : Seq(before), unsent : {0}] : Spaced(e.sub)}
           Fits(f, n) == f = [d \in 0 .. n |-> IF d = 0 THEN {} ELSE Step(f[d - 1], d)]
           S == {n \in Nat : \E f : Fits(f, n)}
<1>1. ASSUME NEW m \in Nat, \A k \in 0 .. m - 1 : k \in S PROVE m \in S
  <2>1. CASE m = 0
    <3>1. Fits([d \in 0 .. 0 |-> {}], 0)
      OBVIOUS
    <3> QED
      BY <2>1, <3>1
  <2>2. CASE m # 0
    <3>1. m - 1 \in 0 .. m - 1
      BY <2>2
    <3>2. PICK f : Fits(f, m - 1)
      BY <1>1, <3>1
    <3> HIDE DEF Step
    <3> DEFINE g == [d \in 0 .. m |-> IF d = 0 THEN {} ELSE Step(f[d - 1], d)]
    <3>3. ASSUME NEW d \in 0 .. m, d # 0 PROVE g[d - 1] = f[d - 1]
      <4>1. d - 1 \in 0 .. m /\ d - 1 \in 0 .. m - 1
        BY <3>3
      <4> QED
        BY <3>2, <4>1
    <3>4. Fits(g, m)
      BY <3>3
    <3> QED
      BY <3>4
  <2> QED
    BY <2>1, <2>2
<1>2. \E f : Fits(f, Nesting)
  <2>1. \A m \in Nat : m \in S
    <3> HIDE DEF S
    <3> QED
      BY <1>1, Upwards
  <2> QED
    BY <2>1, DBusCallsAssumption
<1>3. Fits(Preserved, Nesting)
  BY <1>2, Zenon DEF Preserved
<1>4. Preserved[0] = {} /\ \A d \in 1 .. Nesting : Preserved[d] = Step(Preserved[d - 1], d)
  <2>1. 0 \in 0 .. Nesting /\ \A d \in 1 .. Nesting : d \in 0 .. Nesting /\ d # 0
    BY DBusCallsAssumption
  <2> HIDE DEF Step
  <2> QED
    BY <1>3, <2>1
<1> QED
  BY <1>4

LEMMA WriteValueDef ==
  /\ WriteValue[0] = << >>
  /\ \A d \in 1 .. Nesting : WriteValue[d] =
       [w \in Seq(STRING) \X Nat \X Trees[d] |-> Writing(WriteValue[d - 1], w[1], w[2], w[3])]
<1> DEFINE Step(before, d) ==
             [w \in Seq(STRING) \X Nat \X Trees[d] |-> Writing(before, w[1], w[2], w[3])]
           Fits(f, n) == f = [d \in 0 .. n |-> IF d = 0 THEN << >> ELSE Step(f[d - 1], d)]
           S == {n \in Nat : \E f : Fits(f, n)}
<1>1. ASSUME NEW m \in Nat, \A k \in 0 .. m - 1 : k \in S PROVE m \in S
  <2>1. CASE m = 0
    <3>1. Fits([d \in 0 .. 0 |-> << >>], 0)
      OBVIOUS
    <3> QED
      BY <2>1, <3>1
  <2>2. CASE m # 0
    <3>1. m - 1 \in 0 .. m - 1
      BY <2>2
    <3>2. PICK f : Fits(f, m - 1)
      BY <1>1, <3>1
    <3> HIDE DEF Step
    <3> DEFINE g == [d \in 0 .. m |-> IF d = 0 THEN << >> ELSE Step(f[d - 1], d)]
    <3>3. ASSUME NEW d \in 0 .. m, d # 0 PROVE g[d - 1] = f[d - 1]
      <4>1. d - 1 \in 0 .. m /\ d - 1 \in 0 .. m - 1
        BY <3>3
      <4> QED
        BY <3>2, <4>1
    <3>4. Fits(g, m)
      BY <3>3
    <3> QED
      BY <3>4
  <2> QED
    BY <2>1, <2>2
<1>2. \E f : Fits(f, Nesting)
  <2>1. \A m \in Nat : m \in S
    <3> HIDE DEF S
    <3> QED
      BY <1>1, Upwards
  <2> QED
    BY <2>1, DBusCallsAssumption
<1>3. Fits(WriteValue, Nesting)
  BY <1>2, Zenon DEF WriteValue
<1>4. WriteValue[0] = << >> /\ \A d \in 1 .. Nesting : WriteValue[d] = Step(WriteValue[d - 1], d)
  <2>1. 0 \in 0 .. Nesting /\ \A d \in 1 .. Nesting : d \in 0 .. Nesting /\ d # 0
    BY DBusCallsAssumption
  <2> HIDE DEF Step
  <2> QED
    BY <1>3, <2>1
<1> QED
  BY <1>4

LEMMA ReadValueDef ==
  /\ ReadValue[0] = << >>
  /\ \A d \in 1 .. Nesting : ReadValue[d] =
       [element \in Trees[d] |-> Reading(ReadValue[d - 1], element)]
<1> DEFINE Step(before, d) ==
             [element \in Trees[d] |-> Reading(before, element)]
           Fits(f, n) == f = [d \in 0 .. n |-> IF d = 0 THEN << >> ELSE Step(f[d - 1], d)]
           S == {n \in Nat : \E f : Fits(f, n)}
<1>1. ASSUME NEW m \in Nat, \A k \in 0 .. m - 1 : k \in S PROVE m \in S
  <2>1. CASE m = 0
    <3>1. Fits([d \in 0 .. 0 |-> << >>], 0)
      OBVIOUS
    <3> QED
      BY <2>1, <3>1
  <2>2. CASE m # 0
    <3>1. m - 1 \in 0 .. m - 1
      BY <2>2
    <3>2. PICK f : Fits(f, m - 1)
      BY <1>1, <3>1
    <3> HIDE DEF Step
    <3> DEFINE g == [d \in 0 .. m |-> IF d = 0 THEN << >> ELSE Step(f[d - 1], d)]
    <3>3. ASSUME NEW d \in 0 .. m, d # 0 PROVE g[d - 1] = f[d - 1]
      <4>1. d - 1 \in 0 .. m /\ d - 1 \in 0 .. m - 1
        BY <3>3
      <4> QED
        BY <3>2, <4>1
    <3>4. Fits(g, m)
      BY <3>3
    <3> QED
      BY <3>4
  <2> QED
    BY <2>1, <2>2
<1>2. \E f : Fits(f, Nesting)
  <2>1. \A m \in Nat : m \in S
    <3> HIDE DEF S
    <3> QED
      BY <1>1, Upwards
  <2> QED
    BY <2>1, DBusCallsAssumption
<1>3. Fits(ReadValue, Nesting)
  BY <1>2, Zenon DEF ReadValue
<1>4. ReadValue[0] = << >> /\ \A d \in 1 .. Nesting : ReadValue[d] = Step(ReadValue[d - 1], d)
  <2>1. 0 \in 0 .. Nesting /\ \A d \in 1 .. Nesting : d \in 0 .. Nesting /\ d # 0
    BY DBusCallsAssumption
  <2> HIDE DEF Step
  <2> QED
    BY <1>3, <2>1
<1> QED
  BY <1>4

--------------------------------------------------------------------------------
(* What may follow the type or the fields that start at p: nothing good, or a    *)
(* later position.                                                          *)
Later(sig, p) == IF p = Bad THEN {Bad} ELSE {Bad} \cup p + 1 .. Len(sig) + 1

EndsLater(sig, end, p) == end["type"][p] \in Later(sig, p) /\ end["fields"][p] \in Later(sig, p)

Same(end, other, p) == end["type"][p] = other["type"][p] /\ end["fields"][p] = other["fields"][p]

LEMMA TokenFacts ==
  ASSUME NEW sig \in Seq(STRING), NEW p \in 0 .. Len(sig) + 1
  PROVE
    /\ p = Bad \/ p = Len(sig) + 1 => At(sig, p) = "end"
    /\ At(sig, p) # "end" => p \in 1 .. Len(sig) /\ p + 1 \in 1 .. Len(sig) + 1 /\ p # Bad
    /\ Len(sig) \in Nat
BY DEF At, Bad

LEMMA LaterAndLater ==
  ASSUME NEW sig \in Seq(STRING), NEW p \in 1 .. Len(sig) + 1,
         NEW q \in {Bad} \cup p + 1 .. Len(sig) + 1
  PROVE  Later(sig, q) \subseteq Later(sig, p)
BY DEF Later, Bad

(* Where a type ends depends on what comes later only.                        *)
LEMMA TypeEndIsLocal ==
  ASSUME NEW sig \in Seq(STRING), NEW p \in 0 .. Len(sig) + 1, NEW end, NEW other,
         \A q \in {Bad} \cup p + 1 .. Len(sig) + 1 : EndsLater(sig, end, q) /\ Same(end, other, q)
  PROVE  /\ GetSignatureEnd(sig, end, p) \in Later(sig, p)
         /\ GetSignatureEnd(sig, other, p) = GetSignatureEnd(sig, end, p)
<1>1. CASE At(sig, p) \in Basic \cup {"h", "v"}
  <2>1. At(sig, p) # "end"
    BY <1>1 DEF Basic, Numbers
  <2>2. GetSignatureEnd(sig, end, p) = p + 1 /\ GetSignatureEnd(sig, other, p) = p + 1
    BY <1>1 DEF GetSignatureEnd, Basic, Numbers
  <2> QED
    BY <2>1, <2>2, TokenFacts DEF Later
<1>2. CASE At(sig, p) = "a"
  <2>1. /\ GetSignatureEnd(sig, end, p) = end["type"][p + 1]
        /\ GetSignatureEnd(sig, other, p) = other["type"][p + 1]
    BY <1>2 DEF GetSignatureEnd, Basic, Numbers
  <2>2. p + 1 \in p + 1 .. Len(sig) + 1 /\ p \in 1 .. Len(sig) + 1
    BY <1>2, TokenFacts DEF Bad
  <2>3. end["type"][p + 1] \in Later(sig, p + 1) /\ other["type"][p + 1] = end["type"][p + 1]
    BY <2>2 DEF EndsLater, Same
  <2> QED
    BY <2>1, <2>2, <2>3, LaterAndLater
<1>3. CASE At(sig, p) = "("
  <2>1. /\ GetSignatureEnd(sig, end, p) = end["fields"][p + 1]
        /\ GetSignatureEnd(sig, other, p) = other["fields"][p + 1]
    BY <1>3 DEF GetSignatureEnd, Basic, Numbers
  <2>2. p + 1 \in p + 1 .. Len(sig) + 1 /\ p \in 1 .. Len(sig) + 1
    BY <1>3, TokenFacts DEF Bad
  <2>3. end["fields"][p + 1] \in Later(sig, p + 1) /\ other["fields"][p + 1] = end["fields"][p + 1]
    BY <2>2 DEF EndsLater, Same
  <2> QED
    BY <2>1, <2>2, <2>3, LaterAndLater
<1>4. CASE At(sig, p) = "{"
  <2>0. Len(sig) \in Nat
    OBVIOUS
  <2>1. p + 1 \in p + 1 .. Len(sig) + 1 /\ p \in 1 .. Len(sig) + 1
    <3>1. p \in 1 .. Len(sig)
      BY <1>4, TokenFacts
    <3> QED
      BY <2>0, <3>1
  <2> DEFINE first == end["type"][p + 1]
             second == end["type"][first]
  <2>2. first \in {Bad} \cup p + 1 .. Len(sig) + 1 /\ other["type"][p + 1] = first
    <3>1. first \in Later(sig, p + 1) /\ other["type"][p + 1] = first
      BY <2>1 DEF EndsLater, Same
    <3> HIDE DEF first
    <3> QED
      BY <2>0, <2>1, <3>1 DEF Later, Bad
  <2>3. second \in Later(sig, first) /\ other["type"][first] = second
    BY <2>1, <2>2, TokenFacts DEF EndsLater, Same
  <2>4. /\ GetSignatureEnd(sig, end, p) = DictEnd(sig, second)
        /\ GetSignatureEnd(sig, other, p) = DictEnd(sig, other["type"][other["type"][p + 1]])
    BY <1>4 DEF GetSignatureEnd, Basic, Numbers
  <2>5. second \in {Bad} \cup p + 1 .. Len(sig) + 1
    <3> HIDE DEF first, second
    <3> QED
      BY <2>0, <2>1, <2>2, <2>3 DEF Later, Bad
  <2>6. DictEnd(sig, second) \in Later(sig, p)
    <3> HIDE DEF second
    <3>1. CASE At(sig, second) = "}"
      <4>1. second \in 1 .. Len(sig) /\ DictEnd(sig, second) = second + 1
        BY <3>1 DEF DictEnd, At
      <4> QED
        BY <2>0, <2>1, <2>5, <4>1 DEF Later, Bad
    <3>2. CASE At(sig, second) # "}"
      BY <3>2 DEF DictEnd, Later
    <3> QED
      BY <3>1, <3>2
  <2> QED
    BY <2>2, <2>3, <2>4, <2>6
<1>5. CASE At(sig, p) \notin Basic \cup {"h", "v", "a", "(", "{"}
  BY <1>5 DEF GetSignatureEnd, Later
<1> QED
  BY <1>1, <1>2, <1>3, <1>4, <1>5

(* And where the fields end, also on where the next of them does.              *)
LEMMA StructEndIsLocal ==
  ASSUME NEW sig \in Seq(STRING), NEW p \in 0 .. Len(sig) + 1, NEW end, NEW other,
         \A q \in {Bad} \cup p + 1 .. Len(sig) + 1 : EndsLater(sig, end, q) /\ Same(end, other, q),
         end["type"][p] \in Later(sig, p), other["type"][p] = end["type"][p]
  PROVE  /\ StructEnd(sig, end, p) \in Later(sig, p)
         /\ StructEnd(sig, other, p) = StructEnd(sig, end, p)
<1>1. CASE At(sig, p) = ")"
  <2>1. StructEnd(sig, end, p) = p + 1 /\ StructEnd(sig, other, p) = p + 1
    BY <1>1 DEF StructEnd
  <2> QED
    BY <1>1, <2>1, TokenFacts DEF Later
<1>2. CASE At(sig, p) = "end"
  BY <1>2 DEF StructEnd, Later
<1>3. CASE At(sig, p) # ")" /\ At(sig, p) # "end"
  <2> DEFINE next == end["type"][p]
  <2>1. /\ StructEnd(sig, end, p) = end["fields"][next]
        /\ StructEnd(sig, other, p) = other["fields"][next]
    BY <1>3 DEF StructEnd
  <2>2. p # Bad /\ p \in Nat /\ next \in {Bad} \cup p + 1 .. Len(sig) + 1
    BY <1>3, TokenFacts DEF Later
  <2>3. end["fields"][next] \in Later(sig, next) /\ other["fields"][next] = end["fields"][next]
    BY <2>2 DEF EndsLater, Same
  <2> HIDE DEF next
  <2>4. Later(sig, next) \subseteq Later(sig, p)
    BY <2>2, TokenFacts DEF Later, Bad
  <2> QED
    BY <2>1, <2>3, <2>4
<1> QED
  BY <1>1, <1>2, <1>3

(* The recursive descent defines something.                                   *)
Solves(sig, end, p) ==
  /\ end["type"][p] = GetSignatureEnd(sig, end, p)
  /\ end["fields"][p] = StructEnd(sig, end, p)
  /\ EndsLater(sig, end, p)

LEMMA EndsExist ==
  ASSUME NEW sig \in Seq(STRING)
  PROVE  \E end \in [{"type", "fields"} -> [0 .. Len(sig) + 1 -> 0 .. Len(sig) + 1]] :
           \A p \in 0 .. Len(sig) + 1 : Solves(sig, end, p)
<1> DEFINE n == Len(sig) + 1
           Maps == [{"type", "fields"} -> [0 .. n -> 0 .. n]]
           From(m) == {Bad} \cup m .. n
           S == {m \in 0 .. n + 1 : \E end \in Maps : \A p \in From(m) : Solves(sig, end, p)}
<1>1. n \in Nat /\ n = Len(sig) + 1 /\ 0 \in 0 .. n
  OBVIOUS
<1>2. ASSUME NEW end \in Maps, end["type"][Bad] = Bad, end["fields"][Bad] = Bad
      PROVE  Solves(sig, end, Bad)
  <2>1. At(sig, Bad) = "end"
    BY DEF At, Bad
  <2>2. GetSignatureEnd(sig, end, Bad) = Bad /\ StructEnd(sig, end, Bad) = Bad
    BY <2>1 DEF GetSignatureEnd, StructEnd, Basic, Numbers
  <2> QED
    BY <1>2, <2>2 DEF Solves, EndsLater, Later
<1>3. ASSUME NEW m \in 0 .. n + 1, \A k \in m + 1 .. n + 1 : k \in S PROVE m \in S
  <2>1. CASE m = n + 1
    <3> DEFINE none == [w \in {"type", "fields"} |-> [p \in 0 .. n |-> Bad]]
    <3>1. none \in Maps
      BY <1>1 DEF Bad
    <3>2. none["type"][Bad] = Bad /\ none["fields"][Bad] = Bad
      BY <1>1 DEF Bad
    <3>3. From(m) = {Bad}
      BY <1>1, <2>1
    <3> HIDE DEF none, Maps, From
    <3>4. \A p \in From(m) : Solves(sig, none, p)
      BY <1>2, <3>1, <3>2, <3>3
    <3> QED
      BY <3>1, <3>4
  <2>2. CASE m = 0
    <3>1. 1 \in m + 1 .. n + 1 /\ From(1) = From(0)
      BY <1>1, <2>2 DEF Bad
    <3> HIDE DEF From, Maps
    <3>2. PICK end \in Maps : \A p \in From(1) : Solves(sig, end, p)
      BY <1>3, <3>1
    <3> QED
      BY <2>2, <3>1, <3>2
  <2>3. CASE m \in 1 .. n
    <3>1. m + 1 \in m + 1 .. n + 1
      BY <1>1, <2>3
    <3>2. PICK end \in Maps : \A p \in From(m + 1) : Solves(sig, end, p)
      BY <1>3, <3>1
    <3> DEFINE t == GetSignatureEnd(sig, end, m)
               half == [w \in {"type", "fields"} |-> [p \in 0 .. n |->
                          IF p = m /\ w = "type" THEN t ELSE end[w][p]]]
               f == StructEnd(sig, half, m)
               next == [w \in {"type", "fields"} |-> [p \in 0 .. n |->
                          IF p = m THEN IF w = "type" THEN t ELSE f ELSE end[w][p]]]
    <3>3. \A q \in From(m + 1) : q \in 0 .. n /\ q # m
      BY <1>1, <2>3 DEF Bad
    <3>4. \A q \in From(m + 1) : EndsLater(sig, end, q) /\ EndsLater(sig, half, q)
                                /\ Same(end, half, q) /\ Same(end, next, q)
                                /\ Same(half, next, q)
      <4> HIDE DEF t, f, From
      <4> QED
        BY <3>2, <3>3 DEF Same, EndsLater, Solves
    <3>5. m \in 0 .. Len(sig) + 1 /\ m # Bad /\ Later(sig, m) \subseteq 0 .. n
      BY <1>1, <2>3 DEF Bad, Later
    <3>6. t \in Later(sig, m) /\ GetSignatureEnd(sig, next, m) = t
      BY <3>4, <3>5, TypeEndIsLocal
    <3>7. half["type"][m] = t /\ next["type"][m] = t /\ next["fields"][m] = f
      <4> HIDE DEF t, f
      <4> QED
        BY <3>5, <1>1
    <3>8. f \in Later(sig, m) /\ StructEnd(sig, next, m) = f
      <4> HIDE DEF half, next, t
      <4> QED
        BY <3>4, <3>5, <3>6, <3>7, StructEndIsLocal
    <3>9. next \in Maps
      <4> HIDE DEF t, f
      <4> QED
        BY <3>5, <3>6, <3>8
    <3> HIDE DEF half, next, t, f, Maps
    <3>10. Solves(sig, next, m)
      BY <3>6, <3>7, <3>8 DEF Solves, EndsLater
    <3>11. ASSUME NEW q \in From(m + 1) PROVE Solves(sig, next, q)
      <4>1. CASE q = Bad
        <5>1. end["type"][Bad] = Bad /\ end["fields"][Bad] = Bad
          BY <3>2, <4>1 DEF Solves, EndsLater, Later
        <5>2. next["type"][Bad] = Bad /\ next["fields"][Bad] = Bad
          BY <3>4, <4>1, <5>1 DEF Same
        <5> QED
          BY <1>2, <3>9, <4>1, <5>2
      <4>2. CASE q # Bad
        <5>1. q \in 0 .. Len(sig) + 1 /\ {Bad} \cup q + 1 .. Len(sig) + 1 \subseteq From(m + 1)
          BY <1>1, <2>3, <4>2
        <5>2. Solves(sig, end, q) /\ Same(end, next, q)
          BY <3>2, <3>4
        <5>3. GetSignatureEnd(sig, next, q) = GetSignatureEnd(sig, end, q)
          BY <3>4, <5>1, TypeEndIsLocal
        <5>4. StructEnd(sig, next, q) = StructEnd(sig, end, q)
          <6>1. end["type"][q] \in Later(sig, q) /\ next["type"][q] = end["type"][q]
            BY <5>2 DEF Solves, EndsLater, Same
          <6> QED
            BY <3>4, <5>1, <6>1, StructEndIsLocal
        <5> QED
          BY <5>2, <5>3, <5>4 DEF Solves, EndsLater, Same
      <4> QED
        BY <4>1, <4>2
    <3>12. \A p \in From(m) : p = m \/ p \in From(m + 1)
      BY <1>1, <2>3
    <3> HIDE DEF From
    <3> QED
      BY <3>9, <3>10, <3>11, <3>12
  <2> QED
    BY <1>1, <2>1, <2>2, <2>3
<1>4. \A m \in 0 .. n + 1 : m \in S
  <2>1. n + 1 \in Nat
    BY <1>1
  <2> HIDE DEF S, n
  <2> QED
    BY <2>1, <1>3, Downwards
<1>5. 0 \in S
  <2>1. 0 \in 0 .. n + 1
    BY <1>1
  <2> HIDE DEF S
  <2> QED
    BY <1>4, <2>1
<1>6. \A p \in 0 .. n : p \in From(0)
  BY <1>1
<1> QED
  BY <1>5, <1>6

LEMMA EndsDef ==
  ASSUME NEW sig \in Seq(STRING)
  PROVE  \A p \in 0 .. Len(sig) + 1 : Solves(sig, Ends(sig), p)
<1> DEFINE n == Len(sig) + 1
           What == {"type", "fields"}
           Step(end) == [what \in What |-> [p \in 0 .. n |->
             IF what = "type" THEN GetSignatureEnd(sig, end, p) ELSE StructEnd(sig, end, p)]]
           S == {p \in 0 .. n : EndsLater(sig, Ends(sig), p)}
<1>1. n \in Nat /\ n = Len(sig) + 1
  OBVIOUS
<1>2. \E end : end = Step(end)
  <2>1. PICK end \in [What -> [0 .. n -> 0 .. n]] : \A p \in 0 .. n : Solves(sig, end, p)
    BY EndsExist
  <2>2. ASSUME NEW w \in What PROVE end[w] = Step(end)[w]
    <3>1. \A p \in 0 .. n : end[w][p] = Step(end)[w][p]
      BY <2>1 DEF Solves
    <3>2. end[w] \in [0 .. n -> 0 .. n]
      BY <2>1
    <3>3. Step(end)[w] = [p \in 0 .. n |-> Step(end)[w][p]]
      OBVIOUS
    <3> HIDE DEF Step
    <3> QED
      BY <3>1, <3>2, <3>3
  <2>3. Step(end) = [w \in What |-> Step(end)[w]]
    OBVIOUS
  <2>4. end = Step(end)
    <3> HIDE DEF Step
    <3> QED
      BY <2>1, <2>2, <2>3
  <2> QED
    BY <2>4
<1>3. Ends(sig) = Step(Ends(sig))
  BY <1>2, Zenon DEF Ends
<1>4. ASSUME NEW p \in 0 .. n
      PROVE  /\ Ends(sig)["type"][p] = GetSignatureEnd(sig, Ends(sig), p)
             /\ Ends(sig)["fields"][p] = StructEnd(sig, Ends(sig), p)
  <2>1. /\ Step(Ends(sig))["type"][p] = GetSignatureEnd(sig, Ends(sig), p)
        /\ Step(Ends(sig))["fields"][p] = StructEnd(sig, Ends(sig), p)
    OBVIOUS
  <2> HIDE DEF Step
  <2> QED
    BY <1>3, <2>1
<1>5. EndsLater(sig, Ends(sig), Bad)
  <2>1. At(sig, Bad) = "end" /\ Bad \in 0 .. n
    BY <1>1 DEF At, Bad
  <2>2. GetSignatureEnd(sig, Ends(sig), Bad) = Bad /\ StructEnd(sig, Ends(sig), Bad) = Bad
    BY <2>1 DEF GetSignatureEnd, StructEnd, Basic, Numbers
  <2> QED
    BY <1>4, <2>1, <2>2 DEF EndsLater, Later
<1>6. ASSUME NEW m \in 0 .. n, \A k \in m + 1 .. n : k \in S PROVE m \in S
  <2>1. \A q \in {Bad} \cup m + 1 .. Len(sig) + 1 :
          EndsLater(sig, Ends(sig), q) /\ Same(Ends(sig), Ends(sig), q)
    BY <1>5, <1>6 DEF Same
  <2>2. Ends(sig)["type"][m] \in Later(sig, m)
    BY <1>4, <2>1, TypeEndIsLocal
  <2>3. Ends(sig)["fields"][m] \in Later(sig, m)
    BY <1>4, <2>1, <2>2, StructEndIsLocal
  <2> QED
    BY <2>2, <2>3 DEF EndsLater
<1>7. \A p \in 0 .. n : p \in S
  <2> HIDE DEF S, n
  <2> QED
    BY <1>1, <1>6, Downwards
<1> QED
  BY <1>4, <1>7 DEF Solves
--------------------------------------------------------------------------------
(* What the grammar has end after p.                                         *)
PhrasesWithin(sig, ends, p) ==
  ends["type"][p] \subseteq p + 1 .. Len(sig) + 1 /\ ends["list"][p] \subseteq p .. Len(sig) + 1

SamePhrases(ends, other, p) ==
  ends["type"][p] = other["type"][p] /\ ends["list"][p] = other["list"][p]

(* What a bracket closes ends after the bracket.                              *)
LEMMA ClosedLater ==
  ASSUME NEW sig \in Seq(STRING), NEW p \in 1 .. Len(sig) + 1, NEW bracket, bracket # "end",
         NEW S, S \subseteq p + 1 .. Len(sig) + 1
  PROVE  Closed(sig, S, bracket) \subseteq p + 1 .. Len(sig) + 1
<1>1. Len(sig) \in Nat /\ p \in Nat
  OBVIOUS
<1>2. ASSUME NEW e \in S, At(sig, e) = bracket PROVE e + 1 \in p + 1 .. Len(sig) + 1
  <2>1. At(sig, e) # "end"
    BY <1>2
  <2>2. e \in 1 .. Len(sig)
    BY <2>1 DEF At
  <2>3. e \in p + 1 .. Len(sig) + 1
    OBVIOUS
  <2>4. e \in Nat /\ e <= Len(sig) /\ p + 1 <= e
    BY <1>1, <2>2, <2>3
  <2> QED
    BY <1>1, <2>4
<1> QED
  BY <1>2 DEF Closed

LEMMA TypeEndsAreLocal ==
  ASSUME NEW sig \in Seq(STRING), NEW p \in 1 .. Len(sig) + 1, NEW ends, NEW other,
         \A q \in p + 1 .. Len(sig) + 1 :
           PhrasesWithin(sig, ends, q) /\ SamePhrases(ends, other, q)
  PROVE  /\ TypeEnds(sig, ends, p) \subseteq p + 1 .. Len(sig) + 1
         /\ TypeEnds(sig, other, p) = TypeEnds(sig, ends, p)
<1>1. Len(sig) \in Nat /\ p \in 0 .. Len(sig) + 1 /\ p \in Nat
  OBVIOUS
<1>2. ASSUME At(sig, p) # "end" PROVE p + 1 \in p + 1 .. Len(sig) + 1
  BY <1>1, <1>2, TokenFacts
<1>3. CASE At(sig, p) \in Basic \cup {"h", "v"}
  <2>1. At(sig, p) # "end"
    BY <1>3 DEF Basic, Numbers
  <2>2. TypeEnds(sig, ends, p) = {p + 1} /\ TypeEnds(sig, other, p) = {p + 1}
    BY <1>3 DEF TypeEnds, Basic, Numbers
  <2> QED
    BY <1>2, <2>1, <2>2
<1>4. CASE At(sig, p) = "a"
  <2>1. TypeEnds(sig, ends, p) = ends["type"][p + 1] /\ TypeEnds(sig, other, p) = other["type"][p + 1]
    BY <1>4 DEF TypeEnds, Basic, Numbers
  <2>2. /\ ends["type"][p + 1] \subseteq p + 1 + 1 .. Len(sig) + 1
        /\ other["type"][p + 1] = ends["type"][p + 1]
    BY <1>2, <1>4 DEF PhrasesWithin, SamePhrases
  <2> QED
    BY <1>1, <2>1, <2>2
<1>5. CASE At(sig, p) = "("
  <2>1. /\ TypeEnds(sig, ends, p) = Closed(sig, ends["list"][p + 1], ")")
        /\ TypeEnds(sig, other, p) = Closed(sig, other["list"][p + 1], ")")
    BY <1>5 DEF TypeEnds, Basic, Numbers
  <2>2. /\ ends["list"][p + 1] \subseteq p + 1 .. Len(sig) + 1
        /\ other["list"][p + 1] = ends["list"][p + 1]
    BY <1>2, <1>5 DEF PhrasesWithin, SamePhrases
  <2> QED
    BY <2>1, <2>2, ClosedLater
<1>6. CASE At(sig, p) = "{"
  <2> DEFINE Second(e) == UNION {e["type"][k] : k \in e["type"][p + 1]}
  <2>1. /\ TypeEnds(sig, ends, p) = Closed(sig, Second(ends), "}")
        /\ TypeEnds(sig, other, p) = Closed(sig, Second(other), "}")
    BY <1>6 DEF TypeEnds, Basic, Numbers
  <2>2. /\ ends["type"][p + 1] \subseteq p + 1 + 1 .. Len(sig) + 1
        /\ other["type"][p + 1] = ends["type"][p + 1]
    BY <1>2, <1>6 DEF PhrasesWithin, SamePhrases
  <2>3. ASSUME NEW k \in ends["type"][p + 1]
        PROVE  ends["type"][k] \subseteq p + 1 .. Len(sig) + 1 /\ other["type"][k] = ends["type"][k]
    <3>1. k \in p + 1 .. Len(sig) + 1 /\ k + 1 .. Len(sig) + 1 \subseteq p + 1 .. Len(sig) + 1
      BY <1>1, <2>2
    <3> QED
      BY <3>1 DEF PhrasesWithin, SamePhrases
  <2>4. Second(ends) \subseteq p + 1 .. Len(sig) + 1
    BY <2>3
  <2>5. Second(other) = Second(ends)
    BY <2>2, <2>3
  <2> HIDE DEF Second
  <2> QED
    BY <2>1, <2>4, <2>5, ClosedLater
<1>7. CASE At(sig, p) \notin Basic \cup {"h", "v", "a", "(", "{"}
  BY <1>7 DEF TypeEnds
<1> QED
  BY <1>3, <1>4, <1>5, <1>6, <1>7

LEMMA ListEndsAreLocal ==
  ASSUME NEW sig \in Seq(STRING), NEW p \in 1 .. Len(sig) + 1, NEW ends, NEW other,
         \A q \in p + 1 .. Len(sig) + 1 :
           PhrasesWithin(sig, ends, q) /\ SamePhrases(ends, other, q),
         ends["type"][p] \subseteq p + 1 .. Len(sig) + 1, other["type"][p] = ends["type"][p]
  PROVE  /\ ListEnds(ends, p) \subseteq p .. Len(sig) + 1
         /\ ListEnds(other, p) = ListEnds(ends, p)
<1>1. ASSUME NEW k \in ends["type"][p]
      PROVE  ends["list"][k] \subseteq p .. Len(sig) + 1 /\ other["list"][k] = ends["list"][k]
  <2>1. k \in p + 1 .. Len(sig) + 1 /\ k .. Len(sig) + 1 \subseteq p .. Len(sig) + 1
    OBVIOUS
  <2> QED
    BY <2>1 DEF PhrasesWithin, SamePhrases
<1>2. UNION {ends["list"][k] : k \in ends["type"][p]} \subseteq p .. Len(sig) + 1
  BY <1>1
<1>3. UNION {other["list"][k] : k \in other["type"][p]} = UNION {ends["list"][k] : k \in ends["type"][p]}
  BY <1>1
<1>4. p \in p .. Len(sig) + 1
  OBVIOUS
<1> QED
  BY <1>2, <1>3, <1>4 DEF ListEnds

(* The grammar defines something.                                            *)
Derives(sig, ends, p) ==
  /\ ends["type"][p] = TypeEnds(sig, ends, p)
  /\ ends["list"][p] = ListEnds(ends, p)
  /\ PhrasesWithin(sig, ends, p)

LEMMA PhrasesExist ==
  ASSUME NEW sig \in Seq(STRING)
  PROVE  \E ends \in [{"type", "list"} -> [1 .. Len(sig) + 1 -> SUBSET (1 .. Len(sig) + 1)]] :
           \A p \in 1 .. Len(sig) + 1 : Derives(sig, ends, p)
<1> DEFINE n == Len(sig) + 1
           Maps == [{"type", "list"} -> [1 .. n -> SUBSET (1 .. n)]]
           S == {m \in 0 .. n + 1 : m # 0 =>
                   \E ends \in Maps : \A p \in m .. n : Derives(sig, ends, p)}
<1>1. n \in Nat /\ n = Len(sig) + 1
  OBVIOUS
<1>2. ASSUME NEW m \in 0 .. n + 1, \A k \in m + 1 .. n + 1 : k \in S PROVE m \in S
  <2>1. CASE m = n + 1
    <3> DEFINE none == [w \in {"type", "list"} |-> [p \in 1 .. n |-> {}]]
    <3>1. none \in Maps
      OBVIOUS
    <3>2. m .. n = {}
      BY <1>1, <2>1
    <3> HIDE DEF none, Maps
    <3> QED
      BY <3>1, <3>2
  <2>2. CASE m = 0
    BY <2>2
  <2>3. CASE m \in 1 .. n
    <3>1. m + 1 \in m + 1 .. n + 1 /\ m + 1 # 0
      BY <1>1, <2>3
    <3>2. PICK ends \in Maps : \A p \in m + 1 .. n : Derives(sig, ends, p)
      BY <1>2, <3>1
    <3> DEFINE t == TypeEnds(sig, ends, m)
               half == [w \in {"type", "list"} |-> [p \in 1 .. n |->
                          IF p = m /\ w = "type" THEN t ELSE ends[w][p]]]
               l == ListEnds(half, m)
               next == [w \in {"type", "list"} |-> [p \in 1 .. n |->
                          IF p = m THEN IF w = "type" THEN t ELSE l ELSE ends[w][p]]]
    <3>3. \A q \in m + 1 .. n : q \in 1 .. n /\ q # m
      BY <1>1, <2>3
    <3>4. \A q \in m + 1 .. n : PhrasesWithin(sig, ends, q) /\ PhrasesWithin(sig, half, q)
                                /\ SamePhrases(ends, half, q) /\ SamePhrases(ends, next, q)
                                /\ SamePhrases(half, next, q)
      <4> HIDE DEF t, l
      <4> QED
        BY <3>2, <3>3 DEF SamePhrases, PhrasesWithin, Derives
    <3>5. m \in 1 .. Len(sig) + 1 /\ m .. n \subseteq 1 .. n /\ m + 1 .. n \subseteq 1 .. n
      BY <1>1, <2>3
    <3>6. t \subseteq m + 1 .. n /\ TypeEnds(sig, next, m) = t
      BY <3>4, <3>5, TypeEndsAreLocal
    <3>7. half["type"][m] = t /\ next["type"][m] = t /\ next["list"][m] = l
      <4> HIDE DEF t, l
      <4> QED
        BY <3>5, <1>1
    <3>8. l \subseteq m .. n /\ ListEnds(next, m) = l
      <4> HIDE DEF half, next, t
      <4> QED
        BY <3>4, <3>5, <3>6, <3>7, ListEndsAreLocal
    <3>9. next \in Maps
      <4>1. t \in SUBSET (1 .. n) /\ l \in SUBSET (1 .. n)
        BY <3>5, <3>6, <3>8
      <4> HIDE DEF t, l, n
      <4> QED
        BY <4>1
    <3> HIDE DEF half, next, t, l, Maps
    <3>10. Derives(sig, next, m)
      BY <3>6, <3>7, <3>8 DEF Derives, PhrasesWithin
    <3>11. ASSUME NEW q \in m + 1 .. n PROVE Derives(sig, next, q)
      <4>1. q \in 1 .. Len(sig) + 1 /\ q + 1 .. Len(sig) + 1 \subseteq m + 1 .. n
        BY <1>1, <2>3
      <4>2. Derives(sig, ends, q) /\ SamePhrases(ends, next, q)
        BY <3>2, <3>4
      <4>3. TypeEnds(sig, next, q) = TypeEnds(sig, ends, q)
        BY <3>4, <4>1, TypeEndsAreLocal
      <4>4. ListEnds(next, q) = ListEnds(ends, q)
        <5>1. ends["type"][q] \subseteq q + 1 .. Len(sig) + 1 /\ next["type"][q] = ends["type"][q]
          BY <4>2 DEF Derives, PhrasesWithin, SamePhrases
        <5> QED
          BY <3>4, <4>1, <5>1, ListEndsAreLocal
      <4> QED
        BY <4>2, <4>3, <4>4 DEF Derives, PhrasesWithin, SamePhrases
    <3>12. \A p \in m .. n : p = m \/ p \in m + 1 .. n
      BY <1>1, <2>3
    <3> QED
      BY <3>9, <3>10, <3>11, <3>12
  <2> QED
    BY <1>1, <2>1, <2>2, <2>3
<1>3. \A m \in 0 .. n + 1 : m \in S
  <2>1. n + 1 \in Nat
    BY <1>1
  <2> HIDE DEF S, n
  <2> QED
    BY <2>1, <1>2, Downwards
<1>4. 1 \in S
  <2>1. 1 \in 0 .. n + 1
    BY <1>1
  <2> HIDE DEF S
  <2> QED
    BY <1>3, <2>1
<1> QED
  BY <1>4

LEMMA PhrasesDef ==
  ASSUME NEW sig \in Seq(STRING)
  PROVE  \A p \in 1 .. Len(sig) + 1 : Derives(sig, Phrases(sig), p)
<1> DEFINE n == Len(sig) + 1
           What == {"type", "list"}
           Step(ends) == [what \in What |-> [p \in 1 .. n |->
             IF what = "type" THEN TypeEnds(sig, ends, p) ELSE ListEnds(ends, p)]]
           S == {p \in 0 .. n : p # 0 => PhrasesWithin(sig, Phrases(sig), p)}
<1>1. n \in Nat /\ n = Len(sig) + 1
  OBVIOUS
<1>2. \E ends : ends = Step(ends)
  <2>1. PICK ends \in [What -> [1 .. n -> SUBSET (1 .. n)]] : \A p \in 1 .. n : Derives(sig, ends, p)
    BY PhrasesExist
  <2>2. ASSUME NEW w \in What PROVE ends[w] = Step(ends)[w]
    <3>1. \A p \in 1 .. n : ends[w][p] = Step(ends)[w][p]
      BY <2>1 DEF Derives
    <3>2. ends[w] \in [1 .. n -> SUBSET (1 .. n)]
      BY <2>1
    <3>3. Step(ends)[w] = [p \in 1 .. n |-> Step(ends)[w][p]]
      OBVIOUS
    <3> HIDE DEF Step
    <3> QED
      BY <3>1, <3>2, <3>3
  <2>3. Step(ends) = [w \in What |-> Step(ends)[w]]
    OBVIOUS
  <2>4. ends = Step(ends)
    <3> HIDE DEF Step
    <3> QED
      BY <2>1, <2>2, <2>3
  <2> QED
    BY <2>4
<1>3. Phrases(sig) = Step(Phrases(sig))
  BY <1>2, Zenon DEF Phrases
<1>4. ASSUME NEW p \in 1 .. n
      PROVE  /\ Phrases(sig)["type"][p] = TypeEnds(sig, Phrases(sig), p)
             /\ Phrases(sig)["list"][p] = ListEnds(Phrases(sig), p)
  <2>1. /\ Step(Phrases(sig))["type"][p] = TypeEnds(sig, Phrases(sig), p)
        /\ Step(Phrases(sig))["list"][p] = ListEnds(Phrases(sig), p)
    OBVIOUS
  <2> HIDE DEF Step
  <2> QED
    BY <1>3, <2>1
<1>5. ASSUME NEW m \in 0 .. n, \A k \in m + 1 .. n : k \in S PROVE m \in S
  <2>1. SUFFICES ASSUME m # 0 PROVE PhrasesWithin(sig, Phrases(sig), m)
    BY <1>5
  <2>2. m \in 1 .. Len(sig) + 1 /\ m \in 1 .. n
    BY <1>1, <2>1
  <2>3. \A q \in m + 1 .. Len(sig) + 1 :
          PhrasesWithin(sig, Phrases(sig), q) /\ SamePhrases(Phrases(sig), Phrases(sig), q)
    BY <1>5, <2>2 DEF SamePhrases
  <2>4. Phrases(sig)["type"][m] \subseteq m + 1 .. Len(sig) + 1
    BY <1>4, <2>2, <2>3, TypeEndsAreLocal
  <2>5. Phrases(sig)["list"][m] \subseteq m .. Len(sig) + 1
    BY <1>4, <2>2, <2>3, <2>4, ListEndsAreLocal
  <2> QED
    BY <2>4, <2>5 DEF PhrasesWithin
<1>6. \A p \in 0 .. n : p \in S
  <2> HIDE DEF S, n
  <2> QED
    BY <1>1, <1>5, Downwards
<1>7. \A p \in 1 .. n : p \in 0 .. n /\ p # 0
  BY <1>1
<1> QED
  BY <1>4, <1>6, <1>7 DEF Derives

--------------------------------------------------------------------------------
(* An end, or none.                                                         *)
AtMost(end) == IF end = Bad THEN {} ELSE {end}

Recognised(sig, p) ==
  /\ Phrases(sig)["type"][p] = AtMost(Ends(sig)["type"][p])
  /\ Closed(sig, Phrases(sig)["list"][p], ")") = AtMost(Ends(sig)["fields"][p])

LEMMA ClosedOne ==
  ASSUME NEW sig, NEW e, NEW bracket
  PROVE  Closed(sig, {e}, bracket) = IF At(sig, e) = bracket THEN {e + 1} ELSE {}
BY DEF Closed

LEMMA ClosedNone ==
  ASSUME NEW sig, NEW bracket
  PROVE  Closed(sig, {}, bracket) = {}
BY DEF Closed

LEMMA ClosedBoth ==
  ASSUME NEW sig, NEW S, NEW T, NEW bracket
  PROVE  Closed(sig, S \cup T, bracket) = Closed(sig, S, bracket) \cup Closed(sig, T, bracket)
BY DEF Closed

(* The parser and the grammar agree from the right to the left.                 *)
LEMMA TypeRecognised ==
  ASSUME NEW sig \in Seq(STRING), NEW p \in 1 .. Len(sig) + 1,
         \A q \in p + 1 .. Len(sig) + 1 : Recognised(sig, q)
  PROVE  Phrases(sig)["type"][p] = AtMost(Ends(sig)["type"][p])
<1> DEFINE ends == Phrases(sig)
           end == Ends(sig)
<1>1. Len(sig) \in Nat /\ p \in 0 .. Len(sig) + 1 /\ p \in Nat /\ 0 \in 0 .. Len(sig) + 1
  OBVIOUS
<1>2. ends["type"][p] = TypeEnds(sig, ends, p)
  BY PhrasesDef DEF Derives
<1>3. end["type"][p] = GetSignatureEnd(sig, end, p)
  BY <1>1, EndsDef DEF Solves
<1> HIDE DEF ends, end
<1>4. ASSUME At(sig, p) # "end"
      PROVE  /\ p + 1 \in p + 1 .. Len(sig) + 1 /\ p + 1 \in 0 .. Len(sig) + 1
             /\ ends["type"][p + 1] = AtMost(end["type"][p + 1])
             /\ Closed(sig, ends["list"][p + 1], ")") = AtMost(end["fields"][p + 1])
  <2>1. p + 1 \in p + 1 .. Len(sig) + 1 /\ p + 1 \in 0 .. Len(sig) + 1
    BY <1>1, <1>4, TokenFacts
  <2> QED
    BY <2>1 DEF Recognised, ends, end
<1>5. CASE At(sig, p) \in Basic \cup {"h", "v"}
  <2>1. TypeEnds(sig, ends, p) = {p + 1} /\ GetSignatureEnd(sig, end, p) = p + 1
    BY <1>5 DEF TypeEnds, GetSignatureEnd, Basic, Numbers
  <2> QED
    BY <1>1, <1>2, <1>3, <2>1 DEF AtMost, Bad, ends, end
<1>6. CASE At(sig, p) = "a"
  <2>1. /\ TypeEnds(sig, ends, p) = ends["type"][p + 1]
        /\ GetSignatureEnd(sig, end, p) = end["type"][p + 1]
    BY <1>6 DEF TypeEnds, GetSignatureEnd, Basic, Numbers
  <2> QED
    BY <1>2, <1>3, <1>4, <1>6, <2>1 DEF ends, end
<1>7. CASE At(sig, p) = "("
  <2>1. /\ TypeEnds(sig, ends, p) = Closed(sig, ends["list"][p + 1], ")")
        /\ GetSignatureEnd(sig, end, p) = end["fields"][p + 1]
    BY <1>7 DEF TypeEnds, GetSignatureEnd, Basic, Numbers
  <2> QED
    BY <1>2, <1>3, <1>4, <1>7, <2>1 DEF ends, end
<1>8. CASE At(sig, p) = "{"
  <2> DEFINE first == end["type"][p + 1]
             second == end["type"][first]
             Second == UNION {ends["type"][k] : k \in ends["type"][p + 1]}
  <2>1. /\ TypeEnds(sig, ends, p) = Closed(sig, Second, "}")
        /\ GetSignatureEnd(sig, end, p) = DictEnd(sig, second)
    BY <1>8 DEF TypeEnds, GetSignatureEnd, Basic, Numbers
  <2>2. ends["type"][p + 1] = AtMost(first) /\ first \in Later(sig, p + 1)
    BY <1>4, <1>8, EndsDef DEF Solves, EndsLater, end
  <2>3. Second = AtMost(second)
    <3>1. CASE first = Bad
      <4>1. Second = {}
        BY <2>2, <3>1 DEF AtMost
      <4>2. second \in Later(sig, Bad)
        BY <1>1, <3>1, EndsDef DEF Solves, EndsLater, end, Bad
      <4> HIDE DEF second
      <4> QED
        BY <4>1, <4>2 DEF AtMost, Later
    <3>2. CASE first # Bad
      <4> HIDE DEF first
      <4>1. first \in p + 1 .. Len(sig) + 1
        BY <1>1, <2>2, <3>2 DEF Later, Bad
      <4>2. Second = ends["type"][first]
        BY <2>2, <3>2 DEF AtMost
      <4> QED
        BY <4>1, <4>2 DEF Recognised, ends, end
    <3> QED
      BY <3>1, <3>2
  <2>4. Closed(sig, AtMost(second), "}") = AtMost(DictEnd(sig, second))
    <3>1. first \in 0 .. Len(sig) + 1
      <4> HIDE DEF first
      <4> QED
        BY <1>1, <2>2 DEF Later, Bad
    <3>2. second \in Later(sig, first)
      BY <3>1, EndsDef DEF Solves, EndsLater, end
    <3> HIDE DEF first, second
    <3>3. second \in Nat
      BY <1>1, <3>1, <3>2 DEF Later, Bad
    <3>4. CASE second = Bad
      <4>1. At(sig, second) # "}"
        BY <3>4 DEF At, Bad
      <4> QED
        BY <3>4, <4>1, ClosedNone DEF AtMost, DictEnd
    <3>5. CASE second # Bad
      <4>1. second + 1 # Bad
        BY <3>3 DEF Bad
      <4>2. AtMost(second) = {second}
        BY <3>5 DEF AtMost
      <4>3. AtMost(DictEnd(sig, second)) = IF At(sig, second) = "}" THEN {second + 1} ELSE {}
        BY <4>1 DEF DictEnd, AtMost
      <4> QED
        BY <4>2, <4>3, ClosedOne
    <3> QED
      BY <3>4, <3>5
  <2> HIDE DEF first, second, Second
  <2> QED
    BY <1>2, <1>3, <2>1, <2>3, <2>4 DEF ends, end
<1>9. CASE At(sig, p) \notin Basic \cup {"h", "v", "a", "(", "{"}
  <2>1. TypeEnds(sig, ends, p) = {} /\ GetSignatureEnd(sig, end, p) = Bad
    BY <1>9 DEF TypeEnds, GetSignatureEnd
  <2> QED
    BY <1>2, <1>3, <2>1 DEF AtMost, ends, end
<1> QED
  BY <1>5, <1>6, <1>7, <1>8, <1>9

LEMMA FieldsRecognised ==
  ASSUME NEW sig \in Seq(STRING), NEW p \in 1 .. Len(sig) + 1,
         \A q \in p + 1 .. Len(sig) + 1 : Recognised(sig, q),
         Phrases(sig)["type"][p] = AtMost(Ends(sig)["type"][p])
  PROVE  Closed(sig, Phrases(sig)["list"][p], ")") = AtMost(Ends(sig)["fields"][p])
<1> DEFINE ends == Phrases(sig)
           end == Ends(sig)
           next == end["type"][p]
           rest == UNION {ends["list"][k] : k \in ends["type"][p]}
<1>1. Len(sig) \in Nat /\ p \in 0 .. Len(sig) + 1 /\ p \in Nat /\ 0 \in 0 .. Len(sig) + 1
  OBVIOUS
<1>2. ends["list"][p] = {p} \cup rest /\ ends["type"][p] = TypeEnds(sig, ends, p)
  BY PhrasesDef DEF Derives, ListEnds
<1>3. end["fields"][p] = StructEnd(sig, end, p)
  BY <1>1, EndsDef DEF Solves
<1>4. next \in Later(sig, p)
  BY <1>1, EndsDef DEF Solves, EndsLater
<1>5. Closed(sig, ends["list"][p], ")") = Closed(sig, {p}, ")") \cup Closed(sig, rest, ")")
  <2> HIDE DEF rest, ends
  <2> QED
    BY <1>2, ClosedBoth
<1>6. CASE At(sig, p) = ")" \/ At(sig, p) = "end"
  <2>1. TypeEnds(sig, ends, p) = {}
    BY <1>6 DEF TypeEnds, Basic, Numbers
  <2>2. rest = {}
    BY <1>2, <2>1
  <2>3. Closed(sig, ends["list"][p], ")") = IF At(sig, p) = ")" THEN {p + 1} ELSE {}
    <3> HIDE DEF rest, ends
    <3> QED
      BY <1>5, <2>2, ClosedOne, ClosedNone
  <2>4. StructEnd(sig, end, p) = IF At(sig, p) = ")" THEN p + 1 ELSE Bad
    BY <1>6 DEF StructEnd
  <2>5. p + 1 # Bad
    BY <1>1 DEF Bad
  <2> HIDE DEF ends, end
  <2>6. AtMost(end["fields"][p]) = IF At(sig, p) = ")" THEN {p + 1} ELSE {}
    BY <1>3, <2>4, <2>5 DEF AtMost
  <2> QED
    BY <2>3, <2>6 DEF ends, end
<1>7. CASE At(sig, p) # ")" /\ At(sig, p) # "end"
  <2>1. StructEnd(sig, end, p) = end["fields"][next]
    BY <1>7 DEF StructEnd
  <2>2. Closed(sig, ends["list"][p], ")") = Closed(sig, rest, ")")
    <3> HIDE DEF rest, ends
    <3> QED
      BY <1>5, <1>7, ClosedOne
  <2>3. CASE next = Bad
    <3>1. rest = {}
      BY <2>3 DEF AtMost
    <3>2. end["fields"][Bad] \in Later(sig, Bad)
      BY <1>1, EndsDef DEF Solves, EndsLater, Bad
    <3> HIDE DEF rest, ends, end, next
    <3> QED
      BY <1>3, <2>1, <2>2, <2>3, <3>1, <3>2, ClosedNone DEF AtMost, Later, ends, end
  <2>4. CASE next # Bad
    <3>1. rest = ends["list"][next]
      BY <2>4 DEF AtMost
    <3>2. next \in p + 1 .. Len(sig) + 1
      <4> HIDE DEF next
      <4> QED
        BY <1>1, <1>4, <2>4 DEF Later, Bad
    <3>3. Closed(sig, ends["list"][next], ")") = AtMost(end["fields"][next])
      <4> HIDE DEF next
      <4> QED
        BY <3>2 DEF Recognised
    <3> HIDE DEF rest, next, ends, end
    <3> QED
      BY <1>3, <2>1, <2>2, <3>1, <3>3 DEF ends, end
  <2> QED
    BY <2>3, <2>4
<1> QED
  BY <1>6, <1>7

(* getSignatureEnd consumes the whole of a signature exactly when D-Bus's grammar  *)
(* derives it as one complete type, whatever the signature.                      *)
THEOREM TypesRecognised ==
  ASSUME NEW sig \in Seq(STRING)
  PROVE  OneType(sig) <=> CompleteType(sig)
<1> DEFINE n == Len(sig) + 1
           S == {p \in 0 .. n : p # 0 => Recognised(sig, p)}
<1>1. n \in Nat /\ n = Len(sig) + 1 /\ n # Bad /\ 1 \in 0 .. n /\ 1 # 0
  BY DEF Bad
<1>2. ASSUME NEW m \in 0 .. n, \A k \in m + 1 .. n : k \in S PROVE m \in S
  <2>1. SUFFICES ASSUME m # 0 PROVE Recognised(sig, m)
    BY <1>2
  <2>2. m \in 1 .. Len(sig) + 1 /\ m \in 1 .. n
    BY <1>1, <2>1
  <2>3. \A q \in m + 1 .. Len(sig) + 1 : Recognised(sig, q)
    BY <1>2, <2>2
  <2>4. Phrases(sig)["type"][m] = AtMost(Ends(sig)["type"][m])
    BY <2>2, <2>3, TypeRecognised
  <2> QED
    BY <2>2, <2>3, <2>4, FieldsRecognised DEF Recognised
<1>3. \A p \in 0 .. n : p \in S
  <2> HIDE DEF S, n
  <2> QED
    BY <1>1, <1>2, Downwards
<1>4. Phrases(sig)["type"][1] = AtMost(Ends(sig)["type"][1])
  BY <1>1, <1>3 DEF Recognised
<1> QED
  BY <1>1, <1>4 DEF OneType, CompleteType, AtMost

--------------------------------------------------------------------------------
(* A walk that only goes on, or stops at 0, visits something.                   *)
LEMMA WalkDef ==
  ASSUME NEW n \in Nat, NEW D, D \subseteq 1 .. n, NEW next \in [D -> Nat],
         \A p \in D : next[p] = 0 \/ p < next[p]
  PROVE  \A p \in Nat :
           /\ Walk(next)[p] \in Seq(Nat)
           /\ p \in D => Walk(next)[p] = <<p>> \o Walk(next)[next[p]]
           /\ p \notin D => Walk(next)[p] = << >>
<1> DEFINE Step(walk, p) == IF p \in DOMAIN next THEN <<p>> \o walk[next[p]] ELSE << >>
           Maps == [Nat -> Seq(Nat)]
           S == {m \in 0 .. n + 1 : \E walk \in Maps :
                   \A p \in Nat : m <= p \/ p = 0 => walk[p] = Step(walk, p)}
<1>1. n + 1 \in Nat /\ DOMAIN next = D /\ 0 \notin D
  OBVIOUS
<1>2. ASSUME NEW m \in 0 .. n + 1, \A k \in m + 1 .. n + 1 : k \in S PROVE m \in S
  <2>1. CASE m = n + 1
    <3> DEFINE none == [p \in Nat |-> << >>]
    <3>1. none \in Maps
      OBVIOUS
    <3>2. \A p \in Nat : m <= p \/ p = 0 => p \notin D
      BY <2>1
    <3>3. \A p \in Nat : m <= p \/ p = 0 => none[p] = Step(none, p)
      BY <1>1, <3>2
    <3> HIDE DEF none, Maps, Step
    <3> QED
      BY <3>1, <3>3
  <2>2. CASE m = 0
    <3>1. 1 \in m + 1 .. n + 1
      BY <2>2
    <3> HIDE DEF Maps, Step
    <3>2. PICK walk \in Maps : \A p \in Nat : 1 <= p \/ p = 0 => walk[p] = Step(walk, p)
      BY <1>2, <3>1
    <3>3. \A p \in Nat : 1 <= p \/ p = 0
      OBVIOUS
    <3> QED
      BY <2>2, <3>2, <3>3
  <2>3. CASE m \in 1 .. n
    <3>1. m + 1 \in m + 1 .. n + 1 /\ m \in Nat
      BY <2>3
    <3>2. PICK walk \in Maps : \A p \in Nat : m + 1 <= p \/ p = 0 => walk[p] = Step(walk, p)
      BY <1>2, <3>1
    <3> DEFINE here == Step(walk, m)
               more == [walk EXCEPT ![m] = here]
    <3>3. here \in Seq(Nat)
      <4>1. CASE m \in D
        <5>1. walk[next[m]] \in Seq(Nat) /\ <<m>> \in Seq(Nat)
          BY <3>1, <4>1
        <5>2. here = <<m>> \o walk[next[m]]
          BY <1>1, <4>1
        <5> HIDE DEF here
        <5> QED
          BY <5>1, <5>2
      <4>2. CASE m \notin D
        BY <1>1, <4>2
      <4> QED
        BY <4>1, <4>2
    <3>4. more \in Maps /\ more[m] = here /\ \A p \in Nat \ {m} : more[p] = walk[p]
      <4> HIDE DEF here
      <4> QED
        BY <3>1, <3>3
    <3>5. ASSUME NEW p \in Nat, m <= p \/ p = 0 PROVE more[p] = Step(more, p)
      <4>1. p \in D => next[p] \in Nat \ {m}
        <5>1. SUFFICES ASSUME p \in D PROVE next[p] \in Nat /\ next[p] # m
          OBVIOUS
        <5>2. next[p] \in Nat /\ (next[p] = 0 \/ p < next[p])
          BY <5>1
        <5>3. m <= p
          BY <1>1, <3>5, <5>1
        <5>4. next[p] # m
          <6> HIDE DEF here, more, Step
          <6>1. CASE next[p] = 0
            BY <2>3, <6>1
          <6>2. CASE p < next[p]
            BY <3>1, <5>2, <5>3, <6>2
          <6> QED
            BY <5>2, <6>1, <6>2
        <5> QED
          BY <5>2, <5>4
      <4>2. Step(more, p) = Step(walk, p)
        <5> HIDE DEF more
        <5> QED
          BY <1>1, <3>4, <4>1
      <4>3. CASE p = m
        <5> HIDE DEF Step, more
        <5> QED
          BY <3>4, <4>2, <4>3
      <4>4. CASE p # m
        <5>1. m + 1 <= p \/ p = 0
          BY <3>1, <3>5, <4>4
        <5>2. more[p] = walk[p]
          BY <3>4, <4>4
        <5> HIDE DEF Step, more
        <5> QED
          BY <3>2, <4>2, <5>1, <5>2
      <4> QED
        BY <4>3, <4>4
    <3> HIDE DEF more, here, Step, Maps
    <3> QED
      BY <3>4, <3>5
  <2>4. m = n + 1 \/ m = 0 \/ m \in 1 .. n
    OBVIOUS
  <2> HIDE DEF S
  <2> QED
    BY <2>1, <2>2, <2>3, <2>4
<1>3. \A m \in 0 .. n + 1 : m \in S
  <2> HIDE DEF S
  <2> QED
    BY <1>1, <1>2, Downwards
<1>4. PICK walk \in Maps : \A p \in Nat : 0 <= p \/ p = 0 => walk[p] = Step(walk, p)
  <2>1. 0 \in 0 .. n + 1
    OBVIOUS
  <2>2. 0 \in S
    <3> HIDE DEF S
    <3> QED
      BY <1>3, <2>1
  <2> QED
    BY <2>2
<1>5. walk = [p \in Nat |-> Step(walk, p)]
  <2>0. \A p \in Nat : 0 <= p
    OBVIOUS
  <2> HIDE DEF Step
  <2>1. \A p \in Nat : walk[p] = Step(walk, p)
    BY <1>4, <2>0
  <2> QED
    BY <1>4, <2>1
<1>6. Walk(next) = [p \in Nat |-> Step(Walk(next), p)]
  BY <1>5, Zenon DEF Walk
<1>7. PICK w : w = Walk(next)
  OBVIOUS
<1>8. \A p \in Nat : (p \in D => w[p] = <<p>> \o w[next[p]]) /\ (p \notin D => w[p] = << >>)
  <2>1. w = [p \in Nat |-> Step(w, p)]
    BY <1>6, <1>7
  <2>2. \A p \in Nat : w[p] = Step(w, p)
    <3> HIDE DEF Step
    <3> QED
      BY <2>1
  <2> QED
    BY <1>1, <2>2
<1> DEFINE G == {m \in 0 .. n + 1 : \A p \in Nat : m <= p \/ p = 0 => w[p] \in Seq(Nat)}
<1>9. ASSUME NEW m \in 0 .. n + 1, \A k \in m + 1 .. n + 1 : k \in G PROVE m \in G
  <2>1. ASSUME NEW p \in Nat, m <= p \/ p = 0 PROVE w[p] \in Seq(Nat)
    <3>1. CASE p \in D
      <4>1. CASE next[p] = 0
        <5>1. w[0] = << >>
          BY <1>1, <1>8
        <5>2. w[p] = <<p>> \o << >>
          BY <1>8, <3>1, <4>1, <5>1
        <5>3. <<p>> \in Seq(Nat) /\ << >> \in Seq(Nat)
          OBVIOUS
        <5> QED
          BY <5>2, <5>3
      <4>2. CASE p < next[p]
        <5>1. m + 1 \in m + 1 .. n + 1 /\ m + 1 <= next[p] /\ next[p] \in Nat
          BY <2>1, <3>1, <4>2
        <5>2. m + 1 \in G
          <6> HIDE DEF G
          <6> QED
            BY <1>9, <5>1
        <5>3. w[next[p]] \in Seq(Nat)
          BY <5>1, <5>2
        <5>4. w[p] = <<p>> \o w[next[p]]
          BY <1>8, <3>1
        <5>5. <<p>> \in Seq(Nat)
          OBVIOUS
        <5> QED
          BY <5>3, <5>4, <5>5
      <4> QED
        BY <3>1, <4>1, <4>2
    <3>2. CASE p \notin D
      <4>1. w[p] = << >>
        BY <1>8, <3>2
      <4>2. << >> \in Seq(Nat)
        OBVIOUS
      <4> QED
        BY <4>1, <4>2
    <3> QED
      BY <3>1, <3>2
  <2> QED
    BY <2>1
<1>10. \A m \in 0 .. n + 1 : m \in G
  <2> HIDE DEF G
  <2> QED
    BY <1>1, <1>9, Downwards
<1>11. \A p \in Nat : w[p] \in Seq(Nat)
  <2>1. 0 \in 0 .. n + 1
    OBVIOUS
  <2>2. 0 \in G
    <3> HIDE DEF G
    <3> QED
      BY <1>10, <2>1
  <2> QED
    BY <2>2
<1> QED
  BY <1>7, <1>8, <1>11

LEMMA FieldsAreSequence ==
  ASSUME NEW sig \in Seq(STRING), NEW p \in Nat
  PROVE  Fields(sig, p) \in Seq(Nat)
<1> DEFINE D == {k \in DOMAIN sig : sig[k] # ")"}
           next == [q \in D |-> Ends(sig)["type"][q]]
<1>1. Len(sig) \in Nat /\ D \subseteq 1 .. Len(sig)
  OBVIOUS
<1>2. ASSUME NEW q \in D PROVE next[q] \in Nat /\ (next[q] = 0 \/ q < next[q])
  <2>1. q \in 0 .. Len(sig) + 1 /\ q # Bad /\ q \in Nat
    BY <1>1 DEF Bad
  <2>2. next[q] \in Later(sig, q)
    BY <2>1, EndsDef DEF Solves, EndsLater
  <2> HIDE DEF next, D
  <2> QED
    BY <1>1, <2>1, <2>2 DEF Later, Bad
<1>3. next \in [D -> Nat]
  <2>1. next = [q \in D |-> next[q]]
    OBVIOUS
  <2> HIDE DEF next, D
  <2> QED
    BY <1>2, <2>1
<1>4. Walk(next)[p] \in Seq(Nat)
  <2> HIDE DEF next, D
  <2> QED
    BY <1>1, <1>2, <1>3, WalkDef
<1> QED
  BY <1>4 DEF Fields

(* When nothing follows a plain value, the loops visit every element.            *)
LEMMA ReadAllReadsEach ==
  ASSUME NEW T, NEW elements \in Seq(T), Spaced(elements), NEW read
  PROVE  ReadAll(read, elements) = [i \in 1 .. Len(elements) |-> read[elements[i]]]
<1> DEFINE n == Len(elements)
           From(k) == [i \in 1 .. n - k + 1 |-> k + i - 1]
           <1>0. PICK next : next = [k \in DOMAIN elements |-> k + Following(elements[k])]
  OBVIOUS
<1>1. n \in Nat /\ DOMAIN elements = 1 .. n
  OBVIOUS
<1>2. ASSUME NEW k \in 1 .. n
      PROVE  (next[k] = k + 1 \/ next[k] = k + 2) /\ (k # n => next[k] = k + 1)
  <2>1. next[k] = k + Following(elements[k])
    BY <1>0, <1>1
  <2>2. Following(elements[k]) \in {1, 2}
    BY DEF Following
  <2>3. k # n => Following(elements[k]) = 1
    BY <1>1 DEF Following, Spaced
  <2> HIDE DEF n
  <2> QED
    BY <1>1, <2>1, <2>2, <2>3
<1>3. next \in [1 .. n -> Nat] /\ \A k \in 1 .. n : next[k] = 0 \/ k < next[k]
  <2>1. next = [k \in 1 .. n |-> next[k]]
    BY <1>0, <1>1
  <2> HIDE DEF n
  <2> QED
    BY <1>2, <2>1
<1> HIDE DEF n
<1> DEFINE w == Walk(next)
<1>4. \A p \in Nat : (p \in 1 .. n => w[p] = <<p>> \o w[next[p]]) /\ (p \notin 1 .. n => w[p] = << >>)
  <2>1. PICK D : D = 1 .. n
    OBVIOUS
  <2>2. D \subseteq 1 .. n /\ next \in [D -> Nat] /\ \A p \in D : next[p] = 0 \/ p < next[p]
    BY <1>3, <2>1
  <2>3. \A p \in Nat : /\ Walk(next)[p] \in Seq(Nat)
                       /\ p \in D => Walk(next)[p] = <<p>> \o Walk(next)[next[p]]
                       /\ p \notin D => Walk(next)[p] = << >>
    BY <1>1, <2>2, WalkDef
  <2> HIDE DEF w
  <2>4. \A p \in Nat : (p \in D => w[p] = <<p>> \o w[next[p]]) /\ (p \notin D => w[p] = << >>)
    BY <2>3 DEF w
  <2>5. ASSUME NEW p \in Nat, p \in 1 .. n PROVE w[p] = <<p>> \o w[next[p]]
    BY <2>1, <2>4, <2>5
  <2>6. ASSUME NEW p \in Nat, p \notin 1 .. n PROVE w[p] = << >>
    BY <2>1, <2>4, <2>6
  <2> QED
    BY <2>5, <2>6
<1> HIDE DEF w
<1> DEFINE S == {k \in 0 .. n + 1 : k # 0 => w[k] = From(k)}
<1>5. ASSUME NEW m \in 0 .. n + 1, \A k \in m + 1 .. n + 1 : k \in S PROVE m \in S
  <2>1. CASE m = 0
    BY <2>1
  <2>2. CASE m = n + 1
    <3>0. m \in Nat /\ m \notin 1 .. n
      BY <1>1, <2>2
    <3>1. w[m] = << >>
      BY <1>4, <3>0
    <3>2. From(m) = << >>
      BY <1>1, <2>2
    <3> QED
      BY <3>1, <3>2
  <2>3. CASE m = n /\ m # 0
    <3>1. next[m] \in Nat /\ next[m] \notin 1 .. n
      BY <1>1, <1>2, <2>3
    <3>0. m \in Nat /\ m \in 1 .. n
      BY <1>1, <2>3
    <3>2. w[m] = <<m>> \o w[next[m]] /\ w[next[m]] = << >>
      BY <1>4, <3>0, <3>1
    <3>3. From(m) = <<m>>
      BY <1>1, <2>3
    <3>4. <<m>> \o << >> = <<m>>
      BY <3>0
    <3> HIDE DEF From
    <3> QED
      BY <3>2, <3>3, <3>4
  <2>4. CASE m \in 1 .. n - 1
    <3>1. m + 1 \in m + 1 .. n + 1 /\ m + 1 # 0
      BY <1>1, <2>4
    <3>2. m + 1 \in S
      <4> HIDE DEF S
      <4> QED
        BY <1>5, <3>1
    <3>0. m \in Nat /\ m \in 1 .. n /\ m # n
      BY <1>1, <2>4
    <3>3. w[m] = <<m>> \o w[next[m]] /\ next[m] = m + 1 /\ w[m + 1] = From(m + 1)
      <4>1. w[m + 1] = From(m + 1)
        BY <3>1, <3>2
      <4> HIDE DEF From
      <4> QED
        BY <1>2, <1>4, <3>0, <4>1
    <3>4. <<m>> \o From(m + 1) = From(m)
      <4>1. From(m + 1) \in Seq(Nat) /\ Len(From(m + 1)) = n - m
        BY <1>1, <2>4
      <4>2. From(m) \in Seq(Nat) /\ Len(From(m)) = n - m + 1
        BY <1>1, <2>4
      <4>3. \A i \in 1 .. n - m + 1 : From(m)[i] = m + i - 1
        BY <1>1, <2>4
      <4>4. \A i \in 1 .. n - m : From(m + 1)[i] = m + i
        BY <1>1, <2>4
      <4> HIDE DEF From
      <4>5. <<m>> \o From(m + 1) \in Seq(Nat) /\ Len(<<m>> \o From(m + 1)) = n - m + 1
        BY <1>1, <2>4, <4>1
      <4>6. ASSUME NEW i \in 1 .. n - m + 1 PROVE (<<m>> \o From(m + 1))[i] = m + i - 1
        <5>1. CASE i = 1
          BY <1>1, <2>4, <4>1, <5>1
        <5>2. CASE i # 1
          <6>1. i - 1 \in 1 .. n - m
            BY <1>1, <2>4, <5>2
          <6>2. (<<m>> \o From(m + 1))[i] = From(m + 1)[i - 1]
            BY <1>1, <2>4, <4>1, <5>2
          <6> QED
            BY <1>1, <2>4, <4>4, <6>1, <6>2
        <5> QED
          BY <5>1, <5>2
      <4>7. n - m + 1 \in Nat
        BY <1>1, <2>4
      <4> DEFINE l == n - m + 1
                 both == <<m>> \o From(m + 1)
                 all == From(m)
      <4>8. Len(both) = l /\ Len(all) = l /\ \A i \in 1 .. l : both[i] = all[i]
        BY <4>2, <4>3, <4>5, <4>6
      <4>9. both \in Seq(Nat) /\ all \in Seq(Nat) /\ l \in Nat
        BY <4>2, <4>5, <4>7
      <4> HIDE DEF both, all, l
      <4>10. both = all
        BY <4>8, <4>9
      <4> QED
        BY <4>10 DEF both, all
    <3> HIDE DEF From
    <3> QED
      BY <3>3, <3>4
  <2> QED
    BY <1>1, <2>1, <2>2, <2>3, <2>4
<1>6. \A m \in 0 .. n + 1 : m \in S
  <2>1. n + 1 \in Nat
    BY <1>1
  <2> HIDE DEF S, n
  <2> QED
    BY <2>1, <1>5, Downwards
<1>7. w[1] = [i \in 1 .. n |-> i]
  <2>1. 1 \in 0 .. n + 1 /\ 1 # 0
    BY <1>1
  <2>2. w[1] = From(1)
    <3>1. 1 \in S
      <4> HIDE DEF S
      <4> QED
        BY <1>6, <2>1
    <3> QED
      BY <2>1, <3>1
  <2>3. n - 1 + 1 = n /\ \A i \in 1 .. n : 1 + i - 1 = i
    BY <1>1
  <2>4. From(1) = [i \in 1 .. n |-> i]
    <3> HIDE DEF n
    <3> QED
      BY <2>3
  <2> QED
    BY <2>2, <2>4
<1> DEFINE visited == w[1]
<1>8. ReadAll(read, elements) = [i \in DOMAIN visited |-> read[elements[visited[i]]]]
  BY <1>0 DEF ReadAll, w
<1>9. DOMAIN visited = 1 .. n /\ \A i \in 1 .. n : visited[i] = i
  BY <1>7
<1> HIDE DEF visited
<1> QED
  BY <1>8, <1>9 DEF n

--------------------------------------------------------------------------------
(* What the nodes of a tree hold.                                             *)
LEMMA TreeKinds ==
  ASSUME NEW d \in 1 .. Nesting, NEW v \in Trees[d]
  PROVE
    /\ v.t = "number" => v.n \in Int /\ v = Number(v.n)
    /\ v.t = "boolean" => v.b \in BOOLEAN /\ v = Boolean(v.b)
    /\ v.t = "string" => v.s \in Seq(STRING) /\ v = String(v.s)
    /\ v.t = "array" => v.sub \in Seq(Trees[d - 1]) /\ v = Array(v.sub)
    /\ v.t = "object" => v.sub \in Seq(Trees[d - 1]) /\ v = Object(v.sub)
    /\ v.t = "property" => /\ v.sub \in Trees[d - 1] \X Trees[d - 1]
                           /\ v = Property(v.sub[1], v.sub[2])
<1> DEFINE T == Trees[d - 1]
<1>1. Trees[d] = Leaves \cup [t : {"array", "object", "a", "a{"}, sub : Seq(T)]
         \cup [t : {"("}, sub : Seq(T), unsent : Nat]
         \cup [t : {"property", "{", "v"}, sub : T \X T]
  BY TreesDef
<1> HIDE DEF T
<1>2. CASE v \in Leaves
  BY <1>2 DEF Leaves, Numbers, Number, Boolean, String, Refused
<1>3. CASE v \in [t : {"array", "object", "a", "a{"}, sub : Seq(T)]
  BY <1>3 DEF Array, Object, T
<1>4. CASE v \in [t : {"("}, sub : Seq(T), unsent : Nat]
  BY <1>4
<1>5. CASE v \in [t : {"property", "{", "v"}, sub : T \X T]
  <2>1. v.t \in {"property", "{", "v"} /\ v.sub \in T \X T /\ v = [t |-> v.t, sub |-> v.sub]
    BY <1>5
  <2>2. PICK both : both = v.sub
    OBVIOUS
  <2>3. both = <<both[1], both[2]>>
    <3>1. both \in T \X T
      BY <2>1, <2>2
    <3> QED
      BY <3>1
  <2>4. v.t = "property" => v = [t |-> "property", sub |-> both]
    BY <2>1, <2>2
  <2> QED
    BY <2>1, <2>2, <2>3, <2>4 DEF Property, T
<1> QED
  BY <1>1, <1>2, <1>3, <1>4, <1>5

(* And those of the elements whose values come back.                          *)
LEMMA PreservedKinds ==
  ASSUME NEW d \in 1 .. Nesting, NEW e \in Preserved[d]
  PROVE
    /\ e.t \in Numbers => e.n \in -Half .. Half - 1
    /\ e.t # "b" /\ e.t # Refused
    /\ e.t = "a" => e.sub \in Seq(Preserved[d - 1]) /\ Spaced(e.sub)
    /\ e.t = "(" => e.sub \in Seq(Preserved[d - 1]) /\ Spaced(e.sub) /\ e.unsent = 0
    /\ e.t = "a{" => e.sub \in Seq(Preserved[d - 1])
    /\ e.t \in {"{", "v"} => e.sub \in [t : {"s"}, s : Seq(STRING)] \X Preserved[d - 1]
<1> DEFINE P == Preserved[d - 1]
<1>1. Preserved[d] = [t : Numbers, n : -Half .. Half - 1] \cup [t : {"s"}, s : Seq(STRING)]
         \cup [t : {"{", "v"}, sub : [t : {"s"}, s : Seq(STRING)] \X P]
         \cup [t : {"a{"}, sub : Seq(P)]
         \cup {x \in [t : {"a"}, sub : Seq(P)]
                       \cup [t : {"("}, sub : Seq(P), unsent : {0}] : Spaced(x.sub)}
  BY PreservedDef
<1> HIDE DEF P
<1>2. CASE e \in [t : Numbers, n : -Half .. Half - 1] \cup [t : {"s"}, s : Seq(STRING)]
  BY <1>2 DEF Numbers, Refused
<1>3. CASE e \in [t : {"{", "v"}, sub : [t : {"s"}, s : Seq(STRING)] \X P]
  <2>1. e.t \in {"{", "v"} /\ e.sub \in [t : {"s"}, s : Seq(STRING)] \X P
    BY <1>3
  <2> QED
    BY <2>1 DEF Numbers, Refused, P
<1>4. CASE e \in [t : {"a{"}, sub : Seq(P)]
  BY <1>4 DEF Numbers, Refused, P
<1>5. CASE e \in {x \in [t : {"a"}, sub : Seq(P)]
                          \cup [t : {"("}, sub : Seq(P), unsent : {0}] : Spaced(x.sub)}
  <2>1. Spaced(e.sub)
    BY <1>5
  <2>2. e \in [t : {"a"}, sub : Seq(P)] \/ e \in [t : {"("}, sub : Seq(P), unsent : {0}]
    BY <1>5
  <2> QED
    BY <2>1, <2>2 DEF Numbers, Refused, P
<1> QED
  BY <1>1, <1>2, <1>3, <1>4, <1>5

(* A number of up to 31 bits is one of JavaScript's.                           *)
LEMMA SmallNumbers == ASSUME NEW n \in -Half .. Half - 1 PROVE Int32(n) = n
<1>1. PICK m \in Nat \ {0} : m = 2 * Half
  BY DBusCallsAssumption
<1>2. PICK x \in 0 .. m - 1 : x = n + Half
  BY <1>1, DBusCallsAssumption
<1>3. x % m = x
  BY <1>1, <1>2
<1> QED
  BY <1>1, <1>2, <1>3, DBusCallsAssumption DEF Int32

(* What is written for a value that is nested at most d deep is nested as deep; *)
(* when it is preserved, what is read of it is the value.                       *)
Returned(d) ==
  \A sig \in Seq(STRING), p \in Nat, v \in Trees[d] :
    /\ WriteValue[d][<<sig, p, v>>] \in Trees[d]
    /\ WriteValue[d][<<sig, p, v>>] \in Preserved[d] =>
         ReadValue[d][WriteValue[d][<<sig, p, v>>]] = v

(* The same of a single value, with what its parts are written and read by.     *)
Comes(d, sig, p, v) ==
  LET e == Writing(WriteValue[d - 1], sig, p, v)
  IN  e \in Trees[d] /\ (e \in Preserved[d] => Reading(ReadValue[d - 1], e) = v)

LEMMA RefusedComes ==
  ASSUME NEW d \in 1 .. Nesting
  PROVE  [t |-> Refused] \in Trees[d] /\ [t |-> Refused] \notin Preserved[d]
<1>1. [t |-> Refused] \in Trees[d]
  BY TreesDef DEF Leaves
<1>2. [t |-> Refused] \notin Preserved[d]
  BY PreservedKinds
<1> QED
  BY <1>1, <1>2

(* Leaves.                                                                  *)
LEMMA LeafComes ==
  ASSUME NEW d \in 1 .. Nesting, NEW sig \in Seq(STRING), NEW p \in Nat, NEW v \in Trees[d],
         At(sig, p) \in Basic
  PROVE  Comes(d, sig, p, v)
<1> DEFINE token == At(sig, p)
           e == Writing(WriteValue[d - 1], sig, p, v)
<1>1. CASE token \in Numbers /\ v.t = "number" /\ v.n \in Width(token)
  <2>1. e = [t |-> token, n |-> v.n]
    BY <1>1 DEF Writing, Numbers
  <2>2. v.n \in Int /\ v = Number(v.n)
    BY <1>1, TreeKinds
  <2>3. e \in Trees[d]
    <3>1. e \in Leaves
      BY <1>1, <2>1, <2>2 DEF Leaves
    <3> QED
      BY <3>1, TreesDef
  <2>4. ASSUME e \in Preserved[d] PROVE Reading(ReadValue[d - 1], e) = v
    <3>1. e.t \in Numbers /\ e.n = v.n
      BY <1>1, <2>1
    <3>2. e.n \in -Half .. Half - 1
      BY <2>4, <3>1, PreservedKinds
    <3>3. Int32(e.n) = v.n
      BY <3>1, <3>2, SmallNumbers
    <3>4. Reading(ReadValue[d - 1], e) = Number(Int32(e.n))
      <4> HIDE DEF e
      <4> QED
        BY <3>1 DEF Reading, Numbers
    <3> QED
      BY <2>2, <3>3, <3>4
  <2> QED
    BY <2>3, <2>4 DEF Comes
<1>2. CASE token = "b" /\ v.t = "boolean"
  <2>1. e = [t |-> "b", b |-> v.b]
    BY <1>2 DEF Writing, Numbers
  <2>2. v.b \in BOOLEAN
    BY <1>2, TreeKinds
  <2>3. e \in Trees[d]
    <3>1. e \in Leaves
      BY <2>1, <2>2 DEF Leaves
    <3> QED
      BY <3>1, TreesDef
  <2>4. e \notin Preserved[d]
    <3>1. e.t = "b"
      BY <2>1
    <3> HIDE DEF e
    <3> QED
      BY <3>1, PreservedKinds
  <2> QED
    BY <2>3, <2>4 DEF Comes
<1>3. CASE token = "s" /\ v.t = "string"
  <2>1. e = [t |-> "s", s |-> v.s]
    BY <1>3 DEF Writing, Numbers
  <2>2. v.s \in Seq(STRING) /\ v = String(v.s)
    BY <1>3, TreeKinds
  <2>3. e \in Trees[d]
    <3>1. e \in Leaves
      BY <2>1, <2>2 DEF Leaves
    <3> QED
      BY <3>1, TreesDef
  <2>4. Reading(ReadValue[d - 1], e) = String(e.s) /\ e.s = v.s
    <3>1. e.t = "s" /\ e.s = v.s
      BY <2>1
    <3> HIDE DEF e
    <3> QED
      BY <3>1 DEF Reading, Numbers
  <2> QED
    BY <2>2, <2>3, <2>4 DEF Comes
<1>4. CASE /\ ~ (token \in Numbers /\ v.t = "number" /\ v.n \in Width(token))
           /\ ~ (token = "b" /\ v.t = "boolean") /\ ~ (token = "s" /\ v.t = "string")
  <2>1. e = [t |-> Refused]
    BY <1>4 DEF Writing, Basic, Numbers
  <2> QED
    BY <2>1, RefusedComes DEF Comes
<1> QED
  BY <1>1, <1>2, <1>3, <1>4


(* What is written for the first n parts of a value, each by the type at its     *)
(* position.                                                                *)
PartsOf(d, sig, at, items, n) == [k \in 1 .. n |-> WriteValue[d - 1][<<sig, at[k], items[k]>>]]

LEMMA PartsCome ==
  ASSUME NEW d \in 1 .. Nesting, Returned(d - 1), NEW sig \in Seq(STRING),
         NEW items \in Seq(Trees[d - 1]), NEW n \in Nat, n <= Len(items),
         NEW at \in [1 .. n -> Nat]
  PROVE  /\ PartsOf(d, sig, at, items, n) \in Seq(Trees[d - 1])
         /\ Len(PartsOf(d, sig, at, items, n)) = n
         /\ \A k \in 1 .. n :
              PartsOf(d, sig, at, items, n)[k] \in Preserved[d - 1] =>
                ReadValue[d - 1][PartsOf(d, sig, at, items, n)[k]] = items[k]
<1> DEFINE T == Trees[d - 1]
           P == Preserved[d - 1]
           R == ReadValue[d - 1]
           parts == PartsOf(d, sig, at, items, n)
<1>1. ASSUME NEW k \in 1 .. n
      PROVE  parts[k] \in T /\ (parts[k] \in P => R[parts[k]] = items[k])
  <2>1. items[k] \in T /\ at[k] \in Nat
    OBVIOUS
  <2>2. parts[k] = WriteValue[d - 1][<<sig, at[k], items[k]>>]
    BY DEF PartsOf
  <2> QED
    BY <2>1, <2>2 DEF Returned
<1>2. parts = [k \in 1 .. n |-> parts[k]]
  BY DEF PartsOf
<1> HIDE DEF T, P, R, parts
<1>3. parts \in Seq(T) /\ Len(parts) = n
  <2>1. parts \in [1 .. n -> T]
    BY <1>1, <1>2
  <2> QED
    BY <2>1
<1> QED
  BY <1>1, <1>3 DEF T, P, R, parts

LEMMA OneOrRefused == ASSUME NEW e PROVE Checked(e) = e \/ Checked(e) = [t |-> Refused]
BY DEF Checked

(* An array.                                                                *)
LEMMA ArrayComes ==
  ASSUME NEW d \in 1 .. Nesting, Returned(d - 1), NEW sig \in Seq(STRING), NEW p \in Nat,
         NEW v \in Trees[d], At(sig, p) = "a"
  PROVE  Comes(d, sig, p, v)
<1>0. PICK e : e = Writing(WriteValue[d - 1], sig, p, v)
  OBVIOUS
<1> DEFINE each == [k \in DOMAIN v.sub |-> WriteValue[d - 1][<<sig, p + 1, v.sub[k]>>]]
<1>1. ASSUME v.t \in {"array", "object"}
      PROVE  /\ v.sub \in Seq(Trees[d - 1]) /\ each \in Seq(Trees[d - 1])
             /\ each \in Seq(Preserved[d - 1]) =>
                  v.sub = [k \in 1 .. Len(each) |-> ReadValue[d - 1][each[k]]]
  <2>1. v.sub \in Seq(Trees[d - 1])
    BY <1>1, TreeKinds
  <2>0. PICK items : items = v.sub
    OBVIOUS
  <2>2. PICK n \in Nat : items = v.sub /\ n = Len(v.sub)
    BY <2>0, <2>1
  <2>3. items \in Seq(Trees[d - 1]) /\ DOMAIN items = 1 .. n /\ n = Len(items) /\ n <= Len(items)
    BY <2>1, <2>2
  <2>4. PICK at : at = [k \in 1 .. n |-> p + 1]
    OBVIOUS
  <2>5. at \in [1 .. n -> Nat] /\ \A k \in 1 .. n : at[k] = p + 1
    BY <2>4
  <2>6. PICK parts : parts = PartsOf(d, sig, at, items, n)
    OBVIOUS
  <2>7. each = parts
    BY <2>2, <2>3, <2>5, <2>6 DEF PartsOf
  <2> HIDE DEF each
  <2>8. /\ parts \in Seq(Trees[d - 1]) /\ Len(parts) = n
        /\ \A k \in 1 .. n : parts[k] \in Preserved[d - 1] => ReadValue[d - 1][parts[k]] = items[k]
    <3>1. /\ PartsOf(d, sig, at, items, n) \in Seq(Trees[d - 1])
          /\ Len(PartsOf(d, sig, at, items, n)) = n
          /\ \A k \in 1 .. n : PartsOf(d, sig, at, items, n)[k] \in Preserved[d - 1] =>
                                 ReadValue[d - 1][PartsOf(d, sig, at, items, n)[k]] = items[k]
      <4> HIDE DEF each
      <4>1. d \in 1 .. Nesting /\ Returned(d - 1) /\ sig \in Seq(STRING)
        OBVIOUS
      <4>2. n \in Nat /\ items \in Seq(Trees[d - 1]) /\ n <= Len(items)
        BY <2>3
      <4>3. at \in [1 .. n -> Nat]
        BY <2>5
      <4> QED
        BY <4>1, <4>2, <4>3, PartsCome
    <3> QED
      BY <2>6, <3>1
  <2>9. ASSUME parts \in Seq(Preserved[d - 1])
        PROVE  items = [k \in 1 .. n |-> ReadValue[d - 1][parts[k]]]
    <3>1. \A k \in 1 .. n : parts[k] \in Preserved[d - 1]
      BY <2>8, <2>9
    <3>2. \A k \in 1 .. n : ReadValue[d - 1][parts[k]] = items[k]
      BY <2>8, <3>1
    <3>3. items = [k \in 1 .. n |-> items[k]]
      BY <2>3
    <3> QED
      BY <3>2, <3>3
  <2> QED
    BY <2>1, <2>2, <2>7, <2>8, <2>9
<1>2. CASE e = [t |-> Refused]
  BY <1>0, <1>2, RefusedComes DEF Comes
<1>3. CASE e = [t |-> "a{", sub |-> each] /\ v.t = "object"
  <2> HIDE DEF each
  <2>1. e.t = "a{" /\ e.sub = each
    BY <1>3
  <2>2. e \in Trees[d]
    <3>1. each \in Seq(Trees[d - 1])
      BY <1>1, <1>3
    <3> QED
      BY <1>3, <3>1, TreesDef
  <2>3. ASSUME e \in Preserved[d] PROVE Reading(ReadValue[d - 1], e) = v
    <3>1. e.sub \in Seq(Preserved[d - 1])
      BY <2>1, <2>3, PreservedKinds
    <3>2. v.sub = [k \in 1 .. Len(e.sub) |-> ReadValue[d - 1][e.sub[k]]]
      BY <1>1, <1>3, <2>1, <3>1
    <3>3. DOMAIN e.sub = 1 .. Len(e.sub)
      BY <3>1
    <3>4. Reading(ReadValue[d - 1], e) = Object([k \in DOMAIN e.sub |-> ReadValue[d - 1][e.sub[k]]])
      BY <2>1 DEF Reading, Numbers
    <3>5. v = Object(v.sub)
      BY <1>3, TreeKinds
    <3> QED
      BY <3>2, <3>3, <3>4, <3>5
  <2> QED
    BY <1>0, <2>2, <2>3 DEF Comes
<1>4. CASE e = [t |-> "a", sub |-> each] /\ v.t = "array"
  <2> HIDE DEF each
  <2>1. e.t = "a" /\ e.sub = each
    BY <1>4
  <2>2. e \in Trees[d]
    <3>1. each \in Seq(Trees[d - 1])
      BY <1>1, <1>4
    <3> QED
      BY <1>4, <3>1, TreesDef
  <2>3. ASSUME e \in Preserved[d] PROVE Reading(ReadValue[d - 1], e) = v
    <3>1. e.sub \in Seq(Preserved[d - 1]) /\ Spaced(e.sub)
      BY <2>1, <2>3, PreservedKinds
    <3>2. v.sub = [k \in 1 .. Len(e.sub) |-> ReadValue[d - 1][e.sub[k]]]
      BY <1>1, <1>4, <2>1, <3>1
    <3>3. ReadAll(ReadValue[d - 1], e.sub) = [k \in 1 .. Len(e.sub) |-> ReadValue[d - 1][e.sub[k]]]
      BY <3>1, ReadAllReadsEach
    <3>4. Reading(ReadValue[d - 1], e) = Array(ReadAll(ReadValue[d - 1], e.sub))
      BY <2>1 DEF Reading, Numbers
    <3>5. v = Array(v.sub)
      BY <1>4, TreeKinds
    <3> QED
      BY <3>2, <3>3, <3>4, <3>5
  <2> QED
    BY <1>0, <2>2, <2>3 DEF Comes
<1>5. \/ e = [t |-> Refused]
      \/ e = Checked([t |-> "a{", sub |-> each]) /\ v.t = "object"
      \/ e = Checked([t |-> "a", sub |-> each]) /\ v.t = "array"
  <2> HIDE DEF each
  <2>1. CASE Ends(sig)["type"][p] # Bad /\ At(sig, p + 1) = "{" /\ v.t = "object"
    <3>1. e = Checked([t |-> "a{", sub |-> each])
      BY <1>0, <2>1 DEF Writing, Numbers, each
    <3> QED
      BY <2>1, <3>1
  <2>2. CASE Ends(sig)["type"][p] # Bad /\ At(sig, p + 1) # "{" /\ v.t = "array"
    <3>1. e = Checked([t |-> "a", sub |-> each])
      BY <1>0, <2>2 DEF Writing, Numbers, each
    <3> QED
      BY <2>2, <3>1
  <2>3. CASE /\ ~ (Ends(sig)["type"][p] # Bad /\ At(sig, p + 1) = "{" /\ v.t = "object")
             /\ ~ (Ends(sig)["type"][p] # Bad /\ At(sig, p + 1) # "{" /\ v.t = "array")
    <3>1. e = [t |-> Refused]
      BY <1>0, <2>3 DEF Writing, Numbers
    <3> QED
      BY <3>1
  <2> QED
    BY <2>1, <2>2, <2>3
<1> HIDE DEF each
<1> QED
  BY <1>2, <1>3, <1>4, <1>5, OneOrRefused

(* A variant: the array of its signature and its value.                         *)
LEMMA VariantComes ==
  ASSUME NEW d \in 1 .. Nesting, Returned(d - 1), NEW sig \in Seq(STRING), NEW p \in Nat,
         NEW v \in Trees[d], At(sig, p) = "v"
  PROVE  Comes(d, sig, p, v)
<1>0. PICK e : e = Writing(WriteValue[d - 1], sig, p, v)
  OBVIOUS
<1> DEFINE name == v.sub[1].s
           part == WriteValue[d - 1][<<name, 1, v.sub[2]>>]
           both == << [t |-> "s", s |-> name], part >>
           Fit == v.t = "array" /\ Len(v.sub) = 2 /\ v.sub[1].t = "string"
<1>1. ASSUME Fit
      PROVE  /\ v.sub = <<v.sub[1], v.sub[2]>> /\ v = Array(v.sub)
             /\ name \in Seq(STRING) /\ v.sub[1] = String(name)
             /\ [t |-> "s", s |-> name] \in Trees[d - 1] /\ part \in Trees[d - 1]
             /\ part \in Preserved[d - 1] => ReadValue[d - 1][part] = v.sub[2]
  <2>1. v.sub \in Seq(Trees[d - 1]) /\ v = Array(v.sub) /\ Len(v.sub) = 2
    BY <1>1, TreeKinds
  <2>2. v.sub = <<v.sub[1], v.sub[2]>> /\ v.sub[1] \in Trees[d - 1] /\ v.sub[2] \in Trees[d - 1]
    BY <2>1
  <2>3. d - 1 \in 1 .. Nesting
    <3>1. d - 1 # 0
      BY <2>2, TreesDef
    <3> QED
      BY <3>1, DBusCallsAssumption
  <2>4. name \in Seq(STRING) /\ v.sub[1] = String(name)
    BY <1>1, <2>2, <2>3, TreeKinds
  <2>5. [t |-> "s", s |-> name] \in Trees[d - 1]
    <3>1. [t |-> "s", s |-> name] \in Leaves
      BY <2>4 DEF Leaves
    <3> QED
      BY <2>3, <3>1, TreesDef
  <2>6. part \in Trees[d - 1] /\ (part \in Preserved[d - 1] => ReadValue[d - 1][part] = v.sub[2])
    BY <2>2, <2>4 DEF Returned
  <2> QED
    BY <2>1, <2>2, <2>4, <2>5, <2>6
<1> HIDE DEF part, name
<1>2. CASE e = [t |-> Refused]
  BY <1>0, <1>2, RefusedComes DEF Comes
<1>3. CASE e = [t |-> "v", sub |-> both] /\ Fit
  <2>1. e.t = "v" /\ e.sub = both
    BY <1>3
  <2>2. e \in Trees[d]
    <3>1. both \in Trees[d - 1] \X Trees[d - 1]
      BY <1>1, <1>3
    <3> HIDE DEF both
    <3> QED
      BY <1>3, <3>1, TreesDef
  <2>3. ASSUME e \in Preserved[d] PROVE Reading(ReadValue[d - 1], e) = v
    <3>1. e.sub \in [t : {"s"}, s : Seq(STRING)] \X Preserved[d - 1]
      BY <2>1, <2>3, PreservedKinds
    <3>2. e.sub[2] = part /\ e.sub[1].s = name /\ part \in Preserved[d - 1]
      BY <2>1, <3>1
    <3>3. Reading(ReadValue[d - 1], e) = Array(<<String(e.sub[1].s), ReadValue[d - 1][e.sub[2]]>>)
      BY <2>1 DEF Reading, Numbers
    <3>4. v = Array(<<String(name), ReadValue[d - 1][part]>>)
      <4>1. ReadValue[d - 1][part] = v.sub[2] /\ v.sub[1] = String(name) /\ v = Array(v.sub)
            /\ v.sub = <<v.sub[1], v.sub[2]>>
        BY <1>1, <1>3, <3>2
      <4>2. v.sub = <<String(name), ReadValue[d - 1][part]>>
        BY <4>1
      <4> QED
        BY <4>1, <4>2
    <3> QED
      BY <3>2, <3>3, <3>4
  <2> QED
    BY <1>0, <2>2, <2>3 DEF Comes
<1>4. \/ e = [t |-> Refused]
      \/ e = Checked([t |-> "v", sub |-> both]) /\ Fit
  <2>1. CASE Fit
    <3>1. e = Checked([t |-> "v", sub |-> both])
      BY <1>0, <2>1 DEF Writing, Numbers, part, name
    <3> QED
      BY <2>1, <3>1
  <2>2. CASE ~ Fit
    <3>1. e = [t |-> Refused]
      BY <1>0, <2>2 DEF Writing, Numbers
    <3> QED
      BY <3>1, Zenon
  <2> QED
    BY <2>1, <2>2
<1> HIDE DEF both, Fit
<1> QED
  BY <1>2, <1>3, <1>4, OneOrRefused

(* An entry of a dictionary: the property of its key.                           *)
LEMMA EntryComes ==
  ASSUME NEW d \in 1 .. Nesting, Returned(d - 1), NEW sig \in Seq(STRING), NEW p \in Nat,
         NEW v \in Trees[d]
  PROVE  At(sig, p) = "{" => Comes(d, sig, p, v)
<1>0. PICK e : e = Writing(WriteValue[d - 1], sig, p, v)
  OBVIOUS
<1>a. p + 2 \in Nat /\ KeySignature(sig, p + 1) \in Seq(STRING)
  <2>1. PICK q \in Nat : q = p + 1
    OBVIOUS
  <2>2. q \in 1 .. Len(sig) => <<sig[q]>> \in Seq(STRING)
    OBVIOUS
  <2>3. << >> \in Seq(STRING)
    OBVIOUS
  <2>4. KeySignature(sig, q) \in Seq(STRING)
    <3>1. CASE q \in 1 .. Len(sig)
      BY <2>2, <3>1 DEF KeySignature
    <3>2. CASE q \notin 1 .. Len(sig)
      BY <2>3, <3>2 DEF KeySignature
    <3> QED
      BY <3>1, <3>2
  <2> QED
    BY <2>1, <2>4
<1> DEFINE key == WriteValue[d - 1][<<KeySignature(sig, p + 1), 1, v.sub[1]>>]
           part == WriteValue[d - 1][<<sig, p + 2, v.sub[2]>>]
           both == <<key, part>>
<1>1. ASSUME v.t = "property"
      PROVE  /\ v.sub \in Trees[d - 1] \X Trees[d - 1] /\ v = Property(v.sub[1], v.sub[2])
             /\ d - 1 \in 1 .. Nesting /\ key \in Trees[d - 1] /\ part \in Trees[d - 1]
             /\ key \in Preserved[d - 1] => ReadValue[d - 1][key] = v.sub[1]
             /\ part \in Preserved[d - 1] => ReadValue[d - 1][part] = v.sub[2]
  <2>1. v.sub \in Trees[d - 1] \X Trees[d - 1] /\ v = Property(v.sub[1], v.sub[2])
    BY <1>1, TreeKinds
  <2>2. v.sub[1] \in Trees[d - 1] /\ v.sub[2] \in Trees[d - 1]
    BY <2>1
  <2>3. d - 1 \in 1 .. Nesting
    <3>1. d - 1 # 0
      BY <2>2, TreesDef
    <3> QED
      BY <3>1, DBusCallsAssumption
  <2>5. key \in Trees[d - 1] /\ (key \in Preserved[d - 1] => ReadValue[d - 1][key] = v.sub[1])
    BY <1>a, <2>2 DEF Returned
  <2>6. part \in Trees[d - 1] /\ (part \in Preserved[d - 1] => ReadValue[d - 1][part] = v.sub[2])
    BY <1>a, <2>2 DEF Returned
  <2> QED
    BY <2>1, <2>3, <2>5, <2>6
<1> HIDE DEF key, part
<1>2. CASE e = [t |-> Refused]
  BY <1>0, <1>2, RefusedComes DEF Comes
<1>3. CASE e = [t |-> "{", sub |-> both] /\ v.t = "property"
  <2>1. e.t = "{" /\ e.sub = both
    BY <1>3
  <2>2. e \in Trees[d]
    <3>1. both \in Trees[d - 1] \X Trees[d - 1]
      BY <1>1, <1>3
    <3> HIDE DEF both
    <3> QED
      BY <1>3, <3>1, TreesDef
  <2>3. ASSUME e \in Preserved[d] PROVE Reading(ReadValue[d - 1], e) = v
    <3>1. e.sub \in [t : {"s"}, s : Seq(STRING)] \X Preserved[d - 1]
      BY <2>1, <2>3, PreservedKinds
    <3>2. key \in [t : {"s"}, s : Seq(STRING)] /\ part \in Preserved[d - 1]
      <4>1. both[1] = key /\ both[2] = part
        OBVIOUS
      <4> HIDE DEF both
      <4> QED
        BY <2>1, <3>1, <4>1
    <3>3. key \in Preserved[d - 1] /\ key.t = "s"
      <4>1. d - 1 \in 1 .. Nesting
        BY <1>1, <1>3
      <4> QED
        BY <3>2, <4>1, PreservedDef
    <3>4. ReadValue[d - 1][key] = String(key.s)
      <4>1. d - 1 \in 1 .. Nesting /\ key \in Trees[d - 1]
        BY <1>1, <1>3
      <4>2. PICK f : f = d - 1
        OBVIOUS
      <4>3. ReadValue[f] = [element \in Trees[f] |-> Reading(ReadValue[f - 1], element)]
        BY <4>1, <4>2, ReadValueDef
      <4>4. ReadValue[f][key] = Reading(ReadValue[f - 1], key)
        BY <4>1, <4>2, <4>3
      <4>5. Reading(ReadValue[f - 1], key) = String(key.s)
        BY <3>3 DEF Reading, Numbers
      <4> QED
        BY <4>2, <4>4, <4>5
    <3>5. Reading(ReadValue[d - 1], e) = Property(String(key.s), ReadValue[d - 1][part])
      <4>1. Reading(ReadValue[d - 1], e)
              = Property(String(e.sub[1].s), ReadValue[d - 1][e.sub[2]])
        BY <2>1 DEF Reading, Numbers
      <4>2. both[1] = key /\ both[2] = part
        OBVIOUS
      <4> HIDE DEF both
      <4> QED
        BY <2>1, <4>1, <4>2
    <3>6. String(key.s) = v.sub[1] /\ ReadValue[d - 1][part] = v.sub[2]
      BY <1>1, <1>3, <3>2, <3>3, <3>4
    <3> QED
      BY <1>1, <1>3, <3>5, <3>6
  <2> QED
    BY <1>0, <2>2, <2>3 DEF Comes
<1>4. ASSUME At(sig, p) = "{"
      PROVE  \/ e = [t |-> Refused]
             \/ e = Checked([t |-> "{", sub |-> both]) /\ v.t = "property"
  <2>1. CASE v.t = "property"
    <3>1. e = Checked([t |-> "{", sub |-> both])
      BY <1>0, <1>4, <2>1 DEF Writing, Numbers, key, part
    <3> QED
      BY <2>1, <3>1
  <2>2. CASE v.t # "property"
    <3>1. e = [t |-> Refused]
      BY <1>0, <1>4, <2>2 DEF Writing, Numbers
    <3> QED
      BY <3>1, Zenon
  <2> QED
    BY <2>1, <2>2
<1> HIDE DEF both
<1> QED
  BY <1>2, <1>3, <1>4, OneOrRefused

(* A structure: the array of its fields, when nothing of the script's is left.    *)
LEMMA StructureComes ==
  ASSUME NEW d \in 1 .. Nesting, Returned(d - 1), NEW sig \in Seq(STRING), NEW p \in Nat,
         NEW v \in Trees[d], At(sig, p) = "("
  PROVE  Comes(d, sig, p, v)
<1>0. PICK e, at, n : /\ e = Writing(WriteValue[d - 1], sig, p, v)
                      /\ at = Fields(sig, p + 1)
                      /\ n = Len(at)
  OBVIOUS
<1>a. at \in Seq(Nat) /\ n \in Nat /\ DOMAIN at = 1 .. n /\ at \in [1 .. n -> Nat]
  <2>1. p + 1 \in Nat
    OBVIOUS
  <2>2. at \in Seq(Nat)
    BY <1>0, <2>1, FieldsAreSequence
  <2> QED
    BY <1>0, <2>2
<1> DEFINE parts == PartsOf(d, sig, at, v.sub, n)
           whole == [t |-> "(", sub |-> parts, unsent |-> Len(v.sub) - n]
           Fit == v.t = "array" /\ n <= Len(v.sub)
<1>1. ASSUME Fit
      PROVE  /\ v.sub \in Seq(Trees[d - 1]) /\ v = Array(v.sub) /\ Len(v.sub) - n \in Nat
             /\ parts \in Seq(Trees[d - 1]) /\ Len(parts) = n
             /\ \A k \in 1 .. n : parts[k] \in Preserved[d - 1] =>
                                    ReadValue[d - 1][parts[k]] = v.sub[k]
  <2>1. v.sub \in Seq(Trees[d - 1]) /\ v = Array(v.sub)
    BY <1>1, TreeKinds
  <2>2. PICK items : items = v.sub
    OBVIOUS
  <2>3. items \in Seq(Trees[d - 1]) /\ n <= Len(items)
    BY <1>1, <2>1, <2>2
  <2>4. Len(items) - n \in Nat
    BY <1>a, <2>3
  <2>5. /\ PartsOf(d, sig, at, items, n) \in Seq(Trees[d - 1])
        /\ Len(PartsOf(d, sig, at, items, n)) = n
        /\ \A k \in 1 .. n : PartsOf(d, sig, at, items, n)[k] \in Preserved[d - 1] =>
                               ReadValue[d - 1][PartsOf(d, sig, at, items, n)[k]] = items[k]
    BY <1>a, <2>3, PartsCome
  <2> QED
    BY <2>1, <2>2, <2>4, <2>5
<1> HIDE DEF parts
<1>2. CASE e = [t |-> Refused]
  BY <1>0, <1>2, RefusedComes DEF Comes
<1>3. CASE e = whole /\ Fit
  <2>1. e.t = "(" /\ e.sub = parts /\ e.unsent = Len(v.sub) - n
    BY <1>3
  <2>2. e \in Trees[d]
    <3>1. parts \in Seq(Trees[d - 1]) /\ Len(v.sub) - n \in Nat
      BY <1>1, <1>3
    <3> QED
      BY <1>3, <3>1, TreesDef
  <2>3. ASSUME e \in Preserved[d] PROVE Reading(ReadValue[d - 1], e) = v
    <3>1. e.sub \in Seq(Preserved[d - 1]) /\ Spaced(e.sub) /\ e.unsent = 0
      BY <2>1, <2>3, PreservedKinds
    <3>2. Len(v.sub) = n /\ Len(parts) = n
      <4>1. v.sub \in Seq(Trees[d - 1]) /\ Len(parts) = n
        BY <1>1, <1>3
      <4>2. PICK l : l = Len(v.sub) /\ l \in Nat
        BY <4>1
      <4> QED
        BY <1>a, <2>1, <3>1, <4>1, <4>2
    <3>3. \A k \in 1 .. n : ReadValue[d - 1][parts[k]] = v.sub[k]
      <4>1. \A k \in 1 .. n : parts[k] \in Preserved[d - 1]
        BY <2>1, <3>1, <3>2
      <4> QED
        BY <1>1, <1>3, <4>1
    <3>4. v.sub = [k \in 1 .. n |-> ReadValue[d - 1][parts[k]]]
      <4>1. v.sub = [k \in 1 .. n |-> v.sub[k]]
        BY <1>1, <1>3, <3>2
      <4> QED
        BY <3>3, <4>1
    <3>5. ReadAll(ReadValue[d - 1], e.sub) = [k \in 1 .. Len(e.sub) |-> ReadValue[d - 1][e.sub[k]]]
      <4>1. PICK elements : elements = e.sub
        OBVIOUS
      <4>2. elements \in Seq(Preserved[d - 1]) /\ Spaced(elements)
        BY <3>1, <4>1
      <4>3. ReadAll(ReadValue[d - 1], elements)
              = [k \in 1 .. Len(elements) |-> ReadValue[d - 1][elements[k]]]
        BY <4>2, ReadAllReadsEach
      <4> QED
        BY <4>1, <4>3
    <3>6. Reading(ReadValue[d - 1], e) = Array(ReadAll(ReadValue[d - 1], e.sub))
      BY <2>1 DEF Reading, Numbers
    <3> QED
      BY <1>1, <1>3, <2>1, <3>2, <3>4, <3>5, <3>6
  <2> QED
    BY <1>0, <2>2, <2>3 DEF Comes
<1>4. \/ e = [t |-> Refused]
      \/ e = Checked(whole) /\ Fit
  <2>1. CASE v.t = "array"
    <3>1. e = WriteFields(WriteValue[d - 1], sig, p + 1, v.sub)
      BY <1>0, <2>1 DEF Writing, Numbers
    <3>2. CASE Ends(sig)["fields"][p + 1] = Bad \/ Len(v.sub) < n
      <4>1. e = [t |-> Refused]
        BY <1>0, <3>1, <3>2 DEF WriteFields
      <4> QED
        BY <4>1, Zenon
    <3>3. CASE ~ (Ends(sig)["fields"][p + 1] = Bad \/ Len(v.sub) < n)
      <4>1. n <= Len(v.sub)
        <5>1. v.sub \in Seq(Trees[d - 1])
          BY <2>1, TreeKinds
        <5>2. PICK l : l = Len(v.sub) /\ l \in Nat
          BY <5>1
        <5> QED
          BY <1>a, <3>3, <5>2
      <4>2. e = Checked([t |-> "(",
                         sub |-> [k \in 1 .. n |-> WriteValue[d - 1][<<sig, at[k], v.sub[k]>>]],
                         unsent |-> Len(v.sub) - n])
        BY <1>0, <1>a, <3>1, <3>3 DEF WriteFields
      <4>3. e = Checked(whole)
        BY <4>2 DEF parts, PartsOf
      <4> QED
        BY <2>1, <4>1, <4>3
    <3> QED
      BY <3>2, <3>3
  <2>2. CASE v.t # "array"
    <3>1. e = [t |-> Refused]
      BY <1>0, <2>2 DEF Writing, Numbers
    <3> QED
      BY <3>1, Zenon
  <2> QED
    BY <2>1, <2>2
<1> HIDE DEF whole, Fit
<1> QED
  BY <1>2, <1>3, <1>4, OneOrRefused

(* A value of any kind.                                                      *)
LEMMA ValueComes ==
  ASSUME NEW d \in 1 .. Nesting, Returned(d - 1), NEW sig \in Seq(STRING), NEW p \in Nat,
         NEW v \in Trees[d]
  PROVE  Comes(d, sig, p, v)
<1>1. CASE At(sig, p) \notin Basic \cup {"a", "{", "(", "v"}
  <2>1. Writing(WriteValue[d - 1], sig, p, v) = [t |-> Refused]
    BY <1>1 DEF Writing, Basic
  <2> QED
    BY <2>1, RefusedComes DEF Comes
<1> QED
  BY <1>1, LeafComes, ArrayComes, EntryComes, StructureComes, VariantComes

(* What writeValue writes of a value is an element nested as deep; when it is of the *)
(* kinds both conversions preserve, readValue gives the value back, at any depth.  *)
THEOREM ValuesComeBack == Returned(Nesting)
<1> DEFINE S == {d \in Nat : d <= Nesting => Returned(d)}
<1>1. Returned(0)
  BY TreesDef DEF Returned
<1>2. ASSUME NEW d \in 1 .. Nesting, Returned(d - 1) PROVE Returned(d)
  <2>1. ASSUME NEW sig \in Seq(STRING), NEW p \in Nat, NEW v \in Trees[d]
        PROVE  /\ WriteValue[d][<<sig, p, v>>] \in Trees[d]
               /\ WriteValue[d][<<sig, p, v>>] \in Preserved[d] =>
                    ReadValue[d][WriteValue[d][<<sig, p, v>>]] = v
    <3>1. Comes(d, sig, p, v)
      BY <1>2, ValueComes
    <3>2. WriteValue[d][<<sig, p, v>>] = Writing(WriteValue[d - 1], sig, p, v)
      <4>1. WriteValue[d] =
              [w \in Seq(STRING) \X Nat \X Trees[d] |-> Writing(WriteValue[d - 1], w[1], w[2], w[3])]
        BY WriteValueDef
      <4>2. <<sig, p, v>> \in Seq(STRING) \X Nat \X Trees[d]
        OBVIOUS
      <4> QED
        BY <4>1, <4>2
    <3>3. PICK e : e = WriteValue[d][<<sig, p, v>>]
      OBVIOUS
    <3>4. e \in Trees[d] /\ (e \in Preserved[d] => Reading(ReadValue[d - 1], e) = v)
      BY <3>1, <3>2, <3>3 DEF Comes
    <3>5. ReadValue[d][e] = Reading(ReadValue[d - 1], e)
      <4>1. ReadValue[d] = [element \in Trees[d] |-> Reading(ReadValue[d - 1], element)]
        BY ReadValueDef
      <4> QED
        BY <3>4, <4>1
    <3> QED
      BY <3>3, <3>4, <3>5
  <2> QED
    BY <2>1 DEF Returned
<1>3. ASSUME NEW m \in Nat, \A k \in 0 .. m - 1 : k \in S PROVE m \in S
  <2>1. CASE m = 0
    BY <1>1, <2>1
  <2>2. CASE m # 0 /\ m <= Nesting
    <3>1. m - 1 \in 0 .. m - 1 /\ m \in 1 .. Nesting /\ m - 1 <= Nesting
      BY <2>2, DBusCallsAssumption
    <3>2. Returned(m - 1)
      BY <1>3, <3>1
    <3> QED
      BY <1>2, <3>1, <3>2
  <2>3. CASE ~ (m <= Nesting)
    BY <2>3
  <2> QED
    BY <2>1, <2>2, <2>3
<1>4. \A m \in Nat : m \in S
  <2> HIDE DEF S
  <2> QED
    BY <1>3, Upwards
<1> QED
  BY <1>4, DBusCallsAssumption

--------------------------------------------------------------------------------
(* A call that is refused names its first argument at fault, and what is wrong     *)
(* with it; one that is sent has none, and sends what is written of its values.  *)
CallInv ==
  /\ asked \in CallArguments
  /\ \/ sent = << >> /\ result = [pending |-> TRUE]
     \/ \E k \in DOMAIN asked :
          /\ Faulty(k) /\ \A j \in 1 .. k - 1 : ~ Faulty(j)
          /\ result = [error |-> IF OneType(asked[k].sig) THEN "value" ELSE "signature",
                       argument |-> k]
     \/ /\ \A k \in DOMAIN asked : ~ Faulty(k)
        /\ sent = Written
        /\ \/ result = [error |-> "call"]
           \/ result = [value |-> Array(ReadAll(ReadValue[Nesting], Written))]

(* What a script is told of its call, and what was sent, follow from what it asked. *)
THEOREM CallInvariant == CallSpec => []CallInv
<1>1. CallInit => CallInv
  BY DEF CallInit, CallInv, Pending
<1>2. CallInv /\ [CallNext]_callVars => CallInv'
  <2> SUFFICES ASSUME CallInv, [CallNext]_callVars PROVE CallInv'
    OBVIOUS
  <2>1. asked \in CallArguments
    BY DEF CallInv
  <2>2. CASE RefuseCall
    <3>1. PICK k \in DOMAIN asked :
            /\ Faulty(k) /\ \A j \in 1 .. k - 1 : ~ Faulty(j)
            /\ result' = [error |-> IF OneType(asked[k].sig) THEN "value" ELSE "signature",
                          argument |-> k]
      BY <2>2 DEF RefuseCall
    <3>2. asked' = asked /\ \A j : Faulty(j)' <=> Faulty(j)
      BY <2>2 DEF RefuseCall, Faulty, Written
    <3> QED
      BY <2>1, <3>1, <3>2 DEF CallInv
  <2>3. CASE FailCall
    <3>1. /\ asked' = asked /\ Written' = Written /\ \A j : Faulty(j)' <=> Faulty(j)
          /\ sent' = Written /\ result' = [error |-> "call"]
          /\ \A k \in DOMAIN asked : ~ Faulty(k)
      BY <2>3 DEF FailCall, Faulty, Written
    <3> QED
      BY <2>1, <3>1 DEF CallInv
  <2>4. CASE EchoCall
    <3>1. /\ asked' = asked /\ Written' = Written /\ \A j : Faulty(j)' <=> Faulty(j)
          /\ sent' = Written
          /\ result' = [value |-> Array(ReadAll(ReadValue[Nesting], Written))]
          /\ \A k \in DOMAIN asked : ~ Faulty(k)
      BY <2>4 DEF EchoCall, Faulty, Written
    <3> QED
      BY <2>1, <3>1 DEF CallInv
  <2>5. CASE UNCHANGED callVars
    BY <2>5 DEF callVars, CallInv, Pending, Faulty, Written
  <2> QED
    BY <2>2, <2>3, <2>4, <2>5 DEF CallNext
<1> QED
  BY <1>1, <1>2, PTL DEF CallSpec

LEMMA AskedAreTyped ==
  ASSUME CallInv
  PROVE  /\ asked \in Seq([sig : Seq(STRING), value : Trees[Nesting]])
         /\ Len(asked) \in Nat /\ DOMAIN asked = 1 .. Len(asked)
         /\ \A k \in DOMAIN asked : asked[k].sig \in Seq(STRING) /\ asked[k].value \in Trees[Nesting]
<1> DEFINE A == [sig : Seq(STRING), value : Trees[Nesting]]
<1>1. asked \in Seq(A)
  BY DBusCallsAssumption DEF CallInv
<1>2. \A a \in A : a.sig \in Seq(STRING) /\ a.value \in Trees[Nesting]
  OBVIOUS
<1> HIDE DEF A
<1>3. Len(asked) \in Nat /\ DOMAIN asked = 1 .. Len(asked) /\ \A k \in DOMAIN asked : asked[k] \in A
  BY <1>1
<1> QED
  BY <1>1, <1>2, <1>3 DEF A

(* The first argument at fault is the first that is not one type, or its type is   *)
(* one and its value does not fit; those before it are types.                    *)
LEMMA RecognisedWhenAnswered == CallInv => TypesAreRecognised
<1> SUFFICES ASSUME CallInv, ~ Pending, NEW k \in DOMAIN asked,
                    "argument" \in DOMAIN result => k <= result.argument
             PROVE  ~ CompleteType(asked[k].sig) <=>
                      /\ "argument" \in DOMAIN result
                      /\ result.error = "signature" /\ result.argument = k
  BY DEF TypesAreRecognised
<1>1. OneType(asked[k].sig) <=> CompleteType(asked[k].sig)
  BY AskedAreTyped, TypesRecognised
<1>2. ASSUME NEW l \in DOMAIN asked, Faulty(l), \A j \in 1 .. l - 1 : ~ Faulty(j),
             result = [error |-> IF OneType(asked[l].sig) THEN "value" ELSE "signature",
                       argument |-> l]
      PROVE  ~ CompleteType(asked[k].sig) <=>
               /\ "argument" \in DOMAIN result
               /\ result.error = "signature" /\ result.argument = k
  <2>1. "argument" \in DOMAIN result /\ result.argument = l
    BY <1>2
  <2>2. result.error = "signature" <=> ~ OneType(asked[l].sig)
    BY <1>2
  <2>3. k \in Nat /\ l \in Nat /\ k <= l
    BY <2>1, AskedAreTyped
  <2>4. CASE k = l
    BY <1>1, <2>1, <2>2, <2>4
  <2>5. CASE k # l
    <3>1. k \in 1 .. l - 1
      BY <2>3, <2>5, AskedAreTyped
    <3>2. OneType(asked[k].sig)
      BY <1>2, <3>1 DEF Faulty
    <3> QED
      BY <1>1, <2>1, <2>5, <3>2
  <2> QED
    BY <2>4, <2>5
<1>3. ASSUME ~ Faulty(k), "argument" \notin DOMAIN result
      PROVE  ~ CompleteType(asked[k].sig) <=>
               /\ "argument" \in DOMAIN result
               /\ result.error = "signature" /\ result.argument = k
  BY <1>1, <1>3 DEF Faulty
<1>4. CASE result = [error |-> "call"] /\ ~ Faulty(k)
  <2>1. "argument" \notin DOMAIN result
    BY <1>4
  <2> QED
    BY <1>3, <1>4, <2>1
<1>5. CASE result = [value |-> Array(ReadAll(ReadValue[Nesting], Written))] /\ ~ Faulty(k)
  <2>1. "argument" \notin DOMAIN result
    BY <1>5
  <2> QED
    BY <1>3, <1>5, <2>1
<1> DEFINE Told == ~ CompleteType(asked[k].sig) <=>
                     /\ "argument" \in DOMAIN result
                     /\ result.error = "signature" /\ result.argument = k
<1> HIDE DEF Told
<1>6. result # [pending |-> TRUE]
  BY DEF Pending
<1>7. \/ \E l \in DOMAIN asked :
           /\ Faulty(l) /\ \A j \in 1 .. l - 1 : ~ Faulty(j)
           /\ result = [error |-> IF OneType(asked[l].sig) THEN "value" ELSE "signature",
                        argument |-> l]
      \/ result = [error |-> "call"] /\ ~ Faulty(k)
      \/ result = [value |-> Array(ReadAll(ReadValue[Nesting], Written))] /\ ~ Faulty(k)
  BY <1>6 DEF CallInv
<1>8. Told
  BY <1>2, <1>4, <1>5, <1>7 DEF Told
<1> QED
  BY <1>8 DEF Told

(* Each element that was sent was written of the argument in its place.           *)
LEMMA ExactWhenEchoed == CallInv => EchoIsExact
<1> SUFFICES ASSUME CallInv, "value" \in DOMAIN result, Spaced(sent),
                    sent \in Seq(Preserved[Nesting])
             PROVE  result.value = Array([k \in DOMAIN asked |-> asked[k].value])
  BY DEF EchoIsExact
<1>1. sent = Written /\ result = [value |-> Array(ReadAll(ReadValue[Nesting], Written))]
  <2>1. result # [pending |-> TRUE] /\ result # [error |-> "call"]
    OBVIOUS
  <2>2. ASSUME NEW k \in DOMAIN asked
        PROVE  result # [error |-> IF OneType(asked[k].sig) THEN "value" ELSE "signature",
                         argument |-> k]
    OBVIOUS
  <2> QED
    BY <2>1, <2>2 DEF CallInv
<1>2. result.value = Array(ReadAll(ReadValue[Nesting], sent))
  BY <1>1
<1>3. ReadAll(ReadValue[Nesting], sent)
        = [k \in 1 .. Len(sent) |-> ReadValue[Nesting][sent[k]]]
  BY ReadAllReadsEach
<1>4. DOMAIN sent = DOMAIN asked /\ DOMAIN sent = 1 .. Len(sent)
  <2>1. DOMAIN sent = DOMAIN asked
    BY <1>1 DEF Written
  <2> QED
    BY <2>1
<1>5. ASSUME NEW k \in DOMAIN asked PROVE ReadValue[Nesting][sent[k]] = asked[k].value
  <2>1. asked[k].sig \in Seq(STRING) /\ asked[k].value \in Trees[Nesting]
    BY AskedAreTyped
  <2>2. sent[k] = WriteValue[Nesting][<<asked[k].sig, 1, asked[k].value>>]
    BY <1>1 DEF Written
  <2>3. sent[k] \in Preserved[Nesting]
    BY <1>4
  <2> QED
    BY <2>1, <2>2, <2>3, ValuesComeBack DEF Returned
<1>6. [k \in 1 .. Len(sent) |-> ReadValue[Nesting][sent[k]]] = [k \in DOMAIN asked |-> asked[k].value]
  BY <1>4, <1>5
<1> QED
  BY <1>2, <1>3, <1>6

(* CallsAsSigned: a call is refused for a signature exactly when the grammar has    *)
(* none of it, and what a method echoes is what the script passed.               *)
THEOREM CallsAreAsSigned == CallSpec => []CallsAsSigned
<1>1. CallInv => CallsAsSigned
  BY RecognisedWhenAnswered, ExactWhenEchoed DEF CallsAsSigned
<1> QED
  BY <1>1, CallInvariant, PTL
================================================================================
