----------------------------- MODULE ClassRegistry -----------------------------
(***************************************************************************)
(* ClassManager: the C++ classes that JavaScript sees, registered with the     *)
(* name of the class they inherit from. The first thread that needs them ties   *)
(* the names into trees; each script's thread initialises the classes of its   *)
(* own JavaScript context from the roots down. Nothing locks the trees.        *)
(***************************************************************************)
EXTENDS Integers, SequencesExt

CONSTANTS
  ClassCount,  \* number of registered classes
  Users        \* the threads of scripts

NoClass == 0     \* the empty name or a null pointer
Missing == -1    \* the name of a class that is not registered

ASSUME ClassRegistryAssumption == ClassCount \in Nat \ {0}

Classes == 1 .. ClassCount  \* the keys of _classes, in the order of the map

VARIABLES
  declared,    \* ClassData::parent_name
  parent,      \* ClassData::parent
  root,        \* ClassData::root
  children,    \* ClassData::children
  trees,       \* _inheritance_trees
  user,        \* by thread: what it does, and the next class or the stack it works on
  made,        \* by thread: the classes it has initialised, in order
  raced        \* history: the trees were used while a thread was about to build them

classVars == <<declared, parent, root, children, trees, user, made, raced>>

(* Classes register before main, each with a parent's name or without; some    *)
(* have none.                                                               *)
ClassInit ==
  /\ declared \in [Classes -> Classes \cup {NoClass, Missing}]
  /\ \E c \in Classes : declared[c] = NoClass
  /\ parent = [c \in Classes |-> NoClass]
  /\ root = [c \in Classes |-> NoClass]
  /\ children = [c \in Classes |-> << >>]
  /\ trees = << >>
  /\ user = [u \in Users |-> [at |-> "idle", next |-> 0, stack |-> << >>]]
  /\ made = [u \in Users |-> << >>]
  /\ raced = FALSE
--------------------------------------------------------------------------------
(* From the test that found no trees to the last class.                      *)
Building == {u \in Users : user[u].at \in {"reset", "build"}}

(* initClasses: `if (_inheritance_trees.empty ())'. What two threads make of    *)
(* the vectors that one of them is filling is undefined: nothing follows it.   *)
InitClasses(u) ==
  /\ user[u].at = "idle" /\ ~ raced
  /\ raced' = (Building # {})
  /\ user' = [user EXCEPT ![u].at = IF trees = << >> THEN "reset" ELSE "push"]
  /\ made' = [made EXCEPT ![u] = << >>]
  /\ UNCHANGED <<declared, parent, root, children, trees>>

(* buildInheritanceTrees                                                    *)
ResetRoots(u) ==
  /\ user[u].at = "reset" /\ ~ raced
  /\ root' = [c \in Classes |-> c]
  /\ user' = [user EXCEPT ![u].at = "build", ![u].next = 1]
  /\ UNCHANGED <<declared, parent, children, trees, made, raced>>

(* The classes that a walk from c meets, when from a class it goes on to each of *)
(* those in `next': no smaller set has all of them.                           *)
Met(next, c) ==
  {a \in Classes : \A S \in SUBSET Classes :
     next[c] \subseteq S /\ (\A b \in S : next[b] \subseteq S) => a \in S}

(* The class and all below it.                                              *)
SubTree(c) == {c} \cup Met([a \in Classes |-> ToSet(children[a])], c)

(* Plausible mistake: the classes below keep the root they had.              *)
Attach_OnlyItself(c, p) ==
  /\ parent' = [parent EXCEPT ![c] = p]
  /\ children' = [children EXCEPT ![p] = Append(@, c)]
  /\ root' = [root EXCEPT ![c] = root[p]]

Attach(c, p) ==
  /\ parent' = [parent EXCEPT ![c] = p]
  /\ children' = [children EXCEPT ![p] = Append(@, c)]
  /\ root' = [d \in Classes |-> IF d \in SubTree(c) THEN root[p] ELSE root[d]]

BuildTree(u) ==
  LET c == user[u].next  p == declared[c]
  IN  /\ user[u].at = "build" /\ ~ raced
      /\ user' = [user EXCEPT ![u].next = @ + 1,
                              ![u].at = IF c + 1 \in Classes THEN "build" ELSE "push"]
      /\ \/ p = NoClass /\ trees' = Append(trees, c) /\ UNCHANGED <<parent, root, children>>
         \/ p = Missing /\ UNCHANGED <<parent, root, children, trees>>
         \/ p \in Classes /\ root[p] = c /\ UNCHANGED <<parent, root, children, trees>>
         \/ p \in Classes /\ root[p] # c /\ Attach(c, p) /\ UNCHANGED trees
      /\ UNCHANGED <<declared, made, raced>>

PushTrees(u) ==
  /\ user[u].at = "push" /\ ~ raced
  /\ user' = [user EXCEPT ![u].at = "init", ![u].stack = trees]
  /\ UNCHANGED <<declared, parent, root, children, trees, made, raced>>

(* The class on the top of the stack; its children go on the stack.           *)
InitClass(u) ==
  LET stack == user[u].stack  c == Last(stack)
  IN  /\ user[u].at = "init" /\ stack # << >> /\ ~ raced
      /\ user' = [user EXCEPT ![u].stack = Front(stack) \o children[c]]
      /\ made' = IF parent[c] = NoClass \/ parent[c] \in ToSet(made[u])
                 THEN [made EXCEPT ![u] = Append(@, c)] ELSE made
      /\ UNCHANGED <<declared, parent, root, children, trees, raced>>

ClassesInitialised(u) ==
  /\ user[u].at = "init" /\ user[u].stack = << >> /\ ~ raced
  /\ user' = [user EXCEPT ![u].at = "done"]
  /\ UNCHANGED <<declared, parent, root, children, trees, made, raced>>

(* The thread ends; that of another script, or of this one loaded anew, begins. *)
ContextEnds(u) ==
  /\ user[u].at = "done"
  /\ user' = [user EXCEPT ![u].at = "idle"]
  /\ UNCHANGED <<declared, parent, root, children, trees, made, raced>>

ClassNext == \E u \in Users :
  \/ InitClasses(u) \/ ResetRoots(u) \/ BuildTree(u) \/ PushTrees(u)
  \/ InitClass(u) \/ ClassesInitialised(u) \/ ContextEnds(u)

ClassSpec == ClassInit /\ [][ClassNext]_classVars
--------------------------------------------------------------------------------
(* The walk up from c meets p.                                              *)
Above(c) == Met([a \in Classes |-> Classes \cap {parent[a]}], c)

Inherits(c, p) == c = p \/ (root[c] = root[p] /\ p \in Above(c))
--------------------------------------------------------------------------------
(* What the registrations say: the classes above c.                         *)
BaseClasses(c) == Met([a \in Classes |-> Classes \cap {declared[a]}], c)

(* Every class above c is registered and their chain ends.                   *)
Rooted(c) == \A a \in BaseClasses(c) \cup {c} : declared[a] # Missing /\ a \notin BaseClasses(a)

(* A context gets each class with a complete line of ancestors, exactly once    *)
(* and after the class it inherits from, whichever thread built the trees and  *)
(* in whatever order the map holds the names.                                *)
ContextIsComplete ==
  \A u \in Users : user[u].at = "done" =>
    /\ ToSet(made[u]) = {c \in Classes : Rooted(c)}
    /\ Len(made[u]) = Cardinality(ToSet(made[u]))
    /\ \A k \in DOMAIN made[u] : declared[made[u][k]] # NoClass =>
         \E j \in 1 .. k - 1 : made[u][j] = declared[made[u][k]]

(* While no thread builds the trees, an object converts to another class        *)
(* (readJSValue of a pointer asks inherits) exactly when the registrations put   *)
(* that class above its own; of classes in a cycle, none converts both ways.     *)
InheritsAsRegistered ==
  ~ raced /\ (\E u \in Users : user[u].at = "done") /\ Building = {} =>
    \A c, p \in Classes :
      /\ c \notin BaseClasses(c) /\ (\A a \in BaseClasses(c) : a \notin BaseClasses(a)) =>
           (Inherits(c, p) <=> p \in BaseClasses(c) \cup {c})
      /\ c # p => ~ (Inherits(c, p) /\ Inherits(p, c))

(* Both, of every thread that is done.                                      *)
ClassesAsRegistered == ContextIsComplete /\ InheritsAsRegistered
================================================================================
