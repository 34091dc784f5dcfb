------------------------------- MODULE TaskQueue -------------------------------
(***************************************************************************)
(* What users of MTQueue rely on: an atomic queue that delivers each item  *)
(* once, in the order of the pushes. Items are numbered in that order.     *)
(* Nothing is promised to those who reset an interruption in a pop's way.  *)
(***************************************************************************)
EXTENDS Naturals

VARIABLES
  pushed,  \* number of the last item pushed
  popped,  \* number of the last item a consumer was given
  raced    \* an interruption was reset in the middle of a pop

vars == <<pushed, popped, raced>>

Init == pushed = 0 /\ popped = 0 /\ raced = FALSE

Push == pushed' = pushed + 1 /\ UNCHANGED <<popped, raced>>

Pop ==
  /\ popped < pushed
  /\ popped' = popped + 1
  /\ UNCHANGED <<pushed, raced>>

(* The reset itself delivers nothing; what is popped after it is undefined. *)
Reset == ~raced /\ raced' = TRUE /\ UNCHANGED <<pushed, popped>>

Undefined == raced /\ raced' = TRUE

Next == Push \/ Pop \/ Reset \/ Undefined

Spec == Init /\ [][Next]_vars
================================================================================
