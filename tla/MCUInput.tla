-------------------------------- MODULE MCUInput --------------------------------
(***************************************************************************)
(* A uinput device whose users upload a periodic effect, which the script is  *)
(* told but for its envelope, and a spring, of which it is told the type.     *)
(***************************************************************************)
EXTENDS UInput

EffectsToUpload ==
  {[type |-> "periodic", words |-> <<11, 12, 13, 14, 15, 16, 17, 18, 19>>],
   [type |-> "spring", words |-> <<21, 22, 23, 24, 25, 26, 27, 28, 29>>]}
================================================================================
