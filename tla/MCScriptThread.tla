---------------------------- MODULE MCScriptThread ----------------------------
(***************************************************************************)
(* Values of ScriptThread's constants for TLC: the scripts and the timers   *)
(* of the instances the configurations check.                              *)
(***************************************************************************)
EXTENDS ScriptThread

CONSTANTS t1, t2

OneTimer  == {t1}
TwoTimers == {t1, t2}

(* Scripts that connect signals wherever they can, those that do not in      *)
(* finalize, and those that do in init only.                                 *)
Anywhere       == {"init", "call", "finalize"}
WhileLoaded    == {"init", "call"}
InInitOnly     == {"init"}
================================================================================
