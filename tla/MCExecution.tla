----------------------------- MODULE MCExecution -----------------------------
(* Instances of Execution for TLC. *)
EXTENDS ExecutionProps

AllOptions == OptionSet
=============================================================================
