------------------------------ MODULE Execution ------------------------------
(***************************************************************************)
(* `stefunny execute` and the execution it starts (execute.go, and         *)
(* StartExecution, waitExecution and GetExecutionHistory of                *)
(* sfn_service.go).                                                        *)
(*                                                                         *)
(* One command at a time; one action is one call to AWS or one wait.  The  *)
(* user may interrupt the command, which cancels its context: every later  *)
(* call made on that context fails, the two calls that stop the execution  *)
(* have a context of their own.                                            *)
(***************************************************************************)

CONSTANTS
  Options,  \* the command lines execute may be started with
  Faults    \* "api": any call may fail; "crash": the process may be killed

OptionSet == [type : {"STANDARD", "EXPRESS"}, async : BOOLEAN, dump : BOOLEAN]

ASSUME OptionsAssumption == Options \subseteq OptionSet /\ Options # {}

VARIABLES
  execution,  \* the status of the execution started last, NONE before
  canceled,   \* the user has interrupted the command
  pc,         \* the call made next, or how the command ended
  opt,        \* its options
  status      \* the status last described

vars == <<execution, canceled, pc, opt, status>>

-----------------------------------------------------------------------------

Final == {"SUCCEEDED", "FAILED", "TIMED_OUT", "ABORTED"}
Statuses == {"NONE", "RUNNING"} \cup Final
Ended == {"new", "ok", "error", "crashed"}

(* The calls made on the command's own context. *)
CallsOnContext ==
  {"DescribeStateMachine", "StartExecution", "StartSyncExecution",
   "DescribeExecution", "LastEvents", "DescribeForHistory", "History"}

(* The calls made on the context that ends after a minute. *)
CallsToStop == {"DescribeToStop", "StopExecution"}

Calls == CallsOnContext \cup CallsToStop \cup {"Select"}
Running == pc \in Calls

AnyOption == CHOOSE o \in Options : TRUE

(* The command goes on to l; what it knew is gone when it ends. *)
Goto(l, s) ==
  /\ pc' = l
  /\ status' = IF l \in Ended THEN "NONE" ELSE s
  /\ opt' = IF l \in Ended THEN AnyOption ELSE opt
  /\ UNCHANGED canceled

Init ==
  /\ execution = "NONE"
  /\ canceled = FALSE
  /\ pc = "new"
  /\ opt = AnyOption
  /\ status = "NONE"

Start(o) ==
  /\ pc \in Ended
  /\ execution' = "NONE"
  /\ canceled' = FALSE
  /\ pc' = "DescribeStateMachine"
  /\ opt' = o
  /\ status' = "NONE"

-----------------------------------------------------------------------------
(* Starting *)

(* The call is answered: it was made before the command was interrupted. *)
Call(l) == pc = l /\ ~canceled

DescribeStateMachine ==
  /\ Call("DescribeStateMachine")
  /\ Goto(IF opt.type = "EXPRESS" /\ ~opt.async
          THEN "StartSyncExecution" ELSE "StartExecution", "NONE")
  /\ UNCHANGED execution

StartExecution ==
  /\ Call("StartExecution")
  /\ execution' = "RUNNING"
  /\ Goto(IF opt.async THEN "ok" ELSE "DescribeExecution", "NONE")

(* The answer comes when the execution has ended; an express execution     *)
(* has no history to dump.                                                 *)
StartSyncExecution ==
  /\ Call("StartSyncExecution")
  /\ execution' \in Final \ {"ABORTED"}
  /\ Goto("ok", "NONE")

(* The call fails but had reached AWS: nobody waits for the execution. *)
StartUnnoticed ==
  /\ pc \in {"StartExecution", "StartSyncExecution"}
  /\ canceled \/ "api" \in Faults
  /\ execution' = "RUNNING"
  /\ Goto("error", "NONE")

-----------------------------------------------------------------------------
(* Waiting: describe, and again at every tick, until it has ended *)

(* Mutant of DescribeExecution: a status other than success is awaited. *)
DescribeUntilSuccess ==
  /\ Call("DescribeExecution")
  /\ Goto(IF execution # "SUCCEEDED" THEN "Select" ELSE "LastEvents", execution)
  /\ UNCHANGED execution

(* Mutant of DescribeExecution: it is described once, whatever its status. *)
DescribeOnce ==
  /\ Call("DescribeExecution")
  /\ Goto("LastEvents", execution)
  /\ UNCHANGED execution

DescribeExecution ==
  /\ Call("DescribeExecution")
  /\ Goto(IF execution = "RUNNING" THEN "Select" ELSE "LastEvents", execution)
  /\ UNCHANGED execution

Tick ==
  /\ pc = "Select"
  /\ Goto("DescribeExecution", status)
  /\ UNCHANGED execution

(* Mutant of Interrupted: it is stopped without being asked for. *)
InterruptedByTick ==
  /\ pc = "Select"
  /\ Goto("DescribeToStop", status)
  /\ UNCHANGED execution

Interrupted ==
  /\ pc = "Select"
  /\ canceled
  /\ Goto("DescribeToStop", status)
  /\ UNCHANGED execution

DescribeToStop ==
  /\ pc = "DescribeToStop"
  /\ Goto(IF execution = "RUNNING" THEN "StopExecution" ELSE "error", execution)
  /\ UNCHANGED execution

(* AWS stops what still runs and answers the same when nothing does. *)
StopExecution ==
  /\ pc = "StopExecution"
  /\ execution' = IF execution = "RUNNING" THEN "ABORTED" ELSE execution
  /\ Goto("error", status)

LastEvents ==
  /\ Call("LastEvents")
  /\ Goto(IF opt.dump THEN "DescribeForHistory" ELSE "ok", status)
  /\ UNCHANGED execution

-----------------------------------------------------------------------------
(* Reporting, only with --dump-history *)

DescribeForHistory ==
  /\ Call("DescribeForHistory")
  /\ Goto("History", status)
  /\ UNCHANGED execution

(* Mutant of Report: the failure is not looked at. *)
ReportSuccess == "ok"

(* Only an execution that FAILED is a failed command. *)
Report == IF status = "FAILED" THEN "error" ELSE "ok"

History ==
  /\ Call("History")
  /\ Goto(Report, status)
  /\ UNCHANGED execution

-----------------------------------------------------------------------------
(* Failures, the user, and the execution itself *)

CallFails ==
  /\ \/ pc \in CallsOnContext /\ canceled
     \/ pc \in CallsOnContext \cup CallsToStop /\ "api" \in Faults
  /\ Goto("error", status)
  /\ UNCHANGED execution

Crash ==
  /\ "crash" \in Faults
  /\ Running
  /\ Goto("crashed", status)
  /\ UNCHANGED execution

Interrupt ==
  /\ Running
  /\ ~canceled
  /\ canceled' = TRUE
  /\ UNCHANGED <<execution, pc, opt, status>>

(* On its own, or stopped by somebody else. *)
ExecutionEnds ==
  /\ execution = "RUNNING"
  /\ execution' \in Final
  /\ UNCHANGED <<canceled, pc, opt, status>>

-----------------------------------------------------------------------------

Work ==
  \/ DescribeStateMachine \/ StartExecution \/ StartSyncExecution
  \/ StartUnnoticed \/ DescribeExecution \/ Tick \/ Interrupted
  \/ DescribeToStop \/ StopExecution \/ LastEvents \/ DescribeForHistory
  \/ History \/ CallFails

Next ==
  \/ \E o \in Options : Start(o)
  \/ Work
  \/ Crash
  \/ Interrupt
  \/ ExecutionEnds

Spec == Init /\ [][Next]_vars

(* A command that runs goes on running; an execution need not end. *)
FairSpec == Spec /\ WF_vars(Work)

=============================================================================
