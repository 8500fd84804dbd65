---------------------------- MODULE ExecutionProps ----------------------------
(***************************************************************************)
(* What the runs of Execution check and ExecutionProofs proves.            *)
(***************************************************************************)
EXTENDS Execution

(* Types; and what the command has described as ended has ended that way,  *)
(* so that nothing it decides from that status later is stale.             *)
TypeOK ==
  /\ execution \in Statuses /\ canceled \in BOOLEAN
  /\ pc \in Ended \cup Calls
  /\ opt \in Options
  /\ status \in Statuses
  /\ status \in Final => execution = status

(* What TypeOK needs to be inductive: after the wait the status is final.  *)
AfterWait ==
  pc \in {"LastEvents", "DescribeForHistory", "History"} =>
    status \in Final /\ ~opt.async /\ opt.type = "STANDARD"

(* While it waits an execution has been started, for a command that is to  *)
(* wait for it; only an interrupted command comes to stop it.              *)
WhileWaiting ==
  /\ pc \in {"DescribeExecution", "Select"} \cup CallsToStop =>
       ~opt.async /\ opt.type = "STANDARD" /\ execution # "NONE"
  /\ pc \in CallsToStop => canceled
  /\ pc = "StartSyncExecution" => opt.type = "EXPRESS" /\ ~opt.async
  /\ pc = "StartExecution" => opt.type = "STANDARD" \/ opt.async

(* The inductive invariant behind the theorems. *)
IInv == TypeOK /\ AfterWait /\ WhileWaiting

EndsWell == Running /\ pc' = "ok"

(* A command that was not told --async and succeeds has waited for the end *)
(* of its execution (sfn_service.go:794-839, 739-748).                     *)
SuccessMeansEnded == [][EndsWell /\ ~opt.async => execution' \in Final]_vars

(* The command stops an execution only when the user has interrupted it,   *)
(* however the interrupt, the ticks and the end of the execution fall      *)
(* (sfn_service.go:804-839).                                               *)
StopsOnlyWhenInterrupted ==
  [][Running /\ pc' # pc /\ execution = "RUNNING" /\ execution' = "ABORTED"
       => canceled]_vars

(* With --dump-history an execution that failed is a failed command; one   *)
(* that was aborted or timed out is not (execute.go:77-106).               *)
FailureReported ==
  [][EndsWell /\ opt.dump /\ ~opt.async /\ opt.type = "STANDARD" =>
       execution' # "FAILED"]_vars

(* Once the execution has ended, or the user has interrupted it, the       *)
(* command ends; neither a tick nor the race of the two keeps it waiting   *)
(* (sfn_service.go:802-839).                                               *)
CommandEnds == (Running /\ (canceled \/ execution \in Final)) ~> pc \in Ended

=============================================================================
