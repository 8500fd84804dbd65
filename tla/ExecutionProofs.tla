--------------------------- MODULE ExecutionProofs ---------------------------
(***************************************************************************)
(* Execution for every set of command lines and every fault: its inductive *)
(* invariant, and the action properties that follow from it.               *)
(***************************************************************************)
EXTENDS ExecutionProps, TLAPS

(* A command that ends gets options a command may be started with. *)
LEMMA AnyOptionIn == AnyOption \in Options
BY OptionsAssumption DEF AnyOption

(* The names of the calls and of the ends do not overlap. *)
LEMMA Labels ==
  /\ Calls \cap Ended = {}
  /\ Calls = {"DescribeStateMachine", "StartExecution", "StartSyncExecution",
              "DescribeExecution", "LastEvents", "DescribeForHistory",
              "History", "DescribeToStop", "StopExecution", "Select"}
BY DEF Calls, CallsOnContext, CallsToStop, Ended

LEMMA InitInv == Init => IInv
<1> SUFFICES ASSUME Init PROVE IInv
  OBVIOUS
<1>1. TypeOK
  BY AnyOptionIn DEF Init, TypeOK, Statuses, Final, Ended
<1>2. AfterWait /\ WhileWaiting
  BY DEF Init, AfterWait, WhileWaiting, CallsToStop
<1> QED BY <1>1, <1>2 DEF IInv

(* Every end of the command keeps the invariant. *)
LEMMA EndKeeps ==
  ASSUME IInv, NEW l \in Ended, NEW s, Goto(l, s), execution' \in Statuses
  PROVE  IInv'
<1>1. TypeOK'
  BY AnyOptionIn DEF IInv, TypeOK, Goto, Statuses, Final
<1>2. pc' \in Ended
  BY DEF Goto
<1>3. AfterWait' /\ WhileWaiting'
  BY <1>2 DEF AfterWait, WhileWaiting, CallsToStop, Ended
<1> QED BY <1>1, <1>3 DEF IInv

(* Every action of the command keeps it. *)
LEMMA WorkInv == IInv /\ Work => IInv'
<1> SUFFICES ASSUME IInv, Work PROVE IInv'
  OBVIOUS
<1> USE DEF Statuses, Final
<1>0. TypeOK /\ AfterWait /\ WhileWaiting
  BY DEF IInv
<1>1. CASE DescribeStateMachine
  <2>1. opt.type \in {"STANDARD", "EXPRESS"}
    BY <1>0, OptionsAssumption DEF TypeOK, OptionSet
  <2>2. CASE opt.type = "EXPRESS" /\ ~opt.async
    BY <1>0, <1>1, <2>2 DEF DescribeStateMachine, Call, Goto, IInv, TypeOK,
      AfterWait, WhileWaiting, Ended, Calls, CallsOnContext, CallsToStop
  <2>3. CASE opt.type = "STANDARD" \/ opt.async
    <3>1. pc' = "StartExecution" /\ status' = "NONE"
          /\ UNCHANGED <<opt, canceled, execution>>
      BY <1>1, <2>3 DEF DescribeStateMachine, Goto, Ended
    <3> QED BY <1>0, <2>3, <3>1 DEF IInv, TypeOK, AfterWait, WhileWaiting,
      Calls, CallsOnContext, CallsToStop
  <2> QED BY <2>1, <2>2, <2>3
<1>2. CASE StartExecution
  <2>1. CASE opt.async
    <3>1. Goto("ok", "NONE") /\ execution' \in Statuses
      BY <1>2, <2>1 DEF StartExecution
    <3> QED BY <3>1, EndKeeps DEF Ended
  <2>2. CASE ~opt.async
    BY <1>0, <1>2, <2>2 DEF StartExecution, Call, Goto, IInv, TypeOK, AfterWait,
      WhileWaiting, Ended, Calls, CallsOnContext, CallsToStop
  <2> QED BY <2>1, <2>2
<1>3. CASE StartSyncExecution
  <2>1. Goto("ok", "NONE") /\ execution' \in Statuses
    BY <1>3 DEF StartSyncExecution
  <2> QED BY <2>1, EndKeeps DEF Ended
<1>4. CASE StartUnnoticed
  <2>1. Goto("error", "NONE") /\ execution' \in Statuses
    BY <1>4 DEF StartUnnoticed
  <2> QED BY <2>1, EndKeeps DEF Ended
<1>5. CASE DescribeExecution
  BY <1>0, <1>5 DEF DescribeExecution, Call, Goto, IInv, TypeOK, AfterWait,
    WhileWaiting, Ended, Calls, CallsOnContext, CallsToStop
<1>6. CASE Tick
  BY <1>0, <1>6 DEF Tick, Goto, IInv, TypeOK, AfterWait, WhileWaiting, Ended,
    Calls, CallsOnContext, CallsToStop
<1>7. CASE Interrupted
  BY <1>0, <1>7 DEF Interrupted, Goto, IInv, TypeOK, AfterWait, WhileWaiting,
    Ended, Calls, CallsOnContext, CallsToStop
<1>8. CASE DescribeToStop
  <2>1. CASE execution = "RUNNING"
    BY <1>0, <1>8, <2>1 DEF DescribeToStop, Goto, IInv, TypeOK, AfterWait,
      WhileWaiting, Ended, Calls, CallsOnContext, CallsToStop
  <2>2. CASE execution # "RUNNING"
    <3>1. Goto("error", execution) /\ execution' \in Statuses
      BY <1>0, <1>8, <2>2 DEF DescribeToStop, TypeOK
    <3> QED BY <3>1, EndKeeps DEF Ended
  <2> QED BY <2>1, <2>2
<1>9. CASE StopExecution
  <2>1. Goto("error", status) /\ execution' \in Statuses
    BY <1>0, <1>9 DEF StopExecution, TypeOK
  <2> QED BY <2>1, EndKeeps DEF Ended
<1>10. CASE LastEvents
  <2>1. CASE opt.dump
    BY <1>0, <1>10, <2>1 DEF LastEvents, Call, Goto, IInv, TypeOK, AfterWait,
      WhileWaiting, Ended, Calls, CallsOnContext, CallsToStop
  <2>2. CASE ~opt.dump
    <3>1. Goto("ok", status) /\ execution' \in Statuses
      BY <1>0, <1>10, <2>2 DEF LastEvents, TypeOK
    <3> QED BY <3>1, EndKeeps DEF Ended
  <2> QED BY <2>1, <2>2
<1>11. CASE DescribeForHistory
  BY <1>0, <1>11 DEF DescribeForHistory, Call, Goto, IInv, TypeOK, AfterWait,
    WhileWaiting, Ended, Calls, CallsOnContext, CallsToStop
<1>12. CASE History
  <2>1. /\ Goto(IF status = "FAILED" THEN "error" ELSE "ok", status)
        /\ execution' \in Statuses
    BY <1>0, <1>12 DEF History, Report, TypeOK
  <2> QED BY <2>1, EndKeeps DEF Ended
<1>13. CASE CallFails
  <2>1. Goto("error", status) /\ execution' \in Statuses
    BY <1>0, <1>13 DEF CallFails, TypeOK
  <2> QED BY <2>1, EndKeeps DEF Ended
<1> QED
  BY <1>1, <1>2, <1>3, <1>4, <1>5, <1>6, <1>7, <1>8, <1>9, <1>10, <1>11,
     <1>12, <1>13 DEF Work

(* So does everything else that happens. *)
LEMMA NextInv == IInv /\ [Next]_vars => IInv'
<1> SUFFICES ASSUME IInv, [Next]_vars PROVE IInv'
  OBVIOUS
<1>0. TypeOK /\ AfterWait /\ WhileWaiting
  BY DEF IInv
<1>1. ASSUME NEW o \in Options, Start(o) PROVE IInv'
  BY <1>0, <1>1 DEF Start, IInv, TypeOK, AfterWait, WhileWaiting, Statuses,
    Final, Calls, CallsOnContext, CallsToStop
<1>2. CASE Work
  BY <1>2, WorkInv
<1>3. CASE Crash
  <2>1. Goto("crashed", status) /\ execution' \in Statuses
    BY <1>0, <1>3 DEF Crash, TypeOK
  <2> QED BY <2>1, EndKeeps DEF Ended
<1>4. CASE Interrupt
  BY <1>0, <1>4 DEF Interrupt, IInv, TypeOK, AfterWait, WhileWaiting
<1>5. CASE ExecutionEnds
  BY <1>0, <1>5 DEF ExecutionEnds, IInv, TypeOK, AfterWait, WhileWaiting,
    Statuses, Final
<1>6. CASE UNCHANGED vars
  BY <1>0, <1>6 DEF vars, IInv, TypeOK, AfterWait, WhileWaiting
<1> QED BY <1>1, <1>2, <1>3, <1>4, <1>5, <1>6 DEF Next

(* The inductive invariant holds in every reachable state (sfn_service.go: *)
(* 657-870, execute.go:29-113).                                            *)
THEOREM Invariance == Spec => []IInv
BY InitInv, NextInv, PTL DEF Spec

-----------------------------------------------------------------------------

(* The ways the command has of ending well. *)
LEMMA WaysToEndWell ==
  ASSUME IInv, [Next]_vars, EndsWell
  PROVE  StartExecution \/ StartSyncExecution \/ LastEvents \/ History
<1>0. pc' = "ok" /\ pc # pc' /\ Running
  BY Labels DEF EndsWell, Running, Ended
<1>1. ASSUME NEW o \in Options PROVE ~Start(o)
  BY <1>0 DEF Start
<1>2. ~Crash /\ ~Interrupt /\ ~ExecutionEnds /\ ~(UNCHANGED vars)
  BY <1>0 DEF Crash, Interrupt, ExecutionEnds, vars, Goto
<1>3. /\ ~DescribeStateMachine /\ ~StartUnnoticed /\ ~DescribeExecution /\ ~Tick
      /\ ~Interrupted /\ ~DescribeToStop /\ ~StopExecution
      /\ ~DescribeForHistory /\ ~CallFails
  BY <1>0 DEF DescribeStateMachine, StartUnnoticed, DescribeExecution, Tick,
    Interrupted, DescribeToStop, StopExecution, DescribeForHistory, CallFails, Goto
<1> QED BY <1>1, <1>2, <1>3 DEF Next, Work

(* A command that was not told --async and succeeds has waited for the end *)
(* of its execution (sfn_service.go:794-839, 739-748).                     *)
THEOREM Waits == Spec => SuccessMeansEnded
<1>1. IInv /\ [Next]_vars => [EndsWell /\ ~opt.async => execution' \in Final]_vars
  <2> SUFFICES ASSUME IInv, [Next]_vars, EndsWell, ~opt.async
               PROVE  execution' \in Final
    OBVIOUS
  <2>1. CASE StartExecution
    <3>1. pc' = "DescribeExecution"
      BY <2>1 DEF StartExecution, Goto
    <3> QED BY <3>1 DEF EndsWell
  <2>2. CASE StartSyncExecution
    BY <2>2 DEF StartSyncExecution
  <2>3. CASE LastEvents \/ History
    <3>1. status \in Final /\ execution' = execution
      BY <2>3 DEF LastEvents, History, Call, IInv, AfterWait
    <3> QED BY <3>1 DEF IInv, TypeOK
  <2> QED BY <2>1, <2>2, <2>3, WaysToEndWell
<1> QED BY <1>1, Invariance, PTL DEF Spec, SuccessMeansEnded

(* With --dump-history an execution that failed is a failed command        *)
(* (execute.go:77-106).                                                    *)
THEOREM Reports == Spec => FailureReported
<1>1. IInv /\ [Next]_vars =>
        [EndsWell /\ opt.dump /\ ~opt.async /\ opt.type = "STANDARD" =>
           execution' # "FAILED"]_vars
  <2> SUFFICES ASSUME IInv, [Next]_vars, EndsWell, opt.dump, ~opt.async,
                      opt.type = "STANDARD"
               PROVE  execution' # "FAILED"
    OBVIOUS
  <2>1. CASE StartExecution
    <3>1. pc' = "DescribeExecution"
      BY <2>1 DEF StartExecution, Goto
    <3> QED BY <3>1 DEF EndsWell
  <2>2. CASE StartSyncExecution
    BY <2>2 DEF StartSyncExecution, Call, IInv, WhileWaiting
  <2>3. CASE LastEvents
    <3>1. pc' = "DescribeForHistory"
      BY <2>3 DEF LastEvents, Goto
    <3> QED BY <3>1 DEF EndsWell
  <2>4. CASE History
    <3>1. status # "FAILED"
      BY <2>4 DEF History, Report, Goto, EndsWell
    <3>2. execution' = status
      BY <2>4 DEF History, Call, IInv, AfterWait, TypeOK
    <3> QED BY <3>1, <3>2
  <2> QED BY <2>1, <2>2, <2>3, <2>4, WaysToEndWell
<1> QED BY <1>1, Invariance, PTL DEF Spec, FailureReported

(* The command stops an execution only when the user has interrupted it    *)
(* (sfn_service.go:804-839).                                               *)
THEOREM StopsOnRequest == Spec => StopsOnlyWhenInterrupted
<1>1. IInv /\ [Next]_vars =>
        [Running /\ pc' # pc /\ execution = "RUNNING" /\ execution' = "ABORTED"
           => canceled]_vars
  <2> SUFFICES ASSUME IInv, [Next]_vars, Running, pc' # pc,
                      execution = "RUNNING", execution' = "ABORTED"
               PROVE  canceled
    OBVIOUS
  <2>1. ASSUME NEW o \in Options PROVE ~Start(o)
    BY Labels DEF Start, Running
  <2>2. ~Crash /\ ~Interrupt /\ ~ExecutionEnds /\ ~(UNCHANGED vars)
    BY DEF Crash, Interrupt, ExecutionEnds, vars
  <2>3. /\ ~DescribeStateMachine /\ ~StartExecution /\ ~StartSyncExecution
        /\ ~StartUnnoticed /\ ~DescribeExecution /\ ~Tick /\ ~Interrupted
        /\ ~DescribeToStop /\ ~LastEvents /\ ~DescribeForHistory /\ ~History
        /\ ~CallFails
    BY DEF DescribeStateMachine, StartExecution, StartSyncExecution,
      StartUnnoticed, DescribeExecution, Tick, Interrupted, DescribeToStop,
      LastEvents, DescribeForHistory, History, CallFails
  <2>4. StopExecution
    BY <2>1, <2>2, <2>3 DEF Next, Work
  <2> QED BY <2>4 DEF StopExecution, IInv, WhileWaiting, CallsToStop
<1> QED BY <1>1, Invariance, PTL DEF Spec, StopsOnlyWhenInterrupted

=============================================================================
