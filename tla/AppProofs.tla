------------------------------ MODULE AppProofs ------------------------------
(***************************************************************************)
(* Proofs about App for every set of processes, of aliases, rules,         *)
(* schedules and command lines, and every choice of faults and bounds.     *)
(*                                                                         *)
(* A run of App is a run of each of its services, so that the services'    *)
(* invariants and theorems hold of it; App adds what holds between them.   *)
(***************************************************************************)
EXTENDS AppProps, TLAPS

-----------------------------------------------------------------------------
(* What the services assume of their constants *)

LEMMA MachineAssumptions ==
  /\ SF!OptionsAssumption /\ SF!NamesAssumption
  /\ SF!BoundsAssumption /\ SF!FaultsAssumption
<1>1. MachineOptions \subseteq SF!OptionSet
  <2>1. ASSUME NEW c \in Commands, OnMachine(c)
        PROVE  MachineOption(c) \in SF!OptionSet
    <3>1. c \in CommandSet
      BY CommandsAssumption
    <3>2. /\ c.op \in {"deploy", "rollback", "versions"}
          /\ c.alias \in Aliases /\ c.keep \in Nat /\ c.dryRun \in BOOLEAN
      BY <2>1, <3>1 DEF OnMachine, CommandSet
    <3>. QED  BY <3>2 DEF MachineOption, SF!OptionSet
  <2>. QED  BY <2>1 DEF MachineOptions
<1>2. MachineOptions # {}
  BY CommandsAssumption DEF MachineOptions
<1>3. ServiceFaults \cup {"deletion"} \subseteq SF!FaultKinds
  BY DEF ServiceFaults, SF!FaultKinds
<1>. QED
  BY <1>1, <1>2, <1>3, MachineAssumption
     DEF SF!OptionsAssumption, SF!NamesAssumption, SF!BoundsAssumption, SF!FaultsAssumption

(* What a request for triggers is like, whatever the triggers. *)
LEMMA RequestFields ==
  ASSUME NEW c \in Commands, NEW configured, NEW known \in BOOLEAN
  PROVE  LET q == TriggerRequest(c, configured, known) IN
         /\ q.op = TriggerOp(c) /\ q.op \in {"deploy", "delete", "look"}
         /\ q.alias = (IF known THEN c.alias ELSE Unknown)
         /\ q.wanted \subseteq configured /\ q.enabled \subseteq configured
         /\ q.keepState \in BOOLEAN
         /\ q.op = "delete" => q.wanted = {} /\ ~q.keepState /\ c.op = "delete"
         /\ q.op = "deploy" => c.op = "deploy"
         /\ c.alias \in Aliases /\ c.alias # Unknown
<1>1. c \in CommandSet /\ c.alias \in Aliases /\ c.alias # Unknown
  BY CommandsAssumption, TriggersAssumption DEF CommandSet
<1>2. TriggerOp(c) \in {"deploy", "delete", "look"}
      /\ (TriggerOp(c) # "look" => TriggerOp(c) = c.op)
  BY DEF TriggerOp, ReadOnly
<1>. QED  BY <1>1, <1>2 DEF TriggerRequest

LEMMA RulesAssumptions ==
  EB!RequestsAssumption /\ EB!OwnIdAssumption /\ EB!ArnsAssumption
<1>1. ASSUME NEW c \in Commands, NEW known \in BOOLEAN,
             known \/ TriggerOp(c) = "deploy"
      PROVE  RuleRequest(c, known) \in EB!RequestSet
  <2>1. c.rules \in SUBSET Rules
    BY CommandsAssumption DEF CommandSet
  <2>. QED
    BY <1>1, <2>1, RequestFields
       DEF RuleRequest, TriggerRequest, EB!RequestSet, EB!Unknown, Unknown
<1>2. RuleRequests \subseteq EB!RequestSet /\ RuleRequests # {}
  BY <1>1, CommandsAssumption DEF RuleRequests
<1>. QED
  BY <1>2, TriggersAssumption
     DEF EB!RequestsAssumption, EB!OwnIdAssumption, EB!ArnsAssumption, EB!Nothing,
         EB!Unknown, Unknown

LEMMA SchedulesAssumptions ==
  /\ SC!RequestsAssumption /\ SC!GroupsAssumption
  /\ SC!TimingAssumption /\ SC!ArnsAssumption
<1>1. ASSUME NEW c \in Commands, NEW known \in BOOLEAN,
             known \/ TriggerOp(c) = "deploy"
      PROVE  ScheduleRequest(c, known) \in SC!RequestSet
  <2>1. c.schedules \in SUBSET Names
    BY CommandsAssumption DEF CommandSet
  <2>. QED
    BY <1>1, <2>1, RequestFields
       DEF ScheduleRequest, TriggerRequest, SC!RequestSet, SC!Unknown, Unknown
<1>2. ScheduleRequests \subseteq SC!RequestSet /\ ScheduleRequests # {}
  BY <1>1, CommandsAssumption DEF ScheduleRequests
<1>3. SC!GroupsAssumption
  BY TriggersAssumption DEF SC!GroupsAssumption, SC!Groups
<1>4. SC!TimingAssumption
  BY DEF SC!TimingAssumption
<1>. QED
  BY <1>2, <1>3, <1>4, TriggersAssumption
     DEF SC!RequestsAssumption, SC!ArnsAssumption, SC!Nothing, SC!Unknown, Unknown

-----------------------------------------------------------------------------
(* A step of App is a step of each service *)

LEMMA StillMachine ==
  ASSUME UNCHANGED machine
  PROVE  UNCHANGED SF!vars
BY DEF machine, SF!vars

LEMMA StillBus ==
  ASSUME UNCHANGED bus
  PROVE  UNCHANGED EB!vars
BY DEF bus, EB!vars

LEMMA StillScheduler ==
  ASSUME UNCHANGED scheduler
  PROVE  UNCHANGED SC!vars
BY DEF scheduler, SC!vars

(* The services' part in a step: p at most moves on, is stopped or starts. *)
MachineMoves(p) ==
  SF!Work(p) \/ SF!Crash(p) \/ UNCHANGED machine

BusMoves(p) ==
  \/ EB!Work(p) \/ EB!Crash(p) \/ UNCHANGED bus
  \/ \E known \in BOOLEAN :
       /\ EB!Start(p, RuleRequest(cmd[p], known))
       /\ known \/ TriggerOp(cmd[p]) = "deploy"

SchedulerMoves(p) ==
  \/ SC!Work(p) \/ SC!Crash(p) \/ UNCHANGED scheduler
  \/ \E known \in BOOLEAN :
       /\ SC!Start(p, ScheduleRequest(cmd[p], known))
       /\ known \/ TriggerOp(cmd[p]) = "deploy"

LEMMA AbandonMoves ==
  ASSUME NEW p, Abandon(p)
  PROVE  MachineMoves(p) /\ BusMoves(p) /\ SchedulerMoves(p)
BY DEF Abandon, MachineMoves, BusMoves, SchedulerMoves

LEMMA ResumeSchedulesMoves ==
  ASSUME NEW p, ResumeSchedules(p)
  PROVE  SchedulerMoves(p)
BY DEF ResumeSchedules, SchedulerMoves, SC!Work

(* A deployment that knows no state machine is not a dry run. *)
LEMMA DeploysUnknown ==
  ASSUME NEW p, cmd[p].op = "deploy", NEW known \in BOOLEAN, ~(cmd[p].dryRun /\ ~known)
  PROVE  known \/ TriggerOp(cmd[p]) = "deploy"
BY DEF TriggerOp, ReadOnly

LEMMA AnswerTypes ==
  ASSUME NEW p, Placed(p), IInv, NEW known \in Answers(p)
  PROVE  known \in BOOLEAN /\ (known => status # "ABSENT" \/ own[p].found)
BY DEF Answers, Present, IInv, TypeOK

LEMMA RulesStepMoves ==
  ASSUME IInv, NEW p \in Procs, RulesStep(p)
  PROVE  MachineMoves(p) /\ BusMoves(p) /\ SchedulerMoves(p)
<1>1. MachineMoves(p) /\ BusMoves(p)
  BY DEF RulesStep, MachineMoves, BusMoves
<1>2. AfterRules(p, ebPc'[p])
  BY DEF RulesStep
<1>3. CASE UNCHANGED scheduler \/ SC!Crash(p)
  BY <1>1, <1>3 DEF SchedulerMoves
<1>4. CASE SC!Start(p, ScheduleRequest(cmd[p], TRUE))
  BY <1>1, <1>4 DEF SchedulerMoves
<1>5. CASE ResumeSchedules(p)
  BY <1>1, <1>5, ResumeSchedulesMoves
<1>. QED  BY <1>2, <1>3, <1>4, <1>5 DEF AfterRules

LEMMA DeleteStateMachineMoves ==
  ASSUME NEW p \in Procs, DeleteStateMachine(p)
  PROVE  BusMoves(p) /\ SchedulerMoves(p)
<1>1. Resume(p)
  BY DEF DeleteStateMachine
<1>2. BusMoves(p)
  BY <1>1 DEF Resume, BusMoves, EB!Work
<1>3. SchedulerMoves(p)
  BY <1>1, ResumeSchedulesMoves DEF Resume, SchedulerMoves
<1>. QED  BY <1>2, <1>3

(* What the services do in a step of p. *)
LEMMA StepMoves ==
  ASSUME IInv, NEW p \in Procs, Step(p) \/ Confirm(p) \/ Refuse(p) \/ Crash(p)
  PROVE  /\ MachineMoves(p) \/ (DeleteStateMachine(p) /\ SF!DeletionStarts)
         /\ BusMoves(p) /\ SchedulerMoves(p)
<1>0. Placed(p)
  BY DEF IInv
<1>1. CASE MachineStep(p)
  BY <1>1 DEF MachineStep, MachineMoves, BusMoves, SchedulerMoves
<1>2. CASE GetArnForRules(p)
  <2>1. PICK known \in Answers(p) :
          \/ UNCHANGED bus
          \/ ~(cmd[p].dryRun /\ ~known) /\ EB!Start(p, RuleRequest(cmd[p], known))
    BY <1>2 DEF GetArnForRules
  <2>2. cmd[p].op = "deploy" /\ known \in BOOLEAN
    BY <1>0, <1>2, AnswerTypes DEF GetArnForRules, Placed
  <2>3. BusMoves(p)
    BY <2>1, <2>2, DeploysUnknown DEF BusMoves
  <2>. QED  BY <1>2, <2>3 DEF GetArnForRules, MachineMoves, SchedulerMoves
<1>3. CASE GetArnForSchedules(p)
  <2>1. PICK known \in Answers(p) :
          \/ UNCHANGED scheduler
          \/ ~(cmd[p].dryRun /\ ~known) /\ SC!Start(p, ScheduleRequest(cmd[p], known))
    BY <1>3 DEF GetArnForSchedules
  <2>2. cmd[p].op = "deploy" /\ known \in BOOLEAN
    BY <1>0, <1>3, AnswerTypes DEF GetArnForSchedules, Placed
  <2>3. SchedulerMoves(p)
    BY <2>1, <2>2, DeploysUnknown DEF SchedulerMoves
  <2>. QED  BY <1>3, <2>3 DEF GetArnForSchedules, MachineMoves, BusMoves
<1>4. CASE DescribeStateMachine(p)
  BY <1>4 DEF DescribeStateMachine, MachineMoves, BusMoves, SchedulerMoves
<1>5. CASE DescribeLatest(p) \/ Confirm(p) \/ DeleteAgain(p) \/ CallFails(p)
  BY <1>5 DEF DescribeLatest, Confirm, DeleteAgain, CallFails, MachineMoves, BusMoves,
     SchedulerMoves
<1>6. CASE RulesStep(p)
  BY <1>6, RulesStepMoves
<1>7. CASE SchedulesStep(p)
  BY <1>7 DEF SchedulesStep, AfterSchedules, MachineMoves, BusMoves, SchedulerMoves
<1>8. CASE DeleteStateMachine(p)
  <2>1. MachineMoves(p) \/ SF!DeletionStarts
    BY <1>8 DEF DeleteStateMachine, MachineMoves
  <2>. QED  BY <1>8, <2>1, DeleteStateMachineMoves
<1>9. CASE DeleteFails(p) \/ Refuse(p) \/ Crash(p)
  BY <1>9, AbandonMoves DEF DeleteFails, Refuse, Crash
<1>. QED
  BY <1>1, <1>2, <1>3, <1>4, <1>5, <1>6, <1>7, <1>8, <1>9 DEF Step

(* A step of App is a step of each service, or none. *)
LEMMA ServiceSteps ==
  ASSUME IInv, [Next]_vars
  PROVE  [SF!Next]_(SF!vars) /\ [EB!Next]_(EB!vars) /\ [SC!Next]_(SC!vars)
<1>1. ASSUME NEW p \in Procs, NEW c \in Commands, Start(p, c)
      PROVE  [SF!Next]_(SF!vars) /\ UNCHANGED <<bus, scheduler>>
  <2>1. CASE OnMachine(c)
    <3>1. SF!Start(p, MachineOption(c)) /\ MachineOption(c) \in MachineOptions
      BY <1>1, <2>1 DEF Start, MachineOptions
    <3>2. SF!Next
      BY <3>1 DEF SF!Next
    <3>. QED  BY <1>1, <3>2 DEF Start
  <2>2. CASE ~OnMachine(c)
    BY <1>1, <2>2, StillMachine DEF Start
  <2>. QED  BY <2>1, <2>2
<1>2. ASSUME NEW p \in Procs, Step(p) \/ Confirm(p) \/ Refuse(p) \/ Crash(p)
      PROVE  [SF!Next]_(SF!vars) /\ [EB!Next]_(EB!vars) /\ [SC!Next]_(SC!vars)
  <2>0. cmd[p] \in Commands
    BY DEF IInv, TypeOK
  <2>1. [SF!Next]_(SF!vars)
    BY <1>2, StepMoves, StillMachine DEF MachineMoves, SF!Next
  <2>2. [EB!Next]_(EB!vars)
    <3>1. CASE EB!Work(p) \/ EB!Crash(p) \/ UNCHANGED bus
      BY <3>1, StillBus DEF EB!Next
    <3>2. ASSUME NEW known \in BOOLEAN, EB!Start(p, RuleRequest(cmd[p], known)),
                 known \/ TriggerOp(cmd[p]) = "deploy"
          PROVE  EB!Next
      <4>1. RuleRequest(cmd[p], known) \in RuleRequests
        BY <2>0, <3>2 DEF RuleRequests
      <4>. QED  BY <3>2, <4>1 DEF EB!Next
    <3>. QED  BY <1>2, <3>1, <3>2, StepMoves DEF BusMoves
  <2>3. [SC!Next]_(SC!vars)
    <3>1. CASE SC!Work(p) \/ SC!Crash(p) \/ UNCHANGED scheduler
      BY <3>1, StillScheduler DEF SC!Next
    <3>2. ASSUME NEW known \in BOOLEAN, SC!Start(p, ScheduleRequest(cmd[p], known)),
                 known \/ TriggerOp(cmd[p]) = "deploy"
          PROVE  SC!Next
      <4>1. ScheduleRequest(cmd[p], known) \in ScheduleRequests
        BY <2>0, <3>2 DEF ScheduleRequests
      <4>. QED  BY <3>2, <4>1 DEF SC!Next
    <3>. QED  BY <1>2, <3>1, <3>2, StepMoves DEF SchedulerMoves
  <2>. QED  BY <2>1, <2>2, <2>3
<1>3. CASE MachineGone
  BY <1>3, StillMachine, StillBus, StillScheduler DEF MachineGone
<1>4. CASE UNCHANGED vars
  BY <1>4, StillMachine, StillBus, StillScheduler DEF vars
<1>. QED  BY <1>1, <1>2, <1>3, <1>4, StillBus, StillScheduler DEF Next

-----------------------------------------------------------------------------
(* The services' invariants hold in App *)

LEMMA ServicesInit ==
  ASSUME Init
  PROVE  SF!IInv /\ EB!IInv /\ SC!IInv
<1>1. SF!IInv
  BY MachineAssumptions, SF!InitInv DEF Init
<1>2. EB!IInv
  BY RulesAssumptions, EB!InitInv DEF Init
<1>3. SC!IInv
  BY SchedulesAssumptions, SC!InitInv DEF Init
<1>. QED  BY <1>1, <1>2, <1>3

LEMMA ServicesKeep ==
  ASSUME IInv, [Next]_vars
  PROVE  SF!IInv' /\ EB!IInv' /\ SC!IInv'
<1>0. SF!IInv /\ EB!IInv /\ SC!IInv
  BY DEF IInv
<1>1. SF!IInv'
  BY <1>0, MachineAssumptions, ServiceSteps, SF!NextInv
<1>2. EB!IInv'
  BY <1>0, RulesAssumptions, ServiceSteps, EB!NextInv
<1>3. SC!IInv'
  BY <1>0, SchedulesAssumptions, ServiceSteps, SC!NextInv
<1>. QED  BY <1>1, <1>2, <1>3

-----------------------------------------------------------------------------
(* What a step of p leaves as it is *)

(* What App's invariant says of process p. *)
Local(p) ==
  /\ SF!Running(p) <=> stage[p] = "machine"
  /\ EB!Running(p) \/ SC!Running(p) =>
       stage[p] \in {"rules", "schedules", "confirm", "DeleteStateMachine"}
  /\ Asked(p) /\ Pointed(p) /\ Placed(p)

(* The types of App's own variables. *)
AppOK ==
  /\ gone \in BOOLEAN
  /\ stage \in [Procs -> Ended \cup Stages]
  /\ cmd \in [Procs -> Commands]
  /\ own \in [Procs -> Memory]
  /\ alone \subseteq Procs

LEMMA InvParts ==
  IInv <=> SF!IInv /\ EB!IInv /\ SC!IInv /\ AppOK /\ \A p \in Procs : Local(p)
BY DEF IInv, TypeOK, AppOK, Local

(* What happened to the state machine and its aliases stays so. *)
Advances ==
  /\ status # "ABSENT" => status' # "ABSENT"
  /\ status = "DELETING" => status' = "DELETING"
  /\ \A a \in Aliases : Released(a) => Released(a)'

(* The services remember of q what they did. *)
Untouched(q) ==
  /\ sfPc'[q] = sfPc[q] /\ sfOpt'[q] = sfOpt[q]
  /\ ebPc'[q] = ebPc[q] /\ ebReq'[q] = ebReq[q] /\ ebMem'[q] = ebMem[q]
  /\ scPc'[q] = scPc[q] /\ scReq'[q] = scReq[q] /\ scMem'[q] = scMem[q]

LEMMA CommandTypes ==
  ASSUME AppOK, NEW p \in Procs
  PROVE  /\ cmd[p] \in Commands
         /\ cmd[p].op \in {"deploy", "delete", "rollback", "versions", "status", "diff"}
         /\ cmd[p].alias \in Aliases
         /\ cmd[p].dryRun \in BOOLEAN /\ cmd[p].skipMachine \in BOOLEAN
         /\ stage[p] \in Ended \cup Stages
         /\ own[p] \in Memory
<1>1. cmd[p] \in CommandSet
  BY CommandsAssumption DEF AppOK
<1>. QED  BY <1>1 DEF AppOK, CommandSet

(* A process that nothing happens to keeps what the invariant says of it.  *)
LEMMA LocalStays ==
  ASSUME AppOK, NEW q \in Procs, Local(q), Advances, Untouched(q),
         stage'[q] = stage[q], cmd'[q] = cmd[q], own'[q] = own[q]
  PROVE  Local(q)'
<1>0. cmd[q].alias \in Aliases
  BY CommandTypes
<1>1. /\ SF!Running(q)' <=> SF!Running(q)
      /\ EB!Running(q)' <=> EB!Running(q)
      /\ SC!Running(q)' <=> SC!Running(q)
  BY DEF Untouched, SF!Running, EB!Running, SC!Running
<1>2. Asked(q)'
  BY <1>1 DEF Local, Asked, Advances, Untouched
<1>3. Pointed(q)'
  BY <1>0 DEF Local, Pointed, Advances, Untouched
<1>4. Placed(q)'
  BY <1>1 DEF Local, Placed, Advances, Untouched
<1>. QED  BY <1>1, <1>2, <1>3, <1>4 DEF Local

(* What p's service does to the state machine. *)
LEMMA MachineFrame ==
  ASSUME IInv, NEW p \in Procs, MachineMoves(p) \/ SF!DeletionStarts
  PROVE  /\ Advances
         /\ \A q \in Procs \ {p} : sfPc'[q] = sfPc[q] /\ sfOpt'[q] = sfOpt[q]
<1>0. SF!ProcsOK /\ SF!TypeOK /\ SF!IInv
  BY DEF IInv, SF!IInv, SF!TypeOK
<1>1. CASE SF!Work(p) \/ SF!Crash(p)
  <2>1. \A q \in Procs \ {p} : sfPc'[q] = sfPc[q] /\ sfOpt'[q] = sfOpt[q]
    BY <1>0, <1>1, MachineAssumptions, SF!WorkFrame
  <2>2. \/ status = "ABSENT" /\ status' = "ACTIVE" /\ routing' = routing
        \/ /\ status = "ACTIVE" /\ status' = "ACTIVE"
           /\ routing' = [routing EXCEPT ![SF!MyAlias(p)] = {sfMem[p].target}]
        \/ UNCHANGED <<status, routing>>
    BY <1>1, MachineAssumptions, SF!CloudMoves
  <2>3. routing \in [Aliases -> SUBSET versions]
    BY <1>0 DEF SF!TypeOK, SF!CloudOK
  <2>4. Advances
    BY <2>2, <2>3 DEF Advances, Released
  <2>. QED  BY <2>1, <2>4
<1>2. CASE SF!DeletionStarts
  BY <1>2 DEF SF!DeletionStarts, Advances, Released
<1>3. CASE UNCHANGED machine
  BY <1>3 DEF machine, Advances, Released
<1>. QED  BY <1>1, <1>2, <1>3 DEF MachineMoves

LEMMA BusFrame ==
  ASSUME IInv, NEW p \in Procs, BusMoves(p)
  PROVE  \A q \in Procs \ {p} :
           ebPc'[q] = ebPc[q] /\ ebReq'[q] = ebReq[q] /\ ebMem'[q] = ebMem[q]
<1>0. EB!IInv /\ EB!TypeOK /\ EB!ProcsOK
  BY DEF IInv, EB!IInv, EB!TypeOK
<1>1. CASE EB!Work(p) \/ EB!Crash(p)
  BY <1>0, <1>1, RulesAssumptions, EB!WorkFrame
<1>2. CASE UNCHANGED bus
  BY <1>2 DEF bus
<1>3. ASSUME NEW q, EB!Start(p, q)
      PROVE  \A o \in Procs \ {p} :
               ebPc'[o] = ebPc[o] /\ ebReq'[o] = ebReq[o] /\ ebMem'[o] = ebMem[o]
  BY <1>0, <1>3 DEF EB!Start, EB!ProcsOK
<1>. QED  BY <1>1, <1>2, <1>3 DEF BusMoves

LEMMA SchedulerFrame ==
  ASSUME IInv, NEW p \in Procs, SchedulerMoves(p)
  PROVE  \A q \in Procs \ {p} :
           scPc'[q] = scPc[q] /\ scReq'[q] = scReq[q] /\ scMem'[q] = scMem[q]
<1>0. SC!IInv /\ SC!TypeOK /\ SC!ProcsOK
  BY DEF IInv, SC!IInv, SC!TypeOK
<1>1. CASE SC!Work(p) \/ SC!Crash(p)
  BY <1>0, <1>1, SchedulesAssumptions, SC!WorkFrame
<1>2. CASE UNCHANGED scheduler
  BY <1>2 DEF scheduler
<1>3. ASSUME NEW q, SC!Start(p, q)
      PROVE  \A o \in Procs \ {p} :
               scPc'[o] = scPc[o] /\ scReq'[o] = scReq[o] /\ scMem'[o] = scMem[o]
  BY <1>0, <1>3 DEF SC!Start, SC!ProcsOK
<1>. QED  BY <1>1, <1>2, <1>3 DEF SchedulerMoves

(* What Enter makes of App's own variables. *)
LEMMA EnterFrame ==
  ASSUME AppOK, NEW p \in Procs, NEW l \in Ended \cup Stages, NEW m, Enter(p, l, m),
         l \in Ended \/ m \in Memory
  PROVE  /\ stage'[p] = l
         /\ own'[p] = IF l \in Ended THEN Fresh ELSE m
         /\ cmd'[p] = IF l \in Ended THEN AnyCommand ELSE cmd[p]
         /\ \A q \in Procs \ {p} :
              stage'[q] = stage[q] /\ cmd'[q] = cmd[q] /\ own'[q] = own[q]
         /\ AppOK'
<1>1. AnyCommand \in Commands
  BY CommandsAssumption DEF AnyCommand
<1>2. Fresh \in Memory
  BY MachineAssumption DEF Fresh, Memory
<1>. QED  BY <1>1, <1>2 DEF Enter, AppOK

(* Once a process's services have ended, they have forgotten everything.   *)
LEMMA LocalEnded ==
  ASSUME SF!IInv', EB!IInv', SC!IInv', NEW p \in Procs, stage'[p] \in Ended,
         own'[p] = Fresh,
         ~SF!Running(p)', ~EB!Running(p)', ~SC!Running(p)'
  PROVE  Local(p)'
<1>1. sfPc'[p] \notin SF!Calls /\ sfPc'[p] \notin SF!Purging
  BY DEF SF!Running, SF!Purging, SF!Calls
<1>2. ebMem'[p] = EB!Fresh
  <2>1. ebPc'[p] \in EB!Ended \cup EB!Calls /\ EB!Phase(ebPc[p], ebReq[p], ebMem[p])'
    BY DEF EB!IInv, EB!TypeOK, EB!ProcsOK
  <2>. QED  BY <2>1 DEF EB!Phase, EB!Running
<1>3. scMem'[p] = SC!Fresh
  <2>1. scPc'[p] \in SC!Ended \cup SC!Calls /\ SC!Planned(scPc[p], scReq[p], scMem[p])'
    BY DEF SC!IInv, SC!TypeOK, SC!ProcsOK
  <2>. QED  BY <2>1 DEF SC!Planned, SC!Running
<1>4. ~own'[p].found /\ ~own'[p].deleting /\ ~ebMem'[p].again /\ ~scMem'[p].again
  BY <1>2, <1>3 DEF Fresh, EB!Fresh, SC!Fresh
<1>5. stage'[p] \notin Stages
  BY DEF Ended, Stages
<1>. QED
  BY <1>1, <1>4, <1>5 DEF Local, Asked, Pointed, Placed, Stages, WithTriggers

-----------------------------------------------------------------------------
(* Every step of p keeps what the invariant says of p *)

(* After a step of p: p fits the invariant, the others are where they were.*)
Keeps(p) ==
  /\ AppOK' /\ Local(p)'
  /\ \A q \in Procs \ {p} : stage'[q] = stage[q] /\ cmd'[q] = cmd[q] /\ own'[q] = own[q]

ServicesKept == SF!IInv' /\ EB!IInv' /\ SC!IInv'

(* Only a deployment may ask for rules without knowing a state machine.    *)
LEMMA RulesKnown ==
  ASSUME IInv, NEW p \in Procs, EB!Running(p)
  PROVE  /\ ebReq[p].op = TriggerOp(cmd[p])
         /\ ebReq[p].op # "deploy" => status # "ABSENT"
<1>0. AppOK /\ Local(p) /\ EB!IInv
  BY InvParts
<1>1. ebReq[p] \in EB!RequestSet
  BY <1>0, RulesAssumptions DEF EB!IInv, EB!TypeOK, EB!ProcsOK, EB!RequestsAssumption
<1>2. PICK known \in BOOLEAN :
        ebReq[p] = RuleRequest(cmd[p], known) /\ (known => status # "ABSENT")
  BY <1>0 DEF Local, Asked
<1>3. /\ ebReq[p].op = TriggerOp(cmd[p])
      /\ ebReq[p].alias = IF known THEN cmd[p].alias ELSE Unknown
  BY <1>0, <1>2, CommandTypes, RequestFields DEF RuleRequest
<1>4. ebReq[p].op # "deploy" => ebReq[p].alias # Unknown
  BY <1>1 DEF EB!RequestSet, EB!Unknown, Unknown
<1>5. CASE known
  BY <1>2, <1>3, <1>5
<1>6. CASE ~known
  BY <1>3, <1>4, <1>6
<1>. QED  BY <1>5, <1>6

LEMMA SchedulesKnown ==
  ASSUME IInv, NEW p \in Procs, SC!Running(p)
  PROVE  /\ scReq[p].op = TriggerOp(cmd[p])
         /\ scReq[p].op # "deploy" => status # "ABSENT"
<1>0. AppOK /\ Local(p) /\ SC!IInv
  BY InvParts
<1>1. scReq[p] \in SC!RequestSet
  BY <1>0, SchedulesAssumptions DEF SC!IInv, SC!TypeOK, SC!ProcsOK, SC!RequestsAssumption
<1>2. PICK known \in BOOLEAN :
        scReq[p] = ScheduleRequest(cmd[p], known) /\ (known => status # "ABSENT")
  BY <1>0 DEF Local, Asked
<1>3. /\ scReq[p].op = TriggerOp(cmd[p])
      /\ scReq[p].alias = IF known THEN cmd[p].alias ELSE Unknown
  BY <1>0, <1>2, CommandTypes, RequestFields DEF ScheduleRequest
<1>4. scReq[p].op # "deploy" => scReq[p].alias # Unknown
  BY <1>1 DEF SC!RequestSet, SC!Unknown, Unknown
<1>5. CASE known
  BY <1>2, <1>3, <1>5
<1>6. CASE ~known
  BY <1>3, <1>4, <1>6
<1>. QED  BY <1>5, <1>6

(* A service works for p only when it runs, and works on one request.      *)
LEMMA MachineWorks ==
  ASSUME IInv, NEW p \in Procs, SF!Work(p)
  PROVE  SF!Running(p) /\ (SF!Running(p)' => sfOpt'[p] = sfOpt[p])
<1>0. SF!ProcsOK
  BY DEF IInv, SF!IInv, SF!TypeOK
<1>1. SF!Running(p)
  BY DEF SF!Work, SF!DescribeStateMachine, SF!CreateStateMachine, SF!UpdateStateMachine,
     SF!TagResource, SF!WaitActive, SF!WaitAgain, SF!WaitPanics, SF!DescribeAlias,
     SF!CreateAlias, SF!UpdateAlias, SF!DescribeCurrentAlias, SF!ListAliases,
     SF!DescribeAliases, SF!ListVersions, SF!DeleteVersion, SF!DeleteAgain,
     SF!SkipReferenced, SF!DeleteFails, SF!CallFails, SF!Running, SF!Calls
<1>2. sfPc'[p] \notin SF!Ended => sfOpt'[p] = sfOpt[p]
  BY <1>0, MachineAssumptions, SF!WorkFrame
<1>. QED  BY <1>1, <1>2 DEF SF!Running, SF!Calls, SF!Ended

LEMMA RulesWork ==
  ASSUME IInv, NEW p \in Procs, EB!Work(p)
  PROVE  EB!Running(p) /\ (EB!Running(p)' => ebReq'[p] = ebReq[p])
<1>0. EB!IInv
  BY DEF IInv
<1>1. EB!Running(p)
  BY DEF EB!Work, EB!ListByAlias, EB!ListByArn, EB!DescribeRule, EB!ListTargets,
     EB!ListTags, EB!DeleteStateMachine, EB!RemoveTargets, EB!DeleteRule, EB!PutRule,
     EB!PutTargets, EB!TagResource, EB!CallFails, EB!Running, EB!Calls
<1>2. ebPc'[p] \notin EB!Ended => ebReq'[p] = ebReq[p]
  BY <1>0, RulesAssumptions, EB!WorkFrame
<1>. QED  BY <1>1, <1>2 DEF EB!Running, EB!Calls, EB!Ended

LEMMA SchedulesWork ==
  ASSUME IInv, NEW p \in Procs, SC!Work(p)
  PROVE  SC!Running(p) /\ (SC!Running(p)' => scReq'[p] = scReq[p])
<1>0. SC!IInv
  BY DEF IInv
<1>1. SC!Running(p)
  BY DEF SC!Work, SC!ListGroups, SC!ListSchedules, SC!GetSchedule, SC!DeleteStateMachine,
     SC!DeleteSchedule, SC!UpdateSchedule, SC!CreateSchedule, SC!CallFails,
     SC!Running, SC!Calls
<1>2. scPc'[p] \notin SC!Ended => scReq'[p] = scReq[p]
  BY <1>0, SchedulesAssumptions, SC!WorkFrame
<1>. QED  BY <1>1, <1>2 DEF SC!Running, SC!Calls, SC!Ended

(* A service that is left running is stopped. *)
LEMMA Stopped ==
  ASSUME IInv, NEW p \in Procs
  PROVE  /\ SF!Crash(p) => ~SF!Running(p)'
         /\ EB!Crash(p) => ~EB!Running(p)'
         /\ SC!Crash(p) => ~SC!Running(p)'
<1>1. /\ sfPc \in [Procs -> SF!Ended \cup SF!Calls]
      /\ ebPc \in [Procs -> EB!Ended \cup EB!Calls]
      /\ scPc \in [Procs -> SC!Ended \cup SC!Calls]
  BY DEF IInv, SF!IInv, SF!TypeOK, SF!ProcsOK, EB!IInv, EB!TypeOK, EB!ProcsOK,
     SC!IInv, SC!TypeOK, SC!ProcsOK
<1>2. SF!Crash(p) => ~SF!Running(p)'
  BY <1>1 DEF SF!Crash, SF!Goto, SF!Running, SF!Calls
<1>3. EB!Crash(p) => ~EB!Running(p)'
  BY <1>1 DEF EB!Crash, EB!Goto, EB!Running, EB!Calls
<1>4. SC!Crash(p) => ~SC!Running(p)'
  BY <1>1 DEF SC!Crash, SC!Goto, SC!Running, SC!Calls
<1>. QED  BY <1>2, <1>3, <1>4

LEMMA StillStopped ==
  ASSUME NEW p
  PROVE  /\ UNCHANGED machine => (SF!Running(p)' <=> SF!Running(p))
         /\ UNCHANGED bus => (EB!Running(p)' <=> EB!Running(p))
         /\ UNCHANGED scheduler => (SC!Running(p)' <=> SC!Running(p))
BY DEF machine, bus, scheduler, SF!Running, EB!Running, SC!Running

(* A command that ends has stopped its services. *)
LEMMA EndKeeps ==
  ASSUME IInv, ServicesKept, NEW p \in Procs, NEW l \in Ended, NEW m, Enter(p, l, m),
         ~SF!Running(p)', ~EB!Running(p)', ~SC!Running(p)'
  PROVE  Keeps(p)
<1>1. AppOK
  BY InvParts
<1>2. /\ stage'[p] = l /\ own'[p] = Fresh /\ AppOK'
      /\ \A q \in Procs \ {p} : stage'[q] = stage[q] /\ cmd'[q] = cmd[q] /\ own'[q] = own[q]
  BY <1>1, EnterFrame
<1>. QED  BY <1>2, LocalEnded DEF Keeps, ServicesKept

LEMMA AbandonStops ==
  ASSUME IInv, NEW p \in Procs, Abandon(p)
  PROVE  ~SF!Running(p)' /\ ~EB!Running(p)' /\ ~SC!Running(p)'
BY Stopped, StillStopped DEF Abandon

LEMMA AbandonKeeps ==
  ASSUME IInv, ServicesKept, NEW p \in Procs, DeleteFails(p) \/ Refuse(p) \/ Crash(p)
  PROVE  Keeps(p)
<1>1. \E l \in {"error", "crashed"} : Enter(p, l, Fresh) /\ Abandon(p)
  BY DEF DeleteFails, Refuse, Crash
<1>. QED  BY <1>1, AbandonStops, EndKeeps DEF Ended

(* No service is at work at these stages. *)
LEMMA CallFailsKeeps ==
  ASSUME IInv, ServicesKept, NEW p \in Procs, CallFails(p) \/ DescribeLatest(p)
  PROVE  Keeps(p)
<1>1. stage[p] \in {"arn for rules", "arn for schedules", "describe", "describe latest"}
  BY DEF CallFails, DescribeLatest
<1>2. UNCHANGED <<machine, bus, scheduler>>
  BY DEF CallFails, DescribeLatest
<1>3. ~SF!Running(p) /\ ~EB!Running(p) /\ ~SC!Running(p)
  BY <1>1, InvParts DEF Local
<1>4. PICK l \in Ended : Enter(p, l, Fresh)
  BY DEF CallFails, DescribeLatest, Ended
<1>. QED  BY <1>2, <1>3, <1>4, StillStopped, EndKeeps

(* What is known of a process before a step of its own. *)
LEMMA Before ==
  ASSUME IInv, NEW p \in Procs
  PROVE  /\ AppOK /\ Local(p) /\ own[p] \in Memory /\ cmd[p] \in Commands
         /\ cmd[p].op \in {"deploy", "delete", "rollback", "versions", "status", "diff"}
         /\ cmd[p].alias \in Aliases
         /\ stage[p] \in Ended \cup Stages
BY InvParts, CommandTypes

LEMMA StartKeeps ==
  ASSUME IInv, ServicesKept, NEW p \in Procs, NEW c \in Commands, Start(p, c)
  PROVE  Keeps(p)
<1>0. AppOK /\ Local(p) /\ stage[p] \in Ended
  BY Before DEF Start, Busy
<1>1. ~SF!Running(p) /\ ~EB!Running(p) /\ ~SC!Running(p)
  BY <1>0 DEF Local, Ended
<1>2. ~EB!Running(p)' /\ ~SC!Running(p)' /\ ebMem'[p] = ebMem[p] /\ scMem'[p] = scMem[p]
  BY <1>1, StillStopped DEF Start, bus, scheduler
<1>3. c.op \in {"deploy", "delete", "rollback", "versions", "status", "diff"}
  BY CommandsAssumption DEF CommandSet
<1>4. /\ stage' = [stage EXCEPT ![p] =
           CASE OnMachine(c) -> "machine"
             [] c.op = "deploy" /\ c.skipMachine -> "arn for rules"
             [] OTHER -> "describe"]
      /\ cmd' = [cmd EXCEPT ![p] = c]
      /\ alone' = IF \E q \in Procs : Busy(q) THEN {} ELSE {p}
      /\ own' = own /\ gone' = gone
  BY DEF Start
<1>5. /\ \/ OnMachine(c) /\ stage'[p] = "machine"
         \/ ~OnMachine(c) /\ c.op = "deploy" /\ c.skipMachine /\ stage'[p] = "arn for rules"
         \/ ~OnMachine(c) /\ ~(c.op = "deploy" /\ c.skipMachine) /\ stage'[p] = "describe"
      /\ cmd'[p] = c /\ own'[p] = own[p]
      /\ \A q \in Procs \ {p} : stage'[q] = stage[q] /\ cmd'[q] = cmd[q] /\ own'[q] = own[q]
  <2>1. /\ cmd'[p] = c /\ own'[p] = own[p]
        /\ \A q \in Procs \ {p} :
             stage'[q] = stage[q] /\ cmd'[q] = cmd[q] /\ own'[q] = own[q]
    BY <1>0, <1>4 DEF AppOK
  <2>2. CASE OnMachine(c)
    BY <1>0, <1>4, <2>1, <2>2 DEF AppOK, OnMachine
  <2>3. CASE ~OnMachine(c) /\ c.op = "deploy" /\ c.skipMachine
    BY <1>0, <1>4, <2>1, <2>3 DEF AppOK
  <2>4. CASE ~OnMachine(c) /\ ~(c.op = "deploy" /\ c.skipMachine)
    BY <1>0, <1>4, <2>1, <2>4 DEF AppOK
  <2>. QED  BY <2>2, <2>3, <2>4
<1>6. AppOK'
  <2>1. stage' \in [Procs -> Ended \cup Stages]
    BY <1>0, <1>4, <1>5 DEF AppOK, Stages
  <2>2. alone' \subseteq Procs
    BY <1>4
  <2>. QED  BY <1>0, <1>4, <2>1, <2>2 DEF AppOK
<1>7. Advances
  <2>1. UNCHANGED <<status, routing>>
    BY DEF Start, machine, SF!Start, SF!cloud
  <2>. QED  BY <2>1 DEF Advances, Released
<1>8. CASE OnMachine(c)
  <2>1. stage'[p] = "machine" /\ SF!Start(p, MachineOption(c))
    BY <1>5, <1>8 DEF Start
  <2>2. sfPc'[p] = "DescribeStateMachine" /\ sfOpt'[p] = MachineOption(c)
    BY <2>1 DEF SF!Start, IInv, SF!IInv, SF!TypeOK, SF!ProcsOK
  <2>3. SF!Running(p)' /\ sfPc'[p] \notin SF!Purging
    BY <2>2 DEF SF!Running, SF!Calls, SF!Purging
  <2>4. Asked(p)'
    BY <1>0, <1>2, <1>5, <1>7, <1>8, <2>2 DEF Local, Asked, Advances
  <2>5. Pointed(p)' /\ Placed(p)'
    BY <1>0, <1>2, <1>5, <1>7, <2>1, <2>3 DEF Local, Pointed, Placed, Advances, WithTriggers
  <2>. QED  BY <1>2, <1>5, <1>6, <2>1, <2>3, <2>4, <2>5 DEF Keeps, Local
<1>9. CASE ~OnMachine(c)
  <2>1. UNCHANGED machine
    BY <1>9 DEF Start
  <2>2. ~SF!Running(p)' /\ sfPc'[p] \notin SF!Purging
    BY <1>1, <2>1, StillStopped DEF SF!Running, SF!Purging, SF!Calls
  <2>3. \/ stage'[p] = "arn for rules" /\ c.op = "deploy" /\ c.skipMachine
        \/ stage'[p] = "describe" /\ c.op \in {"delete", "status", "diff"}
    BY <1>3, <1>5, <1>9 DEF OnMachine
  <2>4. Asked(p)'
    BY <1>0, <1>2, <1>5, <1>7, <2>2 DEF Local, Asked, Advances
  <2>5. Pointed(p)' /\ Placed(p)'
    BY <1>0, <1>2, <1>5, <1>7, <2>2, <2>3 DEF Local, Pointed, Placed, Advances, WithTriggers
  <2>. QED  BY <1>2, <1>5, <1>6, <2>2, <2>3, <2>4, <2>5 DEF Keeps, Local
<1>. QED  BY <1>8, <1>9

(* A deployment goes on to its triggers only with its alias released.      *)
LEMMA MachineReleases ==
  ASSUME IInv, ServicesKept, NEW p \in Procs, MachineStep(p), cmd[p].op = "deploy",
         ~cmd[p].dryRun, sfPc'[p] \in SF!Purging \cup {"ok"}
  PROVE  routing'[cmd[p].alias] # {}
<1>1. Local(p) /\ SF!Work(p) /\ SF!IInv /\ SF!Running(p)
  BY Before, MachineWorks DEF MachineStep, IInv
<1>2. sfOpt[p].op = "deploy" /\ ~sfOpt[p].dryRun /\ SF!MyAlias(p) = cmd[p].alias
  BY <1>1 DEF Local, Asked, MachineOption, SF!MyAlias
<1>3. sfPc[p] \in SF!Purging => routing[SF!MyAlias(p)] # {}
  BY <1>1, <1>2 DEF Local, Pointed, Released
<1>4. routing'[SF!MyAlias(p)] # {}
  BY <1>1, <1>2, <1>3, MachineAssumptions, SF!DeployPoints
<1>. QED  BY <1>2, <1>4

LEMMA MachineStepKeeps ==
  ASSUME IInv, ServicesKept, NEW p \in Procs, MachineStep(p)
  PROVE  Keeps(p)
<1>0. /\ AppOK /\ Local(p) /\ own[p] \in Memory /\ cmd[p] \in Commands
      /\ stage[p] = "machine" /\ SF!Work(p)
  BY Before DEF MachineStep
<1>1. SF!Running(p) /\ (SF!Running(p)' => sfOpt'[p] = sfOpt[p])
  BY <1>0, MachineWorks
<1>2. ~EB!Running(p)' /\ ~SC!Running(p)' /\ ebMem'[p] = ebMem[p] /\ scMem'[p] = scMem[p]
  BY <1>0, StillStopped DEF Local, MachineStep, bus, scheduler
<1>3. Advances
  BY <1>0, MachineFrame DEF MachineMoves
<1>4. sfOpt[p] = MachineOption(cmd[p]) /\ OnMachine(cmd[p])
  BY <1>0, <1>1 DEF Local, Asked
<1>5. CASE SF!Running(p)'
  <2>1. PICK known \in BOOLEAN :
          /\ Enter(p, "machine", [own[p] EXCEPT !.found = known])
          /\ known => own[p].found \/ status # "ABSENT"
    BY <1>0, <1>5 DEF MachineStep, Memory
  <2> DEFINE m == [own[p] EXCEPT !.found = known]
  <2>2. m \in Memory /\ m.deleting = own[p].deleting /\ m.found = known
    BY <1>0 DEF Memory
  <2> HIDE DEF m
  <2>3. /\ stage'[p] = "machine" /\ own'[p] = m /\ cmd'[p] = cmd[p] /\ AppOK'
        /\ \A q \in Procs \ {p} : stage'[q] = stage[q] /\ cmd'[q] = cmd[q] /\ own'[q] = own[q]
    <3>1. Enter(p, "machine", m)
      BY <2>1 DEF m
    <3>2. "machine" \in Stages /\ "machine" \notin Ended
      BY DEF Ended, Stages
    <3>3. AppOK /\ m \in Memory
      BY <1>0, <2>2
    <3>. QED  BY <3>1, <3>2, <3>3, EnterFrame
  <2>4. Asked(p)'
    BY <1>0, <1>1, <1>2, <1>3, <1>4, <1>5, <2>1, <2>2, <2>3 DEF Local, Asked, Advances
  <2>5. Pointed(p)'
    <3>1. SUFFICES ASSUME cmd[p].op = "deploy", sfPc'[p] \in SF!Purging
                   PROVE  routing'[cmd[p].alias] # {}
      BY <2>3 DEF Pointed, Released, WithTriggers
    <3>2. SF!Phase(sfPc'[p], sfOpt'[p], sfMem'[p])
      BY DEF ServicesKept, SF!IInv
    <3>3. sfOpt'[p].op = "deploy" /\ sfOpt'[p].dryRun = cmd[p].dryRun
      BY <1>1, <1>4, <1>5, <3>1 DEF MachineOption
    <3>4. ~cmd[p].dryRun
      BY <3>1, <3>2, <3>3 DEF SF!Phase, SF!Purging, SF!Calls, SF!Looking
    <3>. QED  BY <3>1, <3>4, MachineReleases
  <2>6. Placed(p)'
    BY <1>0, <1>2, <1>3, <2>2, <2>3 DEF Local, Placed, Advances
  <2>. QED  BY <1>2, <1>5, <2>3, <2>4, <2>5, <2>6 DEF Keeps, Local
<1>6. CASE ~SF!Running(p)'
  <2>1. Enter(p, AfterMachine(cmd[p], sfPc'[p]), own[p])
    BY <1>6 DEF MachineStep
  <2>2. sfPc'[p] \in SF!Ended
    BY <1>6 DEF ServicesKept, SF!IInv, SF!TypeOK, SF!ProcsOK, SF!Running
  <2>3. CASE sfPc'[p] = "ok" /\ cmd[p].op = "deploy" /\ ~cmd[p].skipTrigger
    <3>1. Enter(p, "arn for rules", own[p])
      BY <2>1, <2>3 DEF AfterMachine
    <3>2. /\ stage'[p] = "arn for rules" /\ own'[p] = own[p] /\ cmd'[p] = cmd[p] /\ AppOK'
          /\ \A q \in Procs \ {p} :
               stage'[q] = stage[q] /\ cmd'[q] = cmd[q] /\ own'[q] = own[q]
      BY <1>0, <3>1, EnterFrame DEF Ended, Stages
    <3>3. Asked(p)'
      BY <1>0, <1>2, <1>3, <1>6, <3>2 DEF Local, Asked, Advances
    <3>4. Pointed(p)'
      <4>1. sfPc'[p] \notin SF!Purging
        BY <2>3 DEF SF!Purging
      <4>2. TriggerOp(cmd[p]) = "deploy" => ~cmd[p].dryRun
        BY DEF TriggerOp, ReadOnly
      <4>. QED
        BY <2>3, <3>2, <4>1, <4>2, MachineReleases DEF Pointed, Released
    <3>5. Placed(p)'
      BY <1>0, <1>2, <1>3, <2>3, <3>2 DEF Local, Placed, Advances
    <3>. QED  BY <1>2, <1>6, <3>2, <3>3, <3>4, <3>5 DEF Keeps, Local
  <2>4. CASE ~(sfPc'[p] = "ok" /\ cmd[p].op = "deploy" /\ ~cmd[p].skipTrigger)
    <3>1. Enter(p, sfPc'[p], own[p]) /\ sfPc'[p] \in Ended
      BY <2>1, <2>2, <2>4 DEF AfterMachine, SF!Ended, Ended
    <3>. QED  BY <1>2, <1>6, <3>1, EndKeeps
  <2>. QED  BY <2>3, <2>4
<1>. QED  BY <1>5, <1>6

(* What GetStateMachineArn answers is true. *)
LEMMA AnswersTrue ==
  ASSUME IInv, NEW p \in Procs, NEW known \in Answers(p)
  PROVE  /\ known \in BOOLEAN /\ (known => status # "ABSENT")
         /\ [own[p] EXCEPT !.found = known] \in Memory
<1>0. Local(p) /\ own[p] \in Memory
  BY Before
<1>1. known \in BOOLEAN
  BY DEF Answers, Present, IInv, TypeOK
<1>2. known => status # "ABSENT"
  BY <1>0 DEF Answers, Present, Local, Asked
<1>3. [own[p] EXCEPT !.found = known] \in Memory
  BY <1>0, <1>1 DEF Memory
<1>. QED  BY <1>1, <1>2, <1>3

(* A process that goes on to stage l. *)
LEMMA GoesOn ==
  ASSUME AppOK, NEW p \in Procs, NEW l \in Stages, NEW m \in Memory, Enter(p, l, m)
  PROVE  /\ stage'[p] = l /\ own'[p] = m /\ cmd'[p] = cmd[p] /\ AppOK'
         /\ \A q \in Procs \ {p} :
              stage'[q] = stage[q] /\ cmd'[q] = cmd[q] /\ own'[q] = own[q]
<1>1. l \notin Ended
  BY DEF Ended, Stages
<1>. QED  BY <1>1, EnterFrame

LEMMA StageNames ==
  {"machine", "arn for rules", "rules", "arn for schedules", "schedules", "describe",
   "describe latest", "confirm", "DeleteStateMachine"} \subseteq Stages
BY DEF Stages

LEMMA GetArnForRulesKeeps ==
  ASSUME IInv, ServicesKept, NEW p \in Procs, GetArnForRules(p)
  PROVE  Keeps(p)
<1>0. /\ AppOK /\ Local(p) /\ own[p] \in Memory /\ cmd[p] \in Commands
      /\ stage[p] = "arn for rules" /\ UNCHANGED <<machine, scheduler>>
  BY Before DEF GetArnForRules
<1>1. ~SF!Running(p)' /\ ~EB!Running(p) /\ ~SC!Running(p)' /\ sfPc'[p] \notin SF!Purging
  <2>1. ~SF!Running(p)' /\ ~EB!Running(p) /\ ~SC!Running(p)'
    BY <1>0, StillStopped DEF Local
  <2>. QED  BY <2>1 DEF SF!Running, SF!Purging, SF!Calls
<1>2. Advances /\ UNCHANGED <<status, routing>> /\ scMem'[p] = scMem[p]
  BY <1>0 DEF Advances, Released, machine, scheduler
<1>3. PICK known \in Answers(p) :
        LET m == [own[p] EXCEPT !.found = known] IN
        IF cmd[p].dryRun /\ ~known
        THEN Enter(p, "arn for schedules", m) /\ UNCHANGED bus
        ELSE Enter(p, "rules", m) /\ EB!Start(p, RuleRequest(cmd[p], known))
  BY DEF GetArnForRules
<1> DEFINE m == [own[p] EXCEPT !.found = known]
<1>4. known \in BOOLEAN /\ (known => status # "ABSENT") /\ m \in Memory
  BY AnswersTrue
<1>5. m.found = known /\ m.deleting = own[p].deleting
  BY <1>0 DEF Memory
<1>6. PICK l \in {"arn for schedules", "rules"} : Enter(p, l, m)
  BY <1>3
<1>7. /\ l = "arn for schedules" => UNCHANGED bus
      /\ l = "rules" => UNCHANGED bus \/ EB!Start(p, RuleRequest(cmd[p], known))
  <2>1. CASE cmd[p].dryRun /\ ~known
    <3>1. UNCHANGED bus
      BY <1>3, <2>1
    <3>. QED  BY <3>1
  <2>2. CASE ~(cmd[p].dryRun /\ ~known)
    <3>1. Enter(p, "rules", m) /\ EB!Start(p, RuleRequest(cmd[p], known))
      BY <1>3, <2>2
    <3>2. stage'[p] = "rules" /\ stage'[p] = l
      BY <1>0, <1>4, <1>6, <3>1, GoesOn, StageNames
    <3>. QED  BY <3>1, <3>2
  <2>. QED  BY <2>1, <2>2
<1> HIDE DEF m
<1>8. /\ stage'[p] = l /\ own'[p] = m /\ cmd'[p] = cmd[p] /\ AppOK'
      /\ \A q \in Procs \ {p} : stage'[q] = stage[q] /\ cmd'[q] = cmd[q] /\ own'[q] = own[q]
  BY <1>0, <1>4, <1>6, GoesOn, StageNames
<1>9. Pointed(p)'
  BY <1>0, <1>1, <1>2, <1>6, <1>8 DEF Local, Pointed, Released, WithTriggers
<1>10. CASE UNCHANGED bus
  <2>1. ~EB!Running(p)' /\ ebMem'[p] = ebMem[p] /\ ebPc'[p] # "DeleteStateMachine"
    BY <1>1, <1>10, StillStopped DEF bus, EB!Running, EB!Calls
  <2>2. Asked(p)' /\ Placed(p)'
    BY <1>0, <1>1, <1>2, <1>4, <1>5, <1>6, <1>8, <2>1 DEF Local, Asked, Placed
  <2>. QED  BY <1>1, <1>6, <1>8, <1>9, <2>1, <2>2 DEF Keeps, Local
<1>11. CASE l = "rules" /\ EB!Start(p, RuleRequest(cmd[p], known))
  <2>1. /\ ebPc'[p] = "ListByAlias" /\ ebReq'[p] = RuleRequest(cmd[p], known)
        /\ ebMem'[p] = ebMem[p]
    BY <1>11 DEF EB!Start, IInv, EB!IInv, EB!TypeOK, EB!ProcsOK
  <2>2. Asked(p)' /\ Placed(p)'
    BY <1>0, <1>1, <1>2, <1>4, <1>5, <1>8, <1>11, <2>1 DEF Local, Asked, Placed
  <2>. QED  BY <1>1, <1>8, <1>9, <1>11, <2>2 DEF Keeps, Local
<1>. QED  BY <1>6, <1>7, <1>10, <1>11

LEMMA GetArnForSchedulesKeeps ==
  ASSUME IInv, ServicesKept, NEW p \in Procs, GetArnForSchedules(p)
  PROVE  Keeps(p)
<1>0. /\ AppOK /\ Local(p) /\ own[p] \in Memory /\ cmd[p] \in Commands
      /\ stage[p] = "arn for schedules" /\ UNCHANGED <<machine, bus>>
  BY Before DEF GetArnForSchedules
<1>1. ~SF!Running(p)' /\ ~SC!Running(p) /\ ~EB!Running(p)' /\ sfPc'[p] \notin SF!Purging
  <2>1. ~SF!Running(p)' /\ ~SC!Running(p) /\ ~EB!Running(p)'
    BY <1>0, StillStopped DEF Local
  <2>. QED  BY <2>1 DEF SF!Running, SF!Purging, SF!Calls
<1>2. Advances /\ UNCHANGED <<status, routing>> /\ ebMem'[p] = ebMem[p]
  BY <1>0 DEF Advances, Released, machine, bus
<1>3. PICK known \in Answers(p) :
        IF cmd[p].dryRun /\ ~known
        THEN Enter(p, "ok", Fresh) /\ UNCHANGED scheduler
        ELSE /\ Enter(p, "schedules", [own[p] EXCEPT !.found = known])
             /\ SC!Start(p, ScheduleRequest(cmd[p], known))
  BY DEF GetArnForSchedules
<1> DEFINE m == [own[p] EXCEPT !.found = known]
<1>4. known \in BOOLEAN /\ (known => status # "ABSENT") /\ m \in Memory
  BY AnswersTrue
<1>5. m.found = known /\ m.deleting = own[p].deleting
  BY <1>0 DEF Memory
<1>6. CASE cmd[p].dryRun /\ ~known
  <2>1. Enter(p, "ok", Fresh) /\ UNCHANGED scheduler
    BY <1>3, <1>6
  <2>. QED  BY <1>1, <2>1, StillStopped, EndKeeps DEF Ended
<1>7. CASE ~(cmd[p].dryRun /\ ~known)
  <2>1. Enter(p, "schedules", m) /\ SC!Start(p, ScheduleRequest(cmd[p], known))
    BY <1>3, <1>7
  <2> HIDE DEF m
  <2>2. /\ stage'[p] = "schedules" /\ own'[p] = m /\ cmd'[p] = cmd[p] /\ AppOK'
        /\ \A q \in Procs \ {p} : stage'[q] = stage[q] /\ cmd'[q] = cmd[q] /\ own'[q] = own[q]
    BY <1>0, <1>4, <2>1, GoesOn, StageNames
  <2>3. Pointed(p)'
    BY <1>0, <1>1, <1>2, <2>2 DEF Local, Pointed, Released, WithTriggers
  <2>4. /\ scPc'[p] = "ListGroups" /\ scReq'[p] = ScheduleRequest(cmd[p], known)
        /\ scMem'[p].again = scMem[p].again
    BY <2>1 DEF SC!Start, IInv, SC!IInv, SC!TypeOK, SC!ProcsOK, SC!Memory
  <2>5. Asked(p)' /\ Placed(p)'
    BY <1>0, <1>1, <1>2, <1>4, <1>5, <2>2, <2>4 DEF Local, Asked, Placed
  <2>. QED  BY <1>1, <2>2, <2>3, <2>5 DEF Keeps, Local
<1>. QED  BY <1>6, <1>7

LEMMA DescribeStateMachineKeeps ==
  ASSUME IInv, ServicesKept, NEW p \in Procs, DescribeStateMachine(p)
  PROVE  Keeps(p)
<1>0. /\ AppOK /\ Local(p) /\ own[p] \in Memory
      /\ stage[p] = "describe" /\ UNCHANGED <<machine, scheduler>>
  BY Before DEF DescribeStateMachine
<1>1. ~SF!Running(p)' /\ ~EB!Running(p) /\ ~SC!Running(p)' /\ sfPc'[p] \notin SF!Purging
  <2>1. ~SF!Running(p)' /\ ~EB!Running(p) /\ ~SC!Running(p)'
    BY <1>0, StillStopped DEF Local
  <2>. QED  BY <2>1 DEF SF!Running, SF!Purging, SF!Calls
<1>2. UNCHANGED <<status, routing>> /\ scMem'[p] = scMem[p]
  BY <1>0 DEF machine, scheduler
<1>3. TriggerOp(cmd[p]) # "deploy" /\ cmd[p].op # "deploy"
  <2>1. cmd[p].op \in {"delete", "status", "diff"}
    BY <1>0 DEF Local, Placed
  <2>. QED  BY <2>1 DEF TriggerOp
<1>4. CASE Described(cmd[p])
  <2> DEFINE m == [own[p] EXCEPT !.deleting = status = "DELETING"]
  <2>1. Enter(p, "rules", m) /\ EB!Start(p, RuleRequest(cmd[p], TRUE))
    BY <1>4 DEF DescribeStateMachine
  <2>2. m \in Memory
    BY <1>0 DEF Memory
  <2>3. m.found = own[p].found /\ (m.deleting => status = "DELETING")
    BY <1>0 DEF Memory
  <2> HIDE DEF m
  <2>4. /\ stage'[p] = "rules" /\ own'[p] = m /\ cmd'[p] = cmd[p] /\ AppOK'
        /\ \A q \in Procs \ {p} : stage'[q] = stage[q] /\ cmd'[q] = cmd[q] /\ own'[q] = own[q]
    BY <1>0, <2>1, <2>2, GoesOn, StageNames
  <2>5. /\ ebPc'[p] = "ListByAlias" /\ ebReq'[p] = RuleRequest(cmd[p], TRUE)
        /\ ebMem'[p] = ebMem[p]
    BY <2>1 DEF EB!Start, IInv, EB!IInv, EB!TypeOK, EB!ProcsOK
  <2>6. status # "ABSENT"
    BY <1>4 DEF Described, Present
  <2>7. Asked(p)' /\ Placed(p)'
    BY <1>0, <1>1, <1>2, <2>3, <2>4, <2>5, <2>6 DEF Local, Asked, Placed
  <2>8. Pointed(p)'
    BY <1>1, <1>3, <2>4 DEF Pointed
  <2>. QED  BY <1>1, <2>4, <2>7, <2>8 DEF Keeps, Local
<1>5. CASE ~Described(cmd[p])
  <2>1. Enter(p, WithoutMachine(cmd[p]), own[p]) /\ UNCHANGED bus
    BY <1>5 DEF DescribeStateMachine
  <2>2. ~EB!Running(p)' /\ ebMem'[p] = ebMem[p]
    BY <1>1, <2>1, StillStopped DEF bus
  <2>3. WithoutMachine(cmd[p]) \in {"error", "describe latest", "ok"}
    BY DEF WithoutMachine
  <2>4. CASE WithoutMachine(cmd[p]) = "describe latest"
    <3>1. /\ stage'[p] = "describe latest" /\ own'[p] = own[p] /\ cmd'[p] = cmd[p] /\ AppOK'
          /\ \A q \in Procs \ {p} :
               stage'[q] = stage[q] /\ cmd'[q] = cmd[q] /\ own'[q] = own[q]
      BY <1>0, <2>1, <2>4, GoesOn, StageNames
    <3>2. Asked(p)' /\ Placed(p)'
      BY <1>0, <1>1, <1>2, <2>2, <3>1 DEF Local, Asked, Placed
    <3>3. Pointed(p)'
      BY <1>1, <1>3, <3>1 DEF Pointed
    <3>. QED  BY <1>1, <2>2, <3>1, <3>2, <3>3 DEF Keeps, Local
  <2>5. CASE WithoutMachine(cmd[p]) # "describe latest"
    BY <1>1, <2>1, <2>2, <2>3, <2>5, EndKeeps DEF Ended
  <2>. QED  BY <2>4, <2>5
<1>. QED  BY <1>4, <1>5

LEMMA ConfirmKeeps ==
  ASSUME IInv, ServicesKept, NEW p \in Procs, Confirm(p) \/ DeleteAgain(p)
  PROVE  Keeps(p)
<1>0. /\ AppOK /\ Local(p) /\ own[p] \in Memory
      /\ stage[p] \in {"confirm", "DeleteStateMachine"}
      /\ UNCHANGED <<machine, bus, scheduler>>
  BY Before DEF Confirm, DeleteAgain
<1>1. PICK m \in Memory : /\ Enter(p, "DeleteStateMachine", m)
                          /\ m.found = own[p].found /\ m.deleting = own[p].deleting
  <2>1. CASE Confirm(p)
    BY <1>0, <2>1 DEF Confirm
  <2>2. CASE DeleteAgain(p)
    <3> DEFINE m == [own[p] EXCEPT !.tries = @ + 1]
    <3>1. own[p].tries + 1 \in 0..(MaxRetry - 1)
      BY <1>0, <2>2, MachineAssumption DEF DeleteAgain, Memory
    <3>2. m \in Memory /\ m.found = own[p].found /\ m.deleting = own[p].deleting
      BY <1>0, <3>1 DEF Memory
    <3>3. Enter(p, "DeleteStateMachine", m)
      BY <2>2 DEF DeleteAgain
    <3>. QED  BY <3>2, <3>3
  <2>. QED  BY <2>1, <2>2
<1>2. /\ stage'[p] = "DeleteStateMachine" /\ own'[p] = m /\ cmd'[p] = cmd[p] /\ AppOK'
      /\ \A q \in Procs \ {p} : stage'[q] = stage[q] /\ cmd'[q] = cmd[q] /\ own'[q] = own[q]
  BY <1>0, <1>1, GoesOn, StageNames
<1>3. /\ SF!Running(p)' <=> SF!Running(p)
      /\ EB!Running(p)' <=> EB!Running(p)
      /\ SC!Running(p)' <=> SC!Running(p)
  BY <1>0, StillStopped
<1>4. /\ UNCHANGED <<status, routing>> /\ sfPc'[p] = sfPc[p] /\ sfOpt'[p] = sfOpt[p]
      /\ ebMem'[p] = ebMem[p] /\ ebReq'[p] = ebReq[p]
      /\ scMem'[p] = scMem[p] /\ scReq'[p] = scReq[p]
  BY <1>0 DEF machine, bus, scheduler
<1>5. Asked(p)' /\ Placed(p)'
  BY <1>0, <1>1, <1>2, <1>3, <1>4 DEF Local, Asked, Placed
<1>6. Pointed(p)'
  BY <1>0, <1>2, <1>4 DEF Local, Pointed, Released, WithTriggers
<1>. QED  BY <1>0, <1>2, <1>3, <1>5, <1>6 DEF Keeps, Local

LEMMA ResumeSchedulesKeeps ==
  ASSUME IInv, ServicesKept, NEW p \in Procs, ResumeSchedules(p),
         stage[p] \in {"rules", "DeleteStateMachine"}, ~EB!Running(p)',
         TriggerOp(cmd[p]) = "delete", status' = "DELETING",
         sfPc'[p] = sfPc[p]
  PROVE  Keeps(p)
<1>0. AppOK /\ Local(p) /\ own[p] \in Memory /\ SC!IInv
  BY Before DEF IInv
<1>1. ~SF!Running(p)' /\ sfPc'[p] \notin SF!Purging
  <2>1. ~SF!Running(p)
    BY <1>0 DEF Local
  <2>. QED  BY <2>1 DEF SF!Running, SF!Purging, SF!Calls
<1>2. /\ SC!DeleteStateMachine(p) /\ SC!Work(p)
      /\ Enter(p, IF SC!Running(p)' THEN "schedules" ELSE "ok", own[p])
  BY DEF ResumeSchedules, SC!Work
<1>3. scPc'[p] # "DeleteStateMachine"
  BY <1>0, <1>2, SchedulesAssumptions, SC!DeletionGoesOn
<1>4. CASE ~SC!Running(p)'
  <2>1. Enter(p, "ok", own[p])
    BY <1>2, <1>4
  <2>. QED  BY <1>1, <1>4, <2>1, EndKeeps DEF Ended
<1>5. CASE SC!Running(p)'
  <2>1. Enter(p, "schedules", own[p])
    BY <1>2, <1>5
  <2>2. /\ stage'[p] = "schedules" /\ own'[p] = own[p] /\ cmd'[p] = cmd[p] /\ AppOK'
        /\ \A q \in Procs \ {p} : stage'[q] = stage[q] /\ cmd'[q] = cmd[q] /\ own'[q] = own[q]
    BY <1>0, <2>1, GoesOn, StageNames
  <2>3. SC!Running(p) /\ scReq'[p] = scReq[p]
    BY <1>2, <1>5, SchedulesWork
  <2>4. Asked(p)'
    BY <1>0, <1>1, <2>2, <2>3 DEF Local, Asked
  <2>5. Pointed(p)' /\ Placed(p)'
    BY <1>1, <1>3, <2>2 DEF Pointed, Placed
  <2>. QED  BY <1>1, <2>2, <2>4, <2>5 DEF Keeps, Local
<1>. QED  BY <1>4, <1>5

LEMMA DeleteStateMachineKeeps ==
  ASSUME IInv, ServicesKept, NEW p \in Procs, DeleteStateMachine(p)
  PROVE  Keeps(p)
<1>0. /\ AppOK /\ Local(p) /\ own[p] \in Memory /\ EB!IInv /\ SF!IInv
      /\ stage[p] = "DeleteStateMachine" /\ EB!DeleteStateMachine(p) /\ EB!Work(p)
  BY Before DEF IInv, DeleteStateMachine, Resume, EB!Work
<1>1. status' = "DELETING" /\ sfPc'[p] = sfPc[p]
  <2>1. status \in {"ACTIVE", "DELETING"} /\ (own[p].deleting => status = "DELETING")
    BY <1>0 DEF SF!IInv, SF!TypeOK, SF!CloudOK, Local, Placed
  <2>2. CASE ~own[p].deleting /\ status = "ACTIVE"
    BY <2>2 DEF DeleteStateMachine, SF!DeletionStarts
  <2>3. CASE ~(~own[p].deleting /\ status = "ACTIVE")
    BY <2>1, <2>3 DEF DeleteStateMachine, machine
  <2>. QED  BY <2>2, <2>3
<1>2. TriggerOp(cmd[p]) = "delete" /\ ~SF!Running(p)
  BY <1>0 DEF Local, Placed
<1>3. CASE ~EB!Running(p)'
  <2>1. ResumeSchedules(p)
    BY <1>3 DEF DeleteStateMachine, Resume
  <2>. QED  BY <1>0, <1>1, <1>2, <1>3, <2>1, ResumeSchedulesKeeps
<1>4. CASE EB!Running(p)'
  <2>1. Enter(p, "rules", own[p]) /\ UNCHANGED scheduler
    BY <1>4 DEF DeleteStateMachine, Resume
  <2>2. /\ stage'[p] = "rules" /\ own'[p] = own[p] /\ cmd'[p] = cmd[p] /\ AppOK'
        /\ \A q \in Procs \ {p} : stage'[q] = stage[q] /\ cmd'[q] = cmd[q] /\ own'[q] = own[q]
    BY <1>0, <2>1, GoesOn, StageNames
  <2>3. EB!Running(p) /\ ebReq'[p] = ebReq[p]
    BY <1>0, <1>4, RulesWork
  <2>4. ebPc'[p] # "DeleteStateMachine"
    BY <1>0, RulesAssumptions, EB!DeletionGoesOn
  <2>5. (SC!Running(p)' <=> SC!Running(p)) /\ scReq'[p] = scReq[p]
    BY <2>1, StillStopped DEF scheduler
  <2>6. ~SF!Running(p)' /\ sfPc'[p] \notin SF!Purging
    BY <1>1, <1>2 DEF SF!Running, SF!Purging, SF!Calls
  <2>7. Asked(p)'
    BY <1>0, <1>1, <2>2, <2>3, <2>5, <2>6 DEF Local, Asked
  <2>8. Pointed(p)' /\ Placed(p)'
    BY <1>1, <1>2, <2>2, <2>4, <2>6 DEF Pointed, Placed
  <2>. QED  BY <2>2, <2>6, <2>7, <2>8 DEF Keeps, Local
<1>. QED  BY <1>3, <1>4

(* The search for a delete is the one whose service comes to the deletion. *)
LEMMA SearchedRules ==
  ASSUME IInv, ServicesKept, NEW p \in Procs, EB!Work(p), ebPc'[p] = "DeleteStateMachine"
  PROVE  TriggerOp(cmd[p]) = "delete" /\ status # "ABSENT"
<1>1. EB!Running(p)'
  BY DEF EB!Running, EB!Calls
<1>2. EB!Running(p) /\ ebReq'[p] = ebReq[p]
  BY <1>1, RulesWork
<1>3. ebReq'[p].op = "delete"
  BY DEF ServicesKept, EB!IInv, EB!Phase
<1>. QED  BY <1>2, <1>3, RulesKnown

LEMMA SearchedSchedules ==
  ASSUME IInv, ServicesKept, NEW p \in Procs, SC!Work(p), scPc'[p] = "DeleteStateMachine"
  PROVE  TriggerOp(cmd[p]) = "delete" /\ status # "ABSENT"
<1>1. SC!Running(p)'
  BY DEF SC!Running, SC!Calls
<1>2. SC!Running(p) /\ scReq'[p] = scReq[p]
  BY <1>1, SchedulesWork
<1>3. scReq'[p].op = "delete"
  BY DEF ServicesKept, SC!IInv, SC!Planned
<1>. QED  BY <1>2, <1>3, SchedulesKnown

(* Where the rules' service leaves its process. *)
LEMMA AfterRulesCases ==
  ASSUME NEW p, NEW l, AfterRules(p, l)
  PROVE  \/ /\ l = "ok" /\ cmd[p].op = "deploy"
            /\ Enter(p, "arn for schedules", own[p]) /\ UNCHANGED scheduler
         \/ /\ Searched(l) \/ (l = "ok" /\ TriggerOp(cmd[p]) = "look")
            /\ cmd[p].op = "deploy" => Searched(l)
            /\ Enter(p, "schedules", own[p])
            /\ SC!Start(p, ScheduleRequest(cmd[p], TRUE))
         \/ l = "ok" /\ TriggerOp(cmd[p]) = "delete" /\ ResumeSchedules(p)
         \/ l = "error" /\ SC!Running(p) /\ Enter(p, l, Fresh) /\ SC!Crash(p)
         \/ l = "error" /\ ~SC!Running(p) /\ Enter(p, l, Fresh) /\ UNCHANGED scheduler
         \/ ~Searched(l) /\ Enter(p, "rules", own[p]) /\ UNCHANGED scheduler
<1> DEFINE A == l = "ok" /\ cmd[p].op = "deploy"
           B == Searched(l) \/ (l = "ok" /\ cmd[p].op # "deploy" /\ ReadOnly(cmd[p]))
           C == l = "ok" /\ TriggerOp(cmd[p]) = "delete"
           D == l = "error" /\ SC!Running(p)
           E == l = "error" /\ ~SC!Running(p)
<1>1. /\ A => ~B /\ ~C /\ ~D /\ ~E
      /\ B => ~A /\ ~C /\ ~D /\ ~E
      /\ C => ~A /\ ~B /\ ~D /\ ~E
      /\ D => ~A /\ ~B /\ ~C /\ ~E
      /\ E => ~A /\ ~B /\ ~C /\ ~D
  BY DEF Searched, TriggerOp
<1>2. B => /\ Searched(l) \/ (l = "ok" /\ TriggerOp(cmd[p]) = "look")
           /\ cmd[p].op = "deploy" => Searched(l)
  BY DEF TriggerOp
<1>3. CASE A
  <2>1. Enter(p, "arn for schedules", own[p]) /\ UNCHANGED scheduler
    BY <1>1, <1>3 DEF AfterRules
  <2>. QED  BY <1>3, <2>1
<1>4. CASE B
  <2>1. Enter(p, "schedules", own[p]) /\ SC!Start(p, ScheduleRequest(cmd[p], TRUE))
    BY <1>1, <1>4 DEF AfterRules
  <2>. QED  BY <1>2, <1>4, <2>1
<1>5. CASE C
  <2>1. ResumeSchedules(p)
    BY <1>1, <1>5 DEF AfterRules
  <2>. QED  BY <1>5, <2>1
<1>6. CASE D
  <2>1. Enter(p, l, Fresh) /\ SC!Crash(p)
    BY <1>1, <1>6 DEF AfterRules
  <2>. QED  BY <1>6, <2>1
<1>7. CASE E
  <2>1. Enter(p, l, Fresh) /\ UNCHANGED scheduler
    BY <1>1, <1>7 DEF AfterRules
  <2>. QED  BY <1>7, <2>1
<1>8. CASE ~A /\ ~B /\ ~C /\ ~D /\ ~E
  <2>1. Enter(p, "rules", own[p]) /\ UNCHANGED scheduler
    BY <1>8 DEF AfterRules
  <2>. QED  BY <1>8, <2>1
<1>. QED  BY <1>3, <1>4, <1>5, <1>6, <1>7, <1>8

LEMMA RulesStepKeeps ==
  ASSUME IInv, ServicesKept, NEW p \in Procs, RulesStep(p)
  PROVE  Keeps(p)
<1> DEFINE l == ebPc'[p]
<1>0. /\ AppOK /\ Local(p) /\ own[p] \in Memory /\ EB!IInv
      /\ stage[p] = "rules" /\ EB!Work(p) /\ UNCHANGED machine
  BY Before DEF IInv, RulesStep
<1>1. ~SF!Running(p)' /\ sfPc'[p] \notin SF!Purging /\ UNCHANGED <<status, routing>>
      /\ sfPc'[p] = sfPc[p]
  <2>1. ~SF!Running(p) /\ sfPc'[p] = sfPc[p] /\ UNCHANGED <<status, routing>>
    BY <1>0 DEF Local, machine
  <2>. QED  BY <2>1 DEF SF!Running, SF!Purging, SF!Calls
<1>2. EB!Running(p) /\ (EB!Running(p)' => ebReq'[p] = ebReq[p])
  BY <1>0, RulesWork
<1>3. (l \in {"ok", "error"} => ~EB!Running(p)') /\ (Searched(l) => EB!Running(p)')
  BY DEF EB!Running, EB!Calls, Searched
<1>4. ebMem'[p].again => status = "DELETING"
  <2>1. ebPc[p] # "DeleteStateMachine" /\ (ebMem[p].again => status = "DELETING")
    BY <1>0 DEF Local, Placed
  <2>2. ~EB!DeleteStateMachine(p)
    BY <2>1 DEF EB!DeleteStateMachine
  <2>. QED  BY <1>0, <2>1, <2>2, RulesAssumptions, EB!SearchesAgain
<1>5. Searched(l) => TriggerOp(cmd[p]) = "delete" /\ status # "ABSENT"
  BY <1>0, SearchedRules DEF Searched
<1>6. Pointed(p)
  BY <1>0 DEF Local
<1> HIDE DEF l
<1>7. CASE /\ l = "ok" /\ cmd[p].op = "deploy"
           /\ Enter(p, "arn for schedules", own[p]) /\ UNCHANGED scheduler
  <2>1. /\ stage'[p] = "arn for schedules" /\ own'[p] = own[p] /\ cmd'[p] = cmd[p] /\ AppOK'
        /\ \A q \in Procs \ {p} : stage'[q] = stage[q] /\ cmd'[q] = cmd[q] /\ own'[q] = own[q]
    BY <1>0, <1>7, GoesOn, StageNames
  <2>2. ~SC!Running(p)' /\ scMem'[p] = scMem[p] /\ ~EB!Running(p)'
    <3>1. TriggerOp(cmd[p]) # "delete"
      BY <1>7 DEF TriggerOp
    <3>. QED  BY <1>0, <1>3, <1>7, <3>1, StillStopped DEF Local, Placed, scheduler
  <2>3. Asked(p)' /\ Placed(p)'
    BY <1>0, <1>1, <1>4, <1>7, <2>1, <2>2 DEF Local, Asked, Placed
  <2>4. Pointed(p)'
    BY <1>0, <1>1, <1>6, <2>1 DEF Pointed, Released, WithTriggers
  <2>. QED  BY <1>1, <2>1, <2>2, <2>3, <2>4 DEF Keeps, Local
<1>8. CASE /\ Searched(l) \/ (l = "ok" /\ TriggerOp(cmd[p]) = "look")
           /\ cmd[p].op = "deploy" => Searched(l)
           /\ Enter(p, "schedules", own[p])
           /\ SC!Start(p, ScheduleRequest(cmd[p], TRUE))
  <2>1. /\ stage'[p] = "schedules" /\ own'[p] = own[p] /\ cmd'[p] = cmd[p] /\ AppOK'
        /\ \A q \in Procs \ {p} : stage'[q] = stage[q] /\ cmd'[q] = cmd[q] /\ own'[q] = own[q]
    BY <1>0, <1>8, GoesOn, StageNames
  <2>2. /\ scPc'[p] = "ListGroups" /\ scReq'[p] = ScheduleRequest(cmd[p], TRUE)
        /\ scMem'[p].again = scMem[p].again
    BY <1>8 DEF SC!Start, IInv, SC!IInv, SC!TypeOK, SC!ProcsOK, SC!Memory
  <2>3. status # "ABSENT"
    BY <1>2, <1>5, <1>8, RulesKnown
  <2>4. TriggerOp(cmd[p]) # "deploy"
    BY <1>5, <1>8
  <2>5. Asked(p)' /\ Placed(p)'
    BY <1>0, <1>1, <1>2, <1>4, <2>1, <2>2, <2>3 DEF Local, Asked, Placed
  <2>6. Pointed(p)'
    BY <1>1, <2>1, <2>4 DEF Pointed
  <2>. QED  BY <1>1, <2>1, <2>5, <2>6 DEF Keeps, Local
<1>9. CASE l = "ok" /\ TriggerOp(cmd[p]) = "delete" /\ ResumeSchedules(p)
  <2>1. SC!Running(p)
    BY <1>9 DEF ResumeSchedules, SC!DeleteStateMachine, SC!Running, SC!Calls
  <2>2. status' = "DELETING"
    BY <1>0, <1>1, <2>1 DEF Local, Placed
  <2>. QED  BY <1>0, <1>1, <1>3, <1>9, <2>2, ResumeSchedulesKeeps
<1>10. CASE l = "error" /\ SC!Running(p) /\ Enter(p, l, Fresh) /\ SC!Crash(p)
  <2>1. ~SC!Running(p)' /\ ~EB!Running(p)'
    BY <1>3, <1>10, Stopped
  <2>. QED  BY <1>1, <1>10, <2>1, EndKeeps DEF Ended
<1>11. CASE l = "error" /\ ~SC!Running(p) /\ Enter(p, l, Fresh) /\ UNCHANGED scheduler
  <2>1. ~SC!Running(p)' /\ ~EB!Running(p)'
    BY <1>3, <1>11, StillStopped
  <2>. QED  BY <1>1, <1>11, <2>1, EndKeeps DEF Ended
<1>12. CASE ~Searched(l) /\ Enter(p, "rules", own[p]) /\ UNCHANGED scheduler
  <2>1. /\ stage'[p] = "rules" /\ own'[p] = own[p] /\ cmd'[p] = cmd[p] /\ AppOK'
        /\ \A q \in Procs \ {p} : stage'[q] = stage[q] /\ cmd'[q] = cmd[q] /\ own'[q] = own[q]
    BY <1>0, <1>12, GoesOn, StageNames
  <2>2. /\ SC!Running(p)' <=> SC!Running(p)
        /\ scMem'[p] = scMem[p] /\ scReq'[p] = scReq[p]
    BY <1>12, StillStopped DEF scheduler
  <2>3. ebPc'[p] # "DeleteStateMachine"
    BY <1>12 DEF l, Searched
  <2>4. Asked(p)' /\ Placed(p)'
    BY <1>0, <1>1, <1>2, <1>4, <2>1, <2>2, <2>3 DEF Local, Asked, Placed
  <2>5. Pointed(p)'
    BY <1>0, <1>1, <1>6, <2>1 DEF Pointed, Released, WithTriggers
  <2>. QED  BY <1>1, <2>1, <2>4, <2>5 DEF Keeps, Local
<1>13. AfterRules(p, l)
  BY DEF RulesStep, l
<1>. QED  BY <1>7, <1>8, <1>9, <1>10, <1>11, <1>12, <1>13, AfterRulesCases

LEMMA SchedulesStepKeeps ==
  ASSUME IInv, ServicesKept, NEW p \in Procs, SchedulesStep(p)
  PROVE  Keeps(p)
<1> DEFINE l == scPc'[p]
<1>0. /\ AppOK /\ Local(p) /\ own[p] \in Memory /\ SC!IInv
      /\ stage[p] = "schedules" /\ SC!Work(p) /\ UNCHANGED machine
  BY Before DEF IInv, SchedulesStep
<1>1. ~SF!Running(p)' /\ sfPc'[p] \notin SF!Purging /\ UNCHANGED <<status, routing>>
  <2>1. ~SF!Running(p) /\ sfPc'[p] = sfPc[p] /\ UNCHANGED <<status, routing>>
    BY <1>0 DEF Local, machine
  <2>. QED  BY <2>1 DEF SF!Running, SF!Purging, SF!Calls
<1>2. SC!Running(p) /\ (SC!Running(p)' => scReq'[p] = scReq[p])
  BY <1>0, SchedulesWork
<1>3. l \in {"ok", "error"} => ~SC!Running(p)'
  BY DEF SC!Running, SC!Calls
<1>4. scMem'[p].again => status = "DELETING"
  <2>1. scPc[p] # "DeleteStateMachine" /\ (scMem[p].again => status = "DELETING")
    BY <1>0 DEF Local, Placed
  <2>2. ~SC!DeleteStateMachine(p)
    BY <2>1 DEF SC!DeleteStateMachine
  <2>. QED  BY <1>0, <2>1, <2>2, SchedulesAssumptions, SC!SearchesAgain
<1>5. Searched(l) => TriggerOp(cmd[p]) = "delete" /\ status # "ABSENT"
  BY <1>0, SearchedSchedules DEF Searched
<1>6. Pointed(p)
  BY <1>0 DEF Local
<1> HIDE DEF l
<1>7. AfterSchedules(p, l)
  BY DEF SchedulesStep, l
<1>8. CASE Searched(l)
  <2>1. PICK s \in {"DeleteStateMachine", "confirm"} : Enter(p, s, own[p]) /\ UNCHANGED bus
    BY <1>7, <1>8 DEF AfterSchedules, Searched
  <2>2. /\ stage'[p] = s /\ own'[p] = own[p] /\ cmd'[p] = cmd[p] /\ AppOK'
        /\ \A q \in Procs \ {p} : stage'[q] = stage[q] /\ cmd'[q] = cmd[q] /\ own'[q] = own[q]
    BY <1>0, <2>1, GoesOn, StageNames
  <2>3. (EB!Running(p)' <=> EB!Running(p)) /\ ebMem'[p] = ebMem[p] /\ ebReq'[p] = ebReq[p]
    BY <2>1, StillStopped DEF bus
  <2>4. Asked(p)' /\ Placed(p)'
    BY <1>0, <1>1, <1>2, <1>4, <1>5, <1>8, <2>1, <2>2, <2>3 DEF Local, Asked, Placed
  <2>5. Pointed(p)'
    BY <1>1, <2>1, <2>2 DEF Pointed, WithTriggers
  <2>. QED  BY <1>1, <2>1, <2>2, <2>4, <2>5 DEF Keeps, Local
<1>9. CASE l = "error" /\ EB!Running(p)
  <2>1. Enter(p, l, Fresh) /\ EB!Crash(p)
    BY <1>7, <1>9 DEF AfterSchedules, Searched
  <2>2. ~SC!Running(p)' /\ ~EB!Running(p)'
    BY <1>3, <1>9, <2>1, Stopped
  <2>. QED  BY <1>1, <1>9, <2>1, <2>2, EndKeeps DEF Ended
<1>10. CASE l \in {"ok", "error"} /\ ~EB!Running(p)
  <2>1. Enter(p, l, Fresh) /\ UNCHANGED bus
    BY <1>7, <1>10 DEF AfterSchedules, Searched
  <2>2. ~SC!Running(p)' /\ ~EB!Running(p)'
    BY <1>3, <1>10, <2>1, StillStopped
  <2>. QED  BY <1>1, <1>10, <2>1, <2>2, EndKeeps DEF Ended
<1>11. CASE /\ ~Searched(l) /\ ~(l = "error" /\ EB!Running(p))
            /\ ~(l \in {"ok", "error"} /\ ~EB!Running(p))
  <2>1. Enter(p, "schedules", own[p]) /\ UNCHANGED bus
    BY <1>7, <1>11 DEF AfterSchedules
  <2>2. /\ stage'[p] = "schedules" /\ own'[p] = own[p] /\ cmd'[p] = cmd[p] /\ AppOK'
        /\ \A q \in Procs \ {p} : stage'[q] = stage[q] /\ cmd'[q] = cmd[q] /\ own'[q] = own[q]
    BY <1>0, <2>1, GoesOn, StageNames
  <2>3. (EB!Running(p)' <=> EB!Running(p)) /\ ebMem'[p] = ebMem[p] /\ ebReq'[p] = ebReq[p]
    BY <2>1, StillStopped DEF bus
  <2>4. scPc'[p] # "DeleteStateMachine"
    BY <1>11 DEF l, Searched
  <2>5. Asked(p)' /\ Placed(p)'
    BY <1>0, <1>1, <1>2, <1>4, <2>2, <2>3, <2>4 DEF Local, Asked, Placed
  <2>6. Pointed(p)'
    BY <1>0, <1>1, <1>6, <2>2 DEF Pointed, Released, WithTriggers
  <2>. QED  BY <1>1, <2>2, <2>5, <2>6 DEF Keeps, Local
<1>. QED  BY <1>8, <1>9, <1>10, <1>11

-----------------------------------------------------------------------------
(* The invariant *)

LEMMA ProcessKeeps ==
  ASSUME IInv, ServicesKept, NEW p \in Procs, Step(p) \/ Confirm(p) \/ Refuse(p) \/ Crash(p)
  PROVE  Keeps(p)
BY MachineStepKeeps, GetArnForRulesKeeps, GetArnForSchedulesKeeps,
   DescribeStateMachineKeeps, CallFailsKeeps, RulesStepKeeps, SchedulesStepKeeps,
   DeleteStateMachineKeeps, ConfirmKeeps, AbandonKeeps DEF Step

(* The others' part of a step of p. *)
LEMMA OthersStay ==
  ASSUME IInv, NEW p \in Procs, Keeps(p), Advances,
         \A q \in Procs \ {p} : Untouched(q)
  PROVE  AppOK' /\ \A q \in Procs : Local(q)'
<1>1. ASSUME NEW q \in Procs \ {p} PROVE Local(q)'
  BY InvParts, LocalStays DEF Keeps
<1>. QED  BY <1>1 DEF Keeps

LEMMA InitInv == Init => IInv
<1> SUFFICES ASSUME Init PROVE IInv
  OBVIOUS
<1>1. AnyCommand \in Commands /\ Fresh \in Memory
  BY CommandsAssumption, MachineAssumption DEF AnyCommand, Fresh, Memory
<1>2. AppOK
  BY <1>1 DEF Init, AppOK, Ended
<1>3. ASSUME NEW p \in Procs PROVE Local(p)
  <2>1. /\ stage[p] = "new" /\ own[p] = Fresh
        /\ sfPc[p] = "new" /\ ebPc[p] = "new" /\ scPc[p] = "new"
        /\ ebMem[p] = EB!Fresh /\ scMem[p] = SC!Fresh
    BY DEF Init, SF!Init, EB!Init, SC!Init
  <2>2. /\ ~SF!Running(p) /\ ~EB!Running(p) /\ ~SC!Running(p)
        /\ sfPc[p] \notin SF!Purging
    BY <2>1 DEF SF!Running, SF!Calls, EB!Running, EB!Calls, SC!Running, SC!Calls, SF!Purging
  <2>3. ~own[p].found /\ ~own[p].deleting /\ ~ebMem[p].again /\ ~scMem[p].again
    BY <2>1 DEF Fresh, EB!Fresh, SC!Fresh
  <2>. QED  BY <2>1, <2>2, <2>3 DEF Local, Asked, Pointed, Placed, WithTriggers
<1>. QED  BY <1>2, <1>3, ServicesInit, InvParts

LEMMA NextInv == IInv /\ [Next]_vars => IInv'
<1> SUFFICES ASSUME IInv, [Next]_vars PROVE IInv'
  OBVIOUS
<1>0. ServicesKept /\ AppOK /\ \A q \in Procs : Local(q)
  BY ServicesKeep, InvParts DEF ServicesKept
<1>1. ASSUME NEW p \in Procs, NEW c \in Commands, Start(p, c)
      PROVE  AppOK' /\ \A q \in Procs : Local(q)'
  <2>1. Advances
    <3>1. UNCHANGED <<status, routing>>
      BY <1>1 DEF Start, machine, SF!Start, SF!cloud
    <3>. QED  BY <3>1 DEF Advances, Released
  <2>2. ASSUME NEW q \in Procs \ {p} PROVE Untouched(q)
    <3>1. sfPc'[q] = sfPc[q] /\ sfOpt'[q] = sfOpt[q]
      BY <1>1 DEF Start, machine, SF!Start, IInv, SF!IInv, SF!TypeOK, SF!ProcsOK
    <3>. QED  BY <1>1, <3>1 DEF Start, bus, scheduler, Untouched
  <2>. QED  BY <1>0, <1>1, <2>1, <2>2, StartKeeps, OthersStay
<1>2. ASSUME NEW p \in Procs, Step(p) \/ Confirm(p) \/ Refuse(p) \/ Crash(p)
      PROVE  AppOK' /\ \A q \in Procs : Local(q)'
  <2>1. /\ MachineMoves(p) \/ SF!DeletionStarts
        /\ BusMoves(p) /\ SchedulerMoves(p)
    BY <1>2, StepMoves
  <2>2. Advances /\ \A q \in Procs \ {p} : Untouched(q)
    BY <2>1, MachineFrame, BusFrame, SchedulerFrame DEF Untouched
  <2>. QED  BY <1>0, <1>2, <2>2, ProcessKeeps, OthersStay
<1>3. ASSUME UNCHANGED <<machine, bus, scheduler, stage, cmd, own, alone>>, gone' \in BOOLEAN
      PROVE  AppOK' /\ \A q \in Procs : Local(q)'
  <2>1. AppOK'
    BY <1>0, <1>3 DEF AppOK
  <2>2. Advances /\ \A q \in Procs : Untouched(q)
    BY <1>3 DEF Advances, Released, Untouched, machine, bus, scheduler
  <2>. QED  BY <1>0, <1>3, <2>1, <2>2, LocalStays
<1>4. ASSUME MachineGone
      PROVE  AppOK' /\ \A q \in Procs : Local(q)'
  BY <1>3, <1>4 DEF MachineGone
<1>5. ASSUME UNCHANGED vars
      PROVE  AppOK' /\ \A q \in Procs : Local(q)'
  BY <1>0, <1>3, <1>5 DEF vars, app, AppOK
<1>6. AppOK' /\ \A q \in Procs : Local(q)'
  BY <1>1, <1>2, <1>4, <1>5 DEF Next
<1>7. IInv' <=> SF!IInv' /\ EB!IInv' /\ SC!IInv' /\ AppOK' /\ \A p \in Procs : Local(p)'
  BY DEF IInv, TypeOK, AppOK, Local
<1>. QED  BY <1>0, <1>6, <1>7 DEF ServicesKept

(* Whatever fails and whoever runs beside, App's processes and its         *)
(* services stay in step (deploy.go:82-98; delete.go:23-83).               *)
THEOREM Invariance == Spec => []IInv
<1>. QED  BY InitInv, NextInv, PTL DEF Spec

(* Every variable keeps its type, and a service is at work only at the     *)
(* stages of its command that wait for it.                                 *)
THEOREM TypeCorrect == Spec => []TypeOK
<1>1. IInv => TypeOK
  BY DEF IInv
<1>. QED  BY <1>1, Invariance, PTL

(* The composition is a run of each of the services it is made of, so that *)
(* what is proved of a service holds of it in every command.               *)
THEOREM RunsItsServices == Spec => SF!Spec /\ EB!Spec /\ SC!Spec
<1>1. Init => SF!Init /\ EB!Init /\ SC!Init
  BY DEF Init
<1>2. IInv /\ [Next]_vars =>
        [SF!Next]_(SF!vars) /\ [EB!Next]_(EB!vars) /\ [SC!Next]_(SC!vars)
  BY ServiceSteps
<1>. QED  BY <1>1, <1>2, Invariance, PTL DEF Spec, SF!Spec, EB!Spec, SC!Spec

(* Whichever commands run, with whatever triggers, the releases of the     *)
(* state machine are those of the abstract store, one version is always    *)
(* left, and only a rollback deletes the newest.                           *)
THEOREM ReleasesSafe ==
  Spec => []SF!SomeVersionLeft /\ SF!NewestOnlyByRollback /\ SF!ImplementsStore
<1>1. SF!Spec => []SF!SomeVersionLeft
  BY MachineAssumptions, SF!Safety
<1>2. SF!Spec => SF!NewestOnlyByRollback
  BY MachineAssumptions, SF!NewestGuarded
<1>3. SF!Spec => SF!ImplementsStore
  BY MachineAssumptions, SF!Refinement
<1>. QED  BY <1>1, <1>2, <1>3, RunsItsServices, PTL

(* Whichever commands run together, no rule that stefunny does not manage  *)
(* is deleted, nor loses a target, but one a deployment calls its own.     *)
THEOREM TriggersSafe == Spec => EB!HandMadeRulesKept
<1>1. EB!Spec => EB!HandMadeRulesKept
  BY RulesAssumptions, EB!HandMadeSafe
<1>. QED  BY <1>1, RunsItsServices, PTL

(* App has nobody who shifts traffic or creates schedules by hand.         *)
LEMMA NobodyByHand == SF!NoOperator /\ SC!NoClash
BY DEF SF!NoOperator, SC!NoClash, ServiceFaults

(* One command at a time, whatever failed or was killed before: the part   *)
(* of a whole command that releases, rolls back, purges or sets triggers   *)
(* leaves what it promises when it ends well (deploy.go:82-98;             *)
(* delete.go:52-83).                                                       *)
THEOREM PartsKeepTheirWord ==
  ASSUME SF!OneProcess
  PROVE  Spec => /\ SF!DeployReleases /\ SF!RollbackOutcome /\ SF!PurgeKeepsLatest
                 /\ EB!RulesAsConfigured /\ EB!StateKept /\ EB!OtherAliasesKept
                 /\ SC!SchedulesAsConfigured /\ SC!StateKept /\ SC!OthersKept
<1>1. EB!OneProcess /\ SC!OneProcess
  BY DEF SF!OneProcess, EB!OneProcess, SC!OneProcess
<1>2. SF!Spec => SF!DeployReleases
  BY NobodyByHand, MachineAssumptions, SF!DeploysRelease
<1>3. SF!Spec => SF!RollbackOutcome
  BY NobodyByHand, MachineAssumptions, SF!RollbacksEnd
<1>4. SF!Spec => SF!PurgeKeepsLatest
  BY NobodyByHand, MachineAssumptions, SF!PurgesKeep
<1>5. EB!Spec => EB!RulesAsConfigured
  BY <1>1, RulesAssumptions, EB!ConfiguredRules
<1>6. EB!Spec => EB!StateKept
  BY <1>1, RulesAssumptions, EB!StatesKept
<1>7. EB!Spec => EB!OtherAliasesKept
  BY <1>1, RulesAssumptions, EB!OtherAliasesSafe
<1>8. SC!Spec => SC!SchedulesAsConfigured
  BY <1>1, NobodyByHand, SchedulesAssumptions, SC!ConfiguredSchedules
<1>9. SC!Spec => SC!StateKept
  BY <1>1, NobodyByHand, SchedulesAssumptions, SC!StatesKept
<1>10. SC!Spec => SC!OthersKept
  BY <1>1, NobodyByHand, SchedulesAssumptions, SC!OthersSafe
<1>. QED  BY <1>2, <1>3, <1>4, <1>5, <1>6, <1>7, <1>8, <1>9, <1>10, RunsItsServices, PTL

-----------------------------------------------------------------------------
(* One step writes to one of the services *)

(* What AWS holds. *)
Rest == <<status, published, versions, routing>>
RulesThere == <<exists, managed, ruleOn, ruleTarget>>
SchedulesThere == <<target, on>>

LEMMA OneWrites ==
  ASSUME NEW p \in Procs, Step(p) \/ Confirm(p) \/ Refuse(p) \/ Crash(p)
  PROVE  \/ /\ stage[p] = "machine" /\ SF!Work(p)
            /\ UNCHANGED <<RulesThere, SchedulesThere>>
         \/ /\ stage[p] = "rules" /\ EB!Work(p)
            /\ UNCHANGED <<Rest, SchedulesThere>>
         \/ /\ stage[p] = "schedules" /\ SC!Work(p)
            /\ UNCHANGED <<Rest, RulesThere>>
         \/ /\ stage[p] = "DeleteStateMachine" /\ SF!DeletionStarts
            /\ UNCHANGED <<RulesThere, SchedulesThere>>
         \/ UNCHANGED <<Rest, RulesThere, SchedulesThere>>
<1>1. /\ UNCHANGED machine \/ SF!Crash(p) => UNCHANGED Rest
      /\ UNCHANGED bus \/ EB!Crash(p) \/ EB!DeleteStateMachine(p) => UNCHANGED RulesThere
      /\ UNCHANGED scheduler \/ SC!Crash(p) \/ SC!DeleteStateMachine(p) =>
           UNCHANGED SchedulesThere
  BY DEF machine, bus, scheduler, Rest, RulesThere, SchedulesThere, SF!Crash, SF!cloud,
     EB!Crash, EB!DeleteStateMachine, EB!bus, SC!Crash, SC!DeleteStateMachine, SC!store
<1>2. ASSUME NEW q PROVE /\ EB!Start(p, q) => UNCHANGED RulesThere
                         /\ SC!Start(p, q) => UNCHANGED SchedulesThere
  BY DEF EB!Start, EB!bus, RulesThere, SC!Start, SC!store, SchedulesThere
<1>3. CASE MachineStep(p)
  BY <1>1, <1>3 DEF MachineStep
<1>4. CASE GetArnForRules(p) \/ DescribeStateMachine(p)
  <2>1. UNCHANGED machine /\ UNCHANGED scheduler
    BY <1>4 DEF GetArnForRules, DescribeStateMachine
  <2>2. UNCHANGED bus \/ \E q : EB!Start(p, q)
    BY <1>4 DEF GetArnForRules, DescribeStateMachine
  <2>. QED  BY <1>1, <1>2, <2>1, <2>2
<1>5. CASE GetArnForSchedules(p)
  <2>1. UNCHANGED machine /\ UNCHANGED bus
    BY <1>5 DEF GetArnForSchedules
  <2>2. UNCHANGED scheduler \/ \E q : SC!Start(p, q)
    BY <1>5 DEF GetArnForSchedules
  <2>. QED  BY <1>1, <1>2, <2>1, <2>2
<1>6. CASE DescribeLatest(p) \/ Confirm(p) \/ DeleteAgain(p) \/ CallFails(p)
  BY <1>1, <1>6 DEF DescribeLatest, Confirm, DeleteAgain, CallFails
<1>7. CASE RulesStep(p)
  <2>1. UNCHANGED scheduler \/ SC!Crash(p) \/ SC!DeleteStateMachine(p)
        \/ \E q : SC!Start(p, q)
    BY <1>7, AfterRulesCases DEF RulesStep, ResumeSchedules
  <2>. QED  BY <1>1, <1>2, <1>7, <2>1 DEF RulesStep
<1>8. CASE SchedulesStep(p)
  <2>1. UNCHANGED bus \/ EB!Crash(p)
    BY <1>8 DEF SchedulesStep, AfterSchedules
  <2>. QED  BY <1>1, <1>8, <2>1 DEF SchedulesStep
<1>9. CASE DeleteStateMachine(p)
  <2>1. UNCHANGED RulesThere
    BY <1>1, <1>9 DEF DeleteStateMachine, Resume
  <2>2. UNCHANGED SchedulesThere
    BY <1>1, <1>9 DEF DeleteStateMachine, Resume, ResumeSchedules
  <2>3. stage[p] = "DeleteStateMachine" /\ (UNCHANGED machine \/ SF!DeletionStarts)
    BY <1>9 DEF DeleteStateMachine
  <2>. QED  BY <1>1, <2>1, <2>2, <2>3
<1>10. CASE DeleteFails(p) \/ Refuse(p) \/ Crash(p)
  BY <1>1, <1>10 DEF DeleteFails, Refuse, Crash, Abandon
<1>. QED
  BY <1>3, <1>4, <1>5, <1>6, <1>7, <1>8, <1>9, <1>10 DEF Step

LEMMA NobodyWrites ==
  ASSUME \/ \E p \in Procs, c \in Commands : Start(p, c)
         \/ MachineGone \/ UNCHANGED vars
  PROVE  UNCHANGED <<Rest, RulesThere, SchedulesThere>>
BY DEF Start, MachineGone, vars, machine, bus, scheduler, Rest, RulesThere, SchedulesThere,
   SF!Start, SF!cloud

(* A service writes for a command that does more than look. *)
LEMMA RulesRequested ==
  ASSUME IInv, NEW p \in Procs, EB!Work(p), ~UNCHANGED RulesThere
  PROVE  TriggerOp(cmd[p]) # "look"
<1>1. EB!IInv /\ EB!Running(p)
  BY RulesWork DEF IInv
<1>2. ebReq[p].op # "look"
  BY <1>1, RulesAssumptions, EB!LookReads DEF EB!bus, RulesThere
<1>. QED  BY <1>1, <1>2, RulesKnown

LEMMA SchedulesRequested ==
  ASSUME IInv, NEW p \in Procs, SC!Work(p), ~UNCHANGED SchedulesThere
  PROVE  TriggerOp(cmd[p]) # "look"
<1>1. SC!IInv /\ SC!Running(p)
  BY SchedulesWork DEF IInv
<1>2. scReq[p].op # "look"
  BY <1>1, SchedulesAssumptions, SC!LookReads DEF SC!store, SchedulesThere
<1>. QED  BY <1>1, <1>2, SchedulesKnown

-----------------------------------------------------------------------------
(* Commands that only look *)

LEMMA LookingChangesNothing ==
  ASSUME IInv, NEW p \in Procs, Step(p) \/ Confirm(p) \/ Refuse(p) \/ Crash(p),
         Busy(p) => OnlyLooks(cmd[p])
  PROVE  UNCHANGED <<Rest, RulesThere, SchedulesThere>>
<1>0. Local(p) /\ SF!IInv
  BY Before DEF IInv
<1>1. Busy(p) => TriggerOp(cmd[p]) = "look"
  <2>1. cmd[p].op \in {"status", "diff"} => cmd[p].op \notin {"deploy", "delete"}
    OBVIOUS
  <2>. QED  BY <2>1 DEF OnlyLooks, TriggerOp, ReadOnly
<1>2. CASE /\ stage[p] = "machine" /\ SF!Work(p)
           /\ UNCHANGED <<RulesThere, SchedulesThere>>
  <2>1. OnlyLooks(cmd[p])
    BY <1>2, StageNames DEF Busy
  <2>2. OnMachine(cmd[p]) /\ sfOpt[p] = MachineOption(cmd[p])
    BY <1>0, <1>2 DEF Local, Asked
  <2>3. cmd[p].dryRun /\ cmd[p].op # "versions"
    BY <2>1, <2>2 DEF OnlyLooks, OnMachine
  <2>4. sfOpt[p].dryRun /\ sfOpt[p].op # "versions"
    BY <2>2, <2>3 DEF MachineOption
  <2>5. UNCHANGED SF!cloud
    BY <1>0, <1>2, <2>4, MachineAssumptions, SF!DryRunReads
  <2>. QED  BY <1>2, <2>5 DEF SF!cloud, Rest
<1>3. CASE stage[p] = "rules" /\ EB!Work(p) /\ UNCHANGED <<Rest, SchedulesThere>>
  BY <1>1, <1>3, RulesRequested, StageNames DEF Busy
<1>4. CASE stage[p] = "schedules" /\ SC!Work(p) /\ UNCHANGED <<Rest, RulesThere>>
  BY <1>1, <1>4, SchedulesRequested, StageNames DEF Busy
<1>5. CASE stage[p] = "DeleteStateMachine"
  BY <1>0, <1>1, <1>5, StageNames DEF Busy, Local, Placed
<1>. QED  BY <1>2, <1>3, <1>4, <1>5, OneWrites

(* --dry-run, status and diff change nothing, however many of them run     *)
(* together (deploy.go:115-119, 158-174, 202-219; delete.go:52-54).        *)
THEOREM LooksOnly == Spec => ReadOnlyChangesNothing
<1>1. ASSUME IInv, [Next]_vars, \A p \in Procs : Busy(p) => OnlyLooks(cmd[p])
      PROVE  UNCHANGED <<Rest, RulesThere, SchedulesThere>>
  BY <1>1, NobodyWrites, LookingChangesNothing DEF Next
<1>2. IInv /\ [Next]_vars =>
        [(\A p \in Procs : Busy(p) => OnlyLooks(cmd[p])) =>
           /\ UNCHANGED <<status, published, versions, routing>>
           /\ UNCHANGED <<exists, managed, ruleOn, ruleTarget, target, on>>]_vars
  BY <1>1 DEF Rest, RulesThere, SchedulesThere
<1>. QED  BY <1>2, Invariance, PTL DEF Spec, ReadOnlyChangesNothing

-----------------------------------------------------------------------------
(* Deleting: the state machine first *)

LEMMA StillWired ==
  ASSUME UNCHANGED <<ruleTarget, target>>
  PROVE  Wired' = Wired
BY DEF Wired, TargetOf

LEMMA ServingKept ==
  ASSUME IInv, NEW p \in Procs, Step(p) \/ Confirm(p) \/ Refuse(p) \/ Crash(p),
         Busy(p) => cmd[p].op = "delete"
  PROVE  Wired \subseteq Wired' \/ status = "DELETING"
<1>0. Local(p) /\ EB!IInv /\ SC!IInv
  BY Before DEF IInv
<1>1. Busy(p) => TriggerOp(cmd[p]) # "deploy"
  BY DEF TriggerOp
<1>2. CASE stage[p] = "rules" /\ EB!Work(p) /\ UNCHANGED SchedulesThere
  <2>1. EB!Running(p) /\ ebReq[p].op = TriggerOp(cmd[p]) /\ ebReq[p].op # "deploy"
    BY <1>1, <1>2, RulesWork, RulesKnown, StageNames DEF Busy
  <2>2. CASE UNCHANGED ruleTarget
    BY <1>2, <2>2, StillWired DEF SchedulesThere
  <2>3. CASE EB!MayWrite(ebReq[p], ebMem[p])
    <3>1. ebMem[p].again
      <4>1. ebReq[p] \in EB!RequestSet
        BY <1>0, RulesAssumptions DEF EB!IInv, EB!TypeOK, EB!ProcsOK, EB!RequestsAssumption
      <4>. QED  BY <2>1, <2>3, <4>1 DEF EB!MayWrite, EB!RequestSet
    <3>. QED  BY <1>0, <3>1 DEF Local, Placed
  <2>. QED  BY <1>0, <1>2, <2>2, <2>3, RulesAssumptions, EB!TargetMoves
<1>3. CASE stage[p] = "schedules" /\ SC!Work(p) /\ UNCHANGED RulesThere
  <2>1. SC!Running(p) /\ scReq[p].op = TriggerOp(cmd[p]) /\ scReq[p].op # "deploy"
    BY <1>1, <1>3, SchedulesWork, SchedulesKnown, StageNames DEF Busy
  <2>2. CASE UNCHANGED target
    BY <1>3, <2>2, StillWired DEF RulesThere
  <2>3. CASE SC!MayWrite(scReq[p], scMem[p])
    <3>1. scMem[p].again
      <4>1. scReq[p] \in SC!RequestSet
        BY <1>0, SchedulesAssumptions
           DEF SC!IInv, SC!TypeOK, SC!ProcsOK, SC!RequestsAssumption
      <4>. QED  BY <2>1, <2>3, <4>1 DEF SC!MayWrite, SC!RequestSet
    <3>. QED  BY <1>0, <3>1 DEF Local, Placed
  <2>. QED  BY <1>0, <1>3, <2>2, <2>3, SchedulesAssumptions, SC!TargetMoves
<1>4. CASE UNCHANGED <<RulesThere, SchedulesThere>>
  BY <1>4, StillWired DEF RulesThere, SchedulesThere
<1>. QED  BY <1>2, <1>3, <1>4, OneWrites

(* A delete that is refused, fails or is killed before it deletes the      *)
(* state machine leaves every trigger in place (delete.go:42-80;           *)
(* sfn_service.go:630-655).                                                *)
THEOREM ServesOn == Spec => ServesUntilDeleted
<1>1. ASSUME IInv, [Next]_vars, \A p \in Procs : Busy(p) => cmd[p].op = "delete"
      PROVE  Wired \subseteq Wired' \/ status = "DELETING"
  <2>1. CASE \E p \in Procs : Step(p) \/ Confirm(p) \/ Refuse(p) \/ Crash(p)
    BY <1>1, <2>1, ServingKept
  <2>2. CASE \/ \E p \in Procs, c \in Commands : Start(p, c)
             \/ MachineGone \/ UNCHANGED vars
    BY <2>2, NobodyWrites, StillWired DEF RulesThere, SchedulesThere
  <2>. QED  BY <1>1, <2>1, <2>2 DEF Next
<1>2. IInv /\ [Next]_vars =>
        [(\A p \in Procs : Busy(p) => cmd[p].op = "delete") =>
           Wired \subseteq Wired' \/ status = "DELETING"]_vars
  BY <1>1
<1>. QED  BY <1>2, Invariance, PTL DEF Spec, ServesUntilDeleted


-----------------------------------------------------------------------------
(* The promise of Deployment *)

LEMMA TriggerKinds ==
  ASSUME NEW t \in Triggers
  PROVE  \/ t[1] = "rule" /\ t[2] \in Rules /\ t[3] \in Ids
            /\ t = <<"rule", t[2], t[3]>> /\ TargetOf(t) = ruleTarget[t[2]][t[3]]
         \/ t[1] = "schedule" /\ t[2] \in SC!Groups /\ t[3] \in Names
            /\ t = <<"schedule", t[2], t[3]>> /\ TargetOf(t) = target[t[2]][t[3]]
BY DEF Triggers, TargetOf

LEMMA TargetsKept ==
  ASSUME NEW t \in Triggers
  PROVE  /\ t[1] = "rule" /\ UNCHANGED ruleTarget => TargetOf(t)' = TargetOf(t)
         /\ t[1] = "schedule" /\ UNCHANGED target => TargetOf(t)' = TargetOf(t)
BY DEF TargetOf

LEMMA Stutters ==
  ASSUME UNCHANGED <<Rest, RulesThere, SchedulesThere>>
  PROVE  UNCHANGED <<Life, Releases, Wires>>
BY DEF Rest, RulesThere, SchedulesThere, Life, Releases, Released, Wires, TargetOf

LEMMA Unwires ==
  ASSUME UNCHANGED Rest, NEW T \in SUBSET Triggers,
         \A t \in Triggers : TargetOf(t)' = IF t \in T THEN "none" ELSE TargetOf(t)
  PROVE  Promise!DeploymentNext
<1>1. UNCHANGED <<Life, Releases>>
  BY DEF Rest, Life, Releases, Released
<1>2. Wires' = [t \in Triggers |-> IF t \in T THEN "none" ELSE Wires[t]]
  BY TriggersAssumption DEF Wires
<1>3. Promise!Unwire(T)
  BY <1>1, <1>2 DEF Promise!Unwire
<1>. QED  BY <1>3 DEF Promise!DeploymentNext

LEMMA WiresOne ==
  ASSUME UNCHANGED Rest, NEW u \in Triggers, NEW a \in Aliases,
         status # "ABSENT", a \in Releases \cup Skipped,
         \A t \in Triggers : TargetOf(t)' = IF t = u THEN a ELSE TargetOf(t)
  PROVE  Promise!DeploymentNext
<1>1. UNCHANGED <<Life, Releases>> /\ Life # "none"
  BY DEF Rest, Life, Releases, Released
<1>2. Wires' = [Wires EXCEPT ![u] = a]
  BY DEF Wires
<1>3. Promise!Wire(u, a)
  BY <1>1, <1>2 DEF Promise!Wire
<1>. QED  BY <1>3 DEF Promise!DeploymentNext

(* A deployment at its triggers has released their alias. *)
LEMMA WiredToRelease ==
  ASSUME IInv, NEW p \in Procs, TriggerOp(cmd[p]) = "deploy", stage[p] \in WithTriggers
  PROVE  cmd[p].alias \in Aliases /\ cmd[p].alias \in Releases \cup Skipped
<1>1. Pointed(p) /\ cmd[p] \in Commands /\ cmd[p].alias \in Aliases
  BY InvParts, CommandTypes DEF Local
<1>2. cmd[p].op = "deploy"
  BY DEF TriggerOp
<1>. QED  BY <1>1, <1>2 DEF Pointed, Releases, Skipped

LEMMA MachinePromise ==
  ASSUME IInv, NEW p \in Procs, SF!Work(p) \/ SF!DeletionStarts,
         UNCHANGED <<RulesThere, SchedulesThere>>
  PROVE  [Promise!DeploymentNext]_<<Life, Releases, Wires>>
<1>0. SF!TypeOK /\ SF!CloudOK /\ SF!ProcsOK
  BY DEF IInv, SF!IInv, SF!TypeOK
<1>1. UNCHANGED Wires
  BY DEF RulesThere, SchedulesThere, Wires, TargetOf
<1>2. CASE status = "ABSENT" /\ status' = "ACTIVE" /\ routing' = routing
  <2>1. Promise!Create
    BY <1>1, <1>2 DEF Promise!Create, Life, Releases, Released
  <2>. QED  BY <2>1 DEF Promise!DeploymentNext
<1>3. CASE /\ status = "ACTIVE" /\ status' = "ACTIVE"
           /\ routing' = [routing EXCEPT ![SF!MyAlias(p)] = {sfMem[p].target}]
  <2>1. SF!MyAlias(p) \in Aliases
    BY <1>0, MachineAssumptions DEF SF!MyAlias, SF!ProcsOK, SF!OptionsAssumption, SF!OptionSet
  <2>2. Releases' = Releases \cup {SF!MyAlias(p)}
    BY <1>0, <1>3, <2>1 DEF Releases, Released, SF!CloudOK
  <2>3. Promise!Release(SF!MyAlias(p))
    BY <1>1, <1>3, <2>2 DEF Promise!Release, Life
  <2>. QED  BY <2>1, <2>3 DEF Promise!DeploymentNext
<1>4. CASE UNCHANGED <<status, routing>>
  BY <1>1, <1>4 DEF Life, Releases, Released
<1>5. CASE SF!DeletionStarts
  <2>1. Promise!Leave
    BY <1>1, <1>5 DEF SF!DeletionStarts, Promise!Leave, Life, Releases, Released
  <2>. QED  BY <2>1 DEF Promise!DeploymentNext
<1>. QED  BY <1>2, <1>3, <1>4, <1>5, MachineAssumptions, SF!CloudMoves

LEMMA RulesPromise ==
  ASSUME IInv, NEW p \in Procs, stage[p] = "rules", EB!Work(p),
         UNCHANGED <<Rest, SchedulesThere>>
  PROVE  [Promise!DeploymentNext]_<<Life, Releases, Wires>>
<1>0. EB!IInv /\ EB!TypeOK /\ EB!BusOK /\ EB!Running(p) /\ UNCHANGED target
  BY RulesWork DEF IInv, EB!IInv, EB!TypeOK, SchedulesThere
<1>1. ruleTarget \in [Rules -> [Ids -> EB!Arns \cup {"none"}]]
  BY <1>0 DEF EB!BusOK, EB!Nothing
<1>2. CASE UNCHANGED ruleTarget
  BY <1>0, <1>2 DEF Rest, Life, Releases, Released, Wires, TargetOf
<1>3. ASSUME NEW r \in Rules, NEW S \in SUBSET Ids,
             ruleTarget' = [ruleTarget EXCEPT ![r] =
               [i \in Ids |-> IF i \in S THEN EB!Nothing ELSE @[i]]]
      PROVE  Promise!DeploymentNext
  <2> DEFINE T == {t \in Triggers : t[1] = "rule" /\ t[2] = r /\ t[3] \in S}
  <2>1. ASSUME NEW t \in Triggers
        PROVE  TargetOf(t)' = IF t \in T THEN "none" ELSE TargetOf(t)
    <3>1. CASE t[1] = "schedule"
      BY <1>0, <3>1, TargetsKept
    <3>2. CASE t[1] = "rule"
      <4>1. t[2] \in Rules /\ t[3] \in Ids
        BY <3>2, TriggerKinds
      <4>2. ruleTarget'[t[2]][t[3]] =
              IF t[2] = r /\ t[3] \in S THEN "none" ELSE ruleTarget[t[2]][t[3]]
        BY <1>1, <1>3, <4>1 DEF EB!Nothing
      <4>. QED  BY <3>2, <4>2 DEF TargetOf
    <3>. QED  BY <3>1, <3>2, TriggerKinds
  <2>2. T \in SUBSET Triggers
    OBVIOUS
  <2>. HIDE DEF T
  <2>. QED  BY <2>1, <2>2, Unwires
<1>4. ASSUME EB!MayWrite(ebReq[p], ebMem[p]), ebReq[p].alias # Unknown,
             NEW r \in ebReq[p].wanted,
             ruleTarget' = [ruleTarget EXCEPT ![r][OwnId] = ebReq[p].alias]
      PROVE  Promise!DeploymentNext
  <2>1. PICK known \in BOOLEAN :
          ebReq[p] = RuleRequest(cmd[p], known) /\ (known => status # "ABSENT")
    BY <1>0, InvParts DEF Local, Asked
  <2>2. cmd[p] \in Commands /\ cmd[p].rules \subseteq Rules
    <3>1. cmd[p] \in Commands
      BY DEF IInv, TypeOK
    <3>2. cmd[p] \in CommandSet
      BY <3>1, CommandsAssumption
    <3>. QED  BY <3>1, <3>2 DEF CommandSet
  <2>3. /\ ebReq[p].op = "deploy" /\ TriggerOp(cmd[p]) = "deploy"
        /\ ebReq[p].alias = cmd[p].alias /\ status # "ABSENT" /\ r \in Rules
    BY <1>4, <2>1, <2>2, RequestFields DEF RuleRequest, EB!MayWrite
  <2>4. cmd[p].alias \in Aliases /\ cmd[p].alias \in Releases \cup Skipped
    BY <2>3, WiredToRelease DEF WithTriggers
  <2> DEFINE u == <<"rule", r, OwnId>>
  <2>5. u \in Triggers
    BY <2>3, TriggersAssumption DEF Triggers
  <2>6. ASSUME NEW t \in Triggers
        PROVE  TargetOf(t)' = IF t = u THEN cmd[p].alias ELSE TargetOf(t)
    <3>1. CASE t[1] = "schedule"
      BY <1>0, <3>1, TargetsKept
    <3>2. CASE t[1] = "rule"
      <4>1. t[2] \in Rules /\ t[3] \in Ids /\ t = <<"rule", t[2], t[3]>>
        BY <3>2, TriggerKinds
      <4>2. ruleTarget'[t[2]][t[3]] =
              IF t[2] = r /\ t[3] = OwnId THEN cmd[p].alias ELSE ruleTarget[t[2]][t[3]]
        BY <1>1, <1>4, <2>3, <4>1, TriggersAssumption
      <4>3. t = u <=> t[2] = r /\ t[3] = OwnId
        BY <4>1
      <4>. QED  BY <3>2, <4>2, <4>3 DEF TargetOf
    <3>. QED  BY <3>1, <3>2, TriggerKinds
  <2>. HIDE DEF u
  <2>. QED  BY <2>3, <2>4, <2>5, <2>6, WiresOne
<1>5. EB!Unknown = Unknown
  BY DEF EB!Unknown, Unknown
<1>. QED  BY <1>0, <1>2, <1>3, <1>4, <1>5, RulesAssumptions, EB!TargetMoves

LEMMA SchedulesPromise ==
  ASSUME IInv, NEW p \in Procs, stage[p] = "schedules", SC!Work(p),
         UNCHANGED <<Rest, RulesThere>>
  PROVE  [Promise!DeploymentNext]_<<Life, Releases, Wires>>
<1>0. SC!IInv /\ SC!TypeOK /\ SC!StoreOK /\ SC!Running(p) /\ UNCHANGED ruleTarget
  BY SchedulesWork DEF IInv, SC!IInv, SC!TypeOK, RulesThere
<1>1. target \in [SC!Groups -> [Names -> SC!Arns \cup {"none"}]]
  BY <1>0 DEF SC!StoreOK, SC!Nothing
<1>2. CASE UNCHANGED target
  BY <1>0, <1>2 DEF Rest, Life, Releases, Released, Wires, TargetOf
<1>3. ASSUME NEW g \in SC!Groups, NEW n \in Names, NEW a,
             target' = [target EXCEPT ![g][n] = a], NEW t \in Triggers
      PROVE  TargetOf(t)' = IF t = <<"schedule", g, n>> THEN a ELSE TargetOf(t)
  <2>1. CASE t[1] = "rule"
    <3>1. t # <<"schedule", g, n>>
      BY <2>1
    <3>. QED  BY <1>0, <2>1, <3>1, TargetsKept
  <2>2. CASE t[1] = "schedule"
    <3>1. t[2] \in SC!Groups /\ t[3] \in Names /\ t = <<"schedule", t[2], t[3]>>
      BY <2>2, TriggerKinds
    <3>2. target'[t[2]][t[3]] = IF t[2] = g /\ t[3] = n THEN a ELSE target[t[2]][t[3]]
      BY <1>1, <1>3, <3>1
    <3>3. t = <<"schedule", g, n>> <=> t[2] = g /\ t[3] = n
      BY <3>1
    <3>. QED  BY <2>2, <3>2, <3>3 DEF TargetOf
  <2>. QED  BY <2>1, <2>2, TriggerKinds
<1>4. ASSUME NEW g \in SC!Groups, NEW n \in Names,
             target' = [target EXCEPT ![g][n] = SC!Nothing]
      PROVE  Promise!DeploymentNext
  <2> DEFINE T == {<<"schedule", g, n>>}
  <2>1. T \in SUBSET Triggers
    BY DEF Triggers
  <2>2. \A t \in Triggers : TargetOf(t)' = IF t \in T THEN "none" ELSE TargetOf(t)
    BY <1>3, <1>4 DEF SC!Nothing
  <2>. HIDE DEF T
  <2>. QED  BY <2>1, <2>2, Unwires
<1>5. ASSUME SC!MayWrite(scReq[p], scMem[p]), scReq[p].alias # Unknown,
             NEW n \in scReq[p].wanted,
             target' = [target EXCEPT ![ConfigGroup[n]][n] = scReq[p].alias]
      PROVE  Promise!DeploymentNext
  <2>1. PICK known \in BOOLEAN :
          scReq[p] = ScheduleRequest(cmd[p], known) /\ (known => status # "ABSENT")
    BY <1>0, InvParts DEF Local, Asked
  <2>2. cmd[p] \in Commands /\ cmd[p].schedules \subseteq Names
    <3>1. cmd[p] \in Commands
      BY DEF IInv, TypeOK
    <3>2. cmd[p] \in CommandSet
      BY <3>1, CommandsAssumption
    <3>. QED  BY <3>1, <3>2 DEF CommandSet
  <2>3. /\ scReq[p].op = "deploy" /\ TriggerOp(cmd[p]) = "deploy"
        /\ scReq[p].alias = cmd[p].alias /\ status # "ABSENT" /\ n \in Names
    BY <1>5, <2>1, <2>2, RequestFields DEF ScheduleRequest, SC!MayWrite
  <2>4. cmd[p].alias \in Aliases /\ cmd[p].alias \in Releases \cup Skipped
    BY <2>3, WiredToRelease DEF WithTriggers
  <2>5. ConfigGroup[n] \in SC!Groups
    BY <2>3, TriggersAssumption DEF SC!Groups
  <2> DEFINE u == <<"schedule", ConfigGroup[n], n>>
  <2>6. u \in Triggers
    BY <2>3, <2>5 DEF Triggers
  <2>7. \A t \in Triggers : TargetOf(t)' = IF t = u THEN cmd[p].alias ELSE TargetOf(t)
    BY <1>3, <1>5, <2>3, <2>5
  <2>. HIDE DEF u
  <2>. QED  BY <2>3, <2>4, <2>6, <2>7, WiresOne
<1>6. SC!Unknown = Unknown
  BY DEF SC!Unknown, Unknown
<1>. QED  BY <1>0, <1>2, <1>4, <1>5, <1>6, SchedulesAssumptions, SC!TargetMoves

(* Whatever fails and whoever runs beside, no trigger is wired before      *)
(* there is a state machine, nor to an alias without a release behind it   *)
(* unless the triggers were deployed by themselves (deploy.go:82-98,       *)
(* 136-225; delete.go:23-83).                                              *)
THEOREM DeploymentPromised == Spec => ImplementsDeployment
<1>1. ASSUME Init PROVE Promise!DeploymentInit
  <2>1. /\ status = "ABSENT" /\ \A a \in Aliases : routing[a] = {}
        /\ ruleTarget = [r \in Rules |-> [i \in Ids |-> "none"]]
        /\ target = [g \in SC!Groups |-> [n \in Names |-> "none"]]
    BY <1>1 DEF Init, SF!Init, EB!Init, EB!Nothing, SC!Init, SC!Nothing
  <2>2. \A t \in Triggers : TargetOf(t) = "none"
    BY <2>1, TriggerKinds
  <2>3. Wires = [t \in Triggers |-> "none"]
    BY <2>2 DEF Wires
  <2>. QED  BY <2>1, <2>3 DEF Promise!DeploymentInit, Life, Releases, Released
<1>2. ASSUME IInv, [Next]_vars
      PROVE  [Promise!DeploymentNext]_<<Life, Releases, Wires>>
  <2>1. ASSUME NEW p \in Procs, Step(p) \/ Confirm(p) \/ Refuse(p) \/ Crash(p)
        PROVE  [Promise!DeploymentNext]_<<Life, Releases, Wires>>
    BY <1>2, <2>1, OneWrites, MachinePromise, RulesPromise, SchedulesPromise, Stutters
  <2>. QED  BY <1>2, <2>1, NobodyWrites, Stutters DEF Next
<1>. QED
  BY <1>1, <1>2, Invariance, PTL
     DEF Spec, ImplementsDeployment, Promise!DeploymentSpec

=============================================================================
