-------------------------------- MODULE App --------------------------------
(***************************************************************************)
(* The commands that work on a state machine and its triggers, composed of *)
(* the services they call one after the other: `deploy` (and `schedule`),  *)
(* `delete`, `rollback`, `versions --delete`, and the read-only `status`   *)
(* and `diff` (deploy.go, delete.go, status.go, diff.go).                  *)
(*                                                                         *)
(* The three services are instances of their own modules, each with its    *)
(* part of the cloud and of the process.  A step of App is a step of one   *)
(* service, with the local code that hands over to the next one, or a call *)
(* that App makes itself.  Configured schedules recur for ever.            *)
(***************************************************************************)
EXTENDS Integers, FiniteSets

CONSTANTS
  Procs, Aliases, NameContains, MaxVersion, MaxRetry,      \* as in SFnService
  Rules, Ids, OwnId,                                \* as in EventBridgeService
  Names, NGroups, DefaultGroup, ConfigGroup,          \* as in SchedulerService
  Commands,  \* the command lines a process may be started with
  Faults     \* "api": any call may fail; "crash": a process may be killed;
             \* "unseen": a state machine just created is not listed yet

CommandSet ==
  [op : {"deploy", "delete", "rollback", "versions", "status", "diff"},
   alias : Aliases,          \* --alias
   dryRun : BOOLEAN,         \* --dry-run
   keep : Nat,               \* --keep-versions
   skipMachine : BOOLEAN,    \* --skip-state-machine; `schedule` implies it
   skipTrigger : BOOLEAN,    \* --skip-trigger
   enable : {"as it is", "on", "off"}, \* --trigger-enabled, --trigger-disabled
   force : BOOLEAN,          \* --force
   qualifier : BOOLEAN,      \* diff --qualifier, of the same alias
   rules : SUBSET Rules,     \* the configuration
   schedules : SUBSET Names]

OnMachine(c) == c.op \in {"rollback", "versions"} \/ (c.op = "deploy" /\ ~c.skipMachine)
Unknown == "[known after deploy]"

ASSUME CommandsAssumption ==
  /\ Commands \subseteq CommandSet
  /\ \A c \in Commands : ~c.skipMachine \/ ~c.skipTrigger
  /\ \E c \in Commands : OnMachine(c)
ASSUME MachineAssumption ==
  /\ MaxVersion \in Nat \ {0} /\ MaxRetry \in Nat \ {0}
  /\ NameContains \subseteq Aliases \X Aliases
  /\ \A a \in Aliases : <<a, a>> \in NameContains
ASSUME TriggersAssumption ==
  /\ OwnId \in Ids
  /\ NGroups \in Nat \ {0} /\ DefaultGroup \in 1..NGroups
  /\ ConfigGroup \in [Names -> 1..NGroups]
  /\ Aliases \cap {"none", Unknown, "bare", "foreign"} = {}

VARIABLES
  status, published, versions, routing,     \* SFnService's cloud
  sfPc, sfOpt, sfMem,
  exists, managed, ruleOn, ruleTarget,      \* EventBridgeService's
  ebPc, ebReq, ebMem,
  target, on, scPc, scReq, scMem,           \* SchedulerService's
  gone,   \* the state machine, once DELETING, is no longer there
  stage,  \* what a process is at, or how it ended
  cmd,    \* the command line a process runs
  own,    \* what App and its SFnServiceImpl remember
  alone   \* the processes nobody has run beside (history, for properties)

-----------------------------------------------------------------------------
(* What the services are asked for *)

MachineOption(c) ==
  [op |-> c.op, alias |-> c.alias, keep |-> c.keep, keepVersion |-> FALSE,
   dryRun |-> c.dryRun]

MachineOptions == {MachineOption(c) : c \in {d \in Commands : OnMachine(d)}}

ReadOnly(c) == c.dryRun \/ c.op \notin {"deploy", "delete"}

(* Mutant of TriggerOp: the dry run of a deployment is forgotten. *)
TriggerOpWet(c) == IF c.op \in {"deploy", "delete"} THEN c.op ELSE "look"

TriggerOp(c) == IF ReadOnly(c) THEN "look" ELSE c.op

(* The request for the triggers of a configuration; known: there is a      *)
(* state machine to start.                                                 *)
TriggerRequest(c, configured, known) ==
  [op |-> TriggerOp(c), alias |-> IF known THEN c.alias ELSE Unknown,
   wanted |-> IF c.op = "delete" THEN {} ELSE configured,
   enabled |-> IF c.op = "delete" \/ c.enable = "off" THEN {} ELSE configured,
   keepState |-> c.op = "deploy" /\ c.enable = "as it is"]

RuleRequest(c, known) == TriggerRequest(c, c.rules, known)
ScheduleRequest(c, known) == TriggerRequest(c, c.schedules, known)
RuleRequests ==
  {RuleRequest(c, TRUE) : c \in Commands}
    \cup {RuleRequest(c, FALSE) : c \in {d \in Commands : TriggerOp(d) = "deploy"}}
ScheduleRequests ==
  {ScheduleRequest(c, TRUE) : c \in Commands}
    \cup {ScheduleRequest(c, FALSE) : c \in {d \in Commands : TriggerOp(d) = "deploy"}}

(* A service that is left in the middle of its work forgets it, as in a    *)
(* crash; the state machine is deleted by others than SFnService.          *)
ServiceFaults == (Faults \cap {"api"}) \cup {"crash"}

(* The modules with the services' theorems, which carry over to App. *)
SF == INSTANCE SFnServiceProofs WITH
        Options <- MachineOptions, Faults <- ServiceFaults \cup {"deletion"},
        pc <- sfPc, opt <- sfOpt, mem <- sfMem

EB == INSTANCE EventBridgeProofs WITH
        Requests <- RuleRequests, Faults <- ServiceFaults,
        on <- ruleOn, target <- ruleTarget,
        pc <- ebPc, req <- ebReq, mem <- ebMem

SC == INSTANCE SchedulerProofs WITH
        Requests <- ScheduleRequests, Faults <- ServiceFaults,
        Timing <- [n \in Names |-> [end |-> 0, at |-> 0, zone |-> 0, readable |-> TRUE]],
        MaxTime <- 1, now <- 1, pc <- scPc, req <- scReq, mem <- scMem

machine == <<status, published, versions, routing, sfPc, sfOpt, sfMem>>
bus == <<exists, managed, ruleOn, ruleTarget, ebPc, ebReq, ebMem>>
scheduler == <<target, on, scPc, scReq, scMem>>
app == <<gone, stage, cmd, own, alone>>
vars == <<machine, bus, scheduler, app>>

-----------------------------------------------------------------------------
(* Processes *)

Ended == {"new", "ok", "error", "crashed"}
Stages ==
  {"machine",             \* the state machine's service is at work
   "arn for rules", "rules", "arn for schedules", "schedules",
   "describe", "describe latest", "confirm", "DeleteStateMachine"}

Memory ==
  [found    : BOOLEAN,            \* the state machine's ARN is cached
   deleting : BOOLEAN,            \* delete has found it DELETING already
   tries    : 0..(MaxRetry - 1)]  \* failed tries of DeleteStateMachine

Fresh == [found |-> FALSE, deleting |-> FALSE, tries |-> 0]
AnyCommand == CHOOSE c \in Commands : TRUE

Busy(p) == stage[p] \in Stages
Present == status # "ABSENT" /\ ~gone

Enter(p, l, m) ==
  /\ stage' = [stage EXCEPT ![p] = l]
  /\ own' = [own EXCEPT ![p] = IF l \in Ended THEN Fresh ELSE m]
  /\ cmd' = [cmd EXCEPT ![p] = IF l \in Ended THEN AnyCommand ELSE @]
  /\ UNCHANGED <<gone, alone>>

(* Whatever p's services were in the middle of is forgotten. *)
Abandon(p) ==
  /\ IF SF!Running(p) THEN SF!Crash(p) ELSE UNCHANGED machine
  /\ IF EB!Running(p) THEN EB!Crash(p) ELSE UNCHANGED bus
  /\ IF SC!Running(p) THEN SC!Crash(p) ELSE UNCHANGED scheduler

Init ==
  /\ SF!Init /\ EB!Init /\ SC!Init
  /\ gone = FALSE
  /\ stage = [p \in Procs |-> "new"]
  /\ cmd = [p \in Procs |-> AnyCommand]
  /\ own = [p \in Procs |-> Fresh]
  /\ alone = {}

(* Bound: a state machine that is gone is not created again. *)
Start(p, c) ==
  /\ ~Busy(p)
  /\ OnMachine(c) => ~gone
  /\ stage' = [stage EXCEPT ![p] =
       CASE OnMachine(c) -> "machine"
         [] c.op = "deploy" /\ c.skipMachine -> "arn for rules"
         [] OTHER -> "describe"]
  /\ cmd' = [cmd EXCEPT ![p] = c]
  /\ alone' = IF \E q \in Procs : Busy(q) THEN {} ELSE {p}
  /\ IF OnMachine(c) THEN SF!Start(p, MachineOption(c)) ELSE UNCHANGED machine
  /\ UNCHANGED <<bus, scheduler, gone, own>>

-----------------------------------------------------------------------------
(* Deploy: the state machine, then the rules, then the schedules *)

(* Mutant of AfterMachine: a failed deployment goes on to the triggers. *)
AfterMachineAnyway(c, l) ==
  IF l \in {"ok", "error"} /\ c.op = "deploy" /\ ~c.skipTrigger
  THEN "arn for rules" ELSE l

AfterMachine(c, l) ==
  IF l = "ok" /\ c.op = "deploy" /\ ~c.skipTrigger THEN "arn for rules" ELSE l

MachineStep(p) ==
  /\ stage[p] = "machine"
  /\ SF!Work(p)
  /\ LET listed == sfPc[p] = "DescribeStateMachine" /\ status # "ABSENT" IN
     IF SF!Running(p)'
     THEN Enter(p, "machine", [own[p] EXCEPT !.found = @ \/ listed])
     ELSE Enter(p, AfterMachine(cmd[p], sfPc'[p]), own[p])
  /\ UNCHANGED <<bus, scheduler>>

(* What GetStateMachineArn answers: from the cache, once it has been found. *)
Answers(p) ==
  IF own[p].found THEN {TRUE}
  ELSE {Present} \cup (IF "unseen" \in Faults /\ published = 1 THEN {FALSE} ELSE {})

(* A dry run has nothing to compare with when there is no state machine.   *)
GetArnForRules(p) ==
  /\ stage[p] = "arn for rules"
  /\ \E known \in Answers(p) :
       LET m == [own[p] EXCEPT !.found = known] IN
       IF cmd[p].dryRun /\ ~known
       THEN Enter(p, "arn for schedules", m) /\ UNCHANGED bus
       ELSE Enter(p, "rules", m) /\ EB!Start(p, RuleRequest(cmd[p], known))
  /\ UNCHANGED <<machine, scheduler>>

GetArnForSchedules(p) ==
  /\ stage[p] = "arn for schedules"
  /\ \E known \in Answers(p) :
       IF cmd[p].dryRun /\ ~known
       THEN Enter(p, "ok", Fresh) /\ UNCHANGED scheduler
       ELSE /\ Enter(p, "schedules", [own[p] EXCEPT !.found = known])
            /\ SC!Start(p, ScheduleRequest(cmd[p], known))
  /\ UNCHANGED <<machine, bus>>

-----------------------------------------------------------------------------
(* Delete, status and diff: first the state machine is described *)

(* A qualified description fails when the alias is not there. *)
Described(c) == Present /\ (c.op = "diff" /\ c.qualifier => routing[c.alias] # {})

WithoutMachine(c) ==
  CASE c.op = "delete" -> "error"
    [] c.op = "diff" /\ c.qualifier -> "describe latest"
    [] OTHER -> "ok"

DescribeStateMachine(p) ==
  /\ stage[p] = "describe"
  /\ IF Described(cmd[p])
     THEN /\ Enter(p, "rules", [own[p] EXCEPT !.deleting = status = "DELETING"])
          /\ EB!Start(p, RuleRequest(cmd[p], TRUE))
     ELSE Enter(p, WithoutMachine(cmd[p]), own[p]) /\ UNCHANGED bus
  /\ UNCHANGED <<machine, scheduler>>

(* Diff: there is none either, and its ARN is taken all the same. *)
DescribeLatest(p) ==
  /\ stage[p] = "describe latest"
  /\ Enter(p, IF Present THEN "ok" ELSE "crashed", Fresh)
  /\ UNCHANGED <<machine, bus, scheduler>>

-----------------------------------------------------------------------------
(* The triggers: a search for a delete stops where the state machine goes *)

Searched(l) == l = "DeleteStateMachine"

(* Mutant of ResumeSchedules: no rules, nothing left to do. *)
ResumeSchedulesUnlessNoRules(p) ==
  IF ebMem[p].remove = {} THEN Enter(p, "ok", Fresh) /\ SC!Crash(p)
  ELSE /\ SC!DeleteStateMachine(p)
       /\ Enter(p, IF SC!Running(p)' THEN "schedules" ELSE "ok", own[p])

(* Delete has deleted the rules: now the schedules it had found. *)
ResumeSchedules(p) ==
  /\ SC!DeleteStateMachine(p)
  /\ Enter(p, IF SC!Running(p)' THEN "schedules" ELSE "ok", own[p])

AfterRules(p, l) ==
  CASE l = "ok" /\ cmd[p].op = "deploy" ->
         Enter(p, "arn for schedules", own[p]) /\ UNCHANGED scheduler
    [] Searched(l) \/ (l = "ok" /\ cmd[p].op # "deploy" /\ ReadOnly(cmd[p])) ->
         /\ Enter(p, "schedules", own[p])
         /\ SC!Start(p, ScheduleRequest(cmd[p], TRUE))
    [] l = "ok" /\ TriggerOp(cmd[p]) = "delete" -> ResumeSchedules(p)
    [] l = "error" /\ SC!Running(p) -> Enter(p, l, Fresh) /\ SC!Crash(p)
    [] l = "error" /\ ~SC!Running(p) -> Enter(p, l, Fresh) /\ UNCHANGED scheduler
    [] OTHER -> Enter(p, "rules", own[p]) /\ UNCHANGED scheduler

RulesStep(p) ==
  /\ stage[p] = "rules"
  /\ EB!Work(p)
  /\ AfterRules(p, ebPc'[p])
  /\ UNCHANGED machine

AfterSchedules(p, l) ==
  CASE Searched(l) ->
         /\ Enter(p, IF cmd[p].force THEN l ELSE "confirm", own[p])
         /\ UNCHANGED bus
    [] l = "error" /\ EB!Running(p) -> Enter(p, l, Fresh) /\ EB!Crash(p)
    [] l \in {"ok", "error"} /\ ~EB!Running(p) -> Enter(p, l, Fresh) /\ UNCHANGED bus
    [] OTHER -> Enter(p, "schedules", own[p]) /\ UNCHANGED bus

SchedulesStep(p) ==
  /\ stage[p] = "schedules"
  /\ SC!Work(p)
  /\ AfterSchedules(p, scPc'[p])
  /\ UNCHANGED machine

-----------------------------------------------------------------------------
(* Delete: confirmation, the state machine, and what had been found *)

Confirm(p) ==
  /\ stage[p] = "confirm"
  /\ Enter(p, "DeleteStateMachine", own[p])
  /\ UNCHANGED <<machine, bus, scheduler>>

(* Another name is entered, or none. *)
Refuse(p) ==
  /\ stage[p] = "confirm"
  /\ Enter(p, "error", Fresh)
  /\ Abandon(p)

(* Then the rules, if there were any, then the schedules. *)
Resume(p) ==
  /\ EB!DeleteStateMachine(p)
  /\ IF EB!Running(p)'
     THEN Enter(p, "rules", own[p]) /\ UNCHANGED scheduler
     ELSE ResumeSchedules(p)

(* Nothing is asked of AWS for a state machine found DELETING; AWS takes   *)
(* the call for one that is DELETING by now, or gone.                      *)
DeleteStateMachine(p) ==
  /\ stage[p] = "DeleteStateMachine"
  /\ IF ~own[p].deleting /\ status = "ACTIVE"
     THEN SF!DeletionStarts ELSE UNCHANGED machine
  /\ Resume(p)

(* Mutant of DeleteAgain: the count of tries starts over. *)
DeleteForever(p) ==
  /\ stage[p] = "DeleteStateMachine"
  /\ "api" \in Faults /\ ~own[p].deleting
  /\ Enter(p, stage[p], [own[p] EXCEPT !.tries = (@ + 1) % MaxRetry])
  /\ UNCHANGED <<machine, bus, scheduler>>

(* Any API error but a conflict is retried. *)
DeleteAgain(p) ==
  /\ stage[p] = "DeleteStateMachine"
  /\ "api" \in Faults /\ ~own[p].deleting
  /\ own[p].tries + 1 < MaxRetry
  /\ Enter(p, stage[p], [own[p] EXCEPT !.tries = @ + 1])
  /\ UNCHANGED <<machine, bus, scheduler>>

(* Mutant of DeleteFails: giving up counts as success. *)
DeleteFailsSilently(p) ==
  /\ stage[p] = "DeleteStateMachine"
  /\ "api" \in Faults /\ ~own[p].deleting
  /\ UNCHANGED machine
  /\ Resume(p)

(* A conflict, an error that is not the API's, or the last try. *)
DeleteFails(p) ==
  /\ stage[p] = "DeleteStateMachine"
  /\ "api" \in Faults /\ ~own[p].deleting
  /\ Enter(p, "error", Fresh)
  /\ Abandon(p)

-----------------------------------------------------------------------------
(* Failures, and the end of the state machine *)

(* A call that App makes itself fails. *)
CallFails(p) ==
  /\ \/ stage[p] \in {"arn for rules", "arn for schedules"} /\ ~own[p].found
     \/ stage[p] \in {"describe", "describe latest"}
  /\ "api" \in Faults
  /\ Enter(p, "error", Fresh)
  /\ UNCHANGED <<machine, bus, scheduler>>

Crash(p) ==
  /\ "crash" \in Faults
  /\ Busy(p)
  /\ Enter(p, "crashed", Fresh)
  /\ Abandon(p)

(* Bound: not in the middle of a command on the state machine. *)
MachineGone ==
  /\ status = "DELETING" /\ ~gone
  /\ \A p \in Procs : ~SF!Running(p)
  /\ gone' = TRUE
  /\ UNCHANGED <<machine, bus, scheduler, stage, cmd, own, alone>>

-----------------------------------------------------------------------------

Step(p) ==
  \/ MachineStep(p) \/ GetArnForRules(p) \/ GetArnForSchedules(p)
  \/ DescribeStateMachine(p) \/ DescribeLatest(p) \/ RulesStep(p)
  \/ SchedulesStep(p) \/ DeleteStateMachine(p) \/ DeleteAgain(p)
  \/ DeleteFails(p) \/ CallFails(p)

Next ==
  \/ \E p \in Procs, c \in Commands : Start(p, c)
  \/ \E p \in Procs : Step(p)
  \/ \E p \in Procs : Confirm(p) \/ Refuse(p)
  \/ \E p \in Procs : Crash(p)
  \/ MachineGone

Spec == Init /\ [][Next]_vars

(* A process that runs goes on running; nobody has to answer its prompt.   *)
FairSpec == Spec /\ \A p \in Procs : WF_vars(Step(p))

=============================================================================
