------------------------------ MODULE AppProps ------------------------------
(***************************************************************************)
(* What the runs of App check and AppProofs proves.                        *)
(***************************************************************************)
EXTENDS App

(* Types; a service is at work only at the stages that wait for it.        *)
TypeOK ==
  /\ gone \in BOOLEAN
  /\ stage \in [Procs -> Ended \cup Stages]
  /\ cmd \in [Procs -> Commands]
  /\ own \in [Procs -> Memory]
  /\ alone \subseteq Procs
  /\ \A p \in Procs :
       /\ SF!Running(p) <=> stage[p] = "machine"
       /\ EB!Running(p) \/ SC!Running(p) =>
            stage[p] \in {"rules", "schedules", "confirm", "DeleteStateMachine"}

Released(a) == routing[a] # {}

(* What a service at work has been asked for is what the command line says *)
(* and never an ARN that App has not seen.                                 *)
Asked(p) ==
  /\ SF!Running(p) => OnMachine(cmd[p]) /\ sfOpt[p] = MachineOption(cmd[p])
  /\ own[p].found => status # "ABSENT"
  /\ EB!Running(p) => \E known \in BOOLEAN :
       ebReq[p] = RuleRequest(cmd[p], known) /\ (known => status # "ABSENT")
  /\ SC!Running(p) => \E known \in BOOLEAN :
       scReq[p] = ScheduleRequest(cmd[p], known) /\ (known => status # "ABSENT")

WithTriggers == {"arn for rules", "rules", "arn for schedules", "schedules"}

(* A deployment that has come past its alias has released it.              *)
Pointed(p) ==
  /\ cmd[p].op = "deploy" /\ sfPc[p] \in SF!Purging => Released(cmd[p].alias)
  /\ TriggerOp(cmd[p]) = "deploy" /\ stage[p] \in WithTriggers =>
       cmd[p].skipMachine \/ Released(cmd[p].alias)

(* Which command may be where; a search for a delete waits for the         *)
(* deletion elsewhere than in its service, and what it has found is        *)
(* deleted once the state machine is.                                      *)
Placed(p) ==
  /\ stage[p] \in {"arn for rules", "arn for schedules"} => cmd[p].op = "deploy"
  /\ stage[p] = "describe" => cmd[p].op \in {"delete", "status", "diff"}
  /\ stage[p] \in {"confirm", "DeleteStateMachine"} =>
       TriggerOp(cmd[p]) = "delete" /\ status # "ABSENT"
  /\ stage[p] = "rules" =>
       /\ ebPc[p] # "DeleteStateMachine"
       /\ SC!Running(p) => TriggerOp(cmd[p]) = "delete" /\ status = "DELETING"
  /\ stage[p] = "schedules" => scPc[p] # "DeleteStateMachine"
  /\ own[p].deleting \/ ebMem[p].again \/ scMem[p].again => status = "DELETING"

(* The inductive invariant behind the theorems.                            *)
IInv ==
  /\ TypeOK
  /\ SF!IInv /\ EB!IInv /\ SC!IInv
  /\ \A p \in Procs : Asked(p) /\ Pointed(p) /\ Placed(p)

(* A rule's target, or a schedule. *)
Triggers == ({"rule"} \X Rules \X Ids) \cup ({"schedule"} \X SC!Groups \X Names)

TargetOf(t) ==
  IF t[1] = "rule" THEN ruleTarget[t[2]][t[3]] ELSE target[t[2]][t[3]]

Kinds == {"rule", "schedule"}
Starts(kind, a) == {t \in Triggers : t[1] = kind /\ TargetOf(t) = a}
NothingStarts(a) == \A kind \in Kinds : Starts(kind, a) = {}
ConfiguredRules(c) == {<<"rule", r, OwnId>> : r \in c.rules}
ConfiguredSchedules(c) == {<<"schedule", ConfigGroup[n], n>> : n \in c.schedules}

(* Triggers that are deployed alone may not find the state machine: then   *)
(* AWS refuses the configured ones, and with none configured the           *)
(* deployment succeeds without a search (deploy.go:137-147).               *)
LooksFor(c, configured) == ~c.skipTrigger /\ (c.skipMachine => configured # {})

(* What a deployment has done at each stage while nobody works beside it.  *)
(* It has not found the state machine only when it has just created it,    *)
(* or deploys the triggers alone.                                          *)
DeployedSoFar(p) ==
  LET c == cmd[p]
      searched == stage[p] = "machine" /\ sfPc[p] # "DescribeStateMachine"
  IN /\ stage[p] \in WithTriggers /\ ~c.skipMachine => routing[c.alias] = {published}
     /\ stage[p] = "rules" /\ EB!Running(p) => ebReq[p] = RuleRequest(c, own[p].found)
     /\ stage[p] = "schedules" =>
          ~EB!Running(p) /\ (SC!Running(p) => scReq[p] = ScheduleRequest(c, own[p].found))
     /\ stage[p] \in {"arn for schedules", "schedules"} /\ LooksFor(c, c.rules) =>
          Starts("rule", c.alias) = ConfiguredRules(c)
     /\ searched \/ stage[p] \in WithTriggers =>
          c.skipMachine \/ own[p].found \/ NothingStarts(c.alias)

(* A delete comes to the schedules for good only after the rules.          *)
DeletedSoFar(p) ==
  stage[p] = "schedules" /\ ~EB!Running(p) =>
    status = "DELETING" /\ Starts("rule", cmd[p].alias) = {}

(* What the commands have done while one runs after the other; no rule is  *)
(* there that they did not put.                                            *)
DoneSoFar ==
  /\ exists \subseteq managed
  /\ \A r \in Rules, i \in Ids \ {OwnId} : ruleTarget[r][i] = EB!Nothing
  /\ status = "ABSENT" => \A a \in Aliases : NothingStarts(a)
  /\ \A p \in Procs :
       /\ TriggerOp(cmd[p]) = "deploy" => DeployedSoFar(p)
       /\ TriggerOp(cmd[p]) = "delete" => DeletedSoFar(p)
       /\ stage[p] = "describe latest" => cmd[p].op = "diff"

Skipped == {c.alias : c \in {d \in Commands : d.op = "deploy" /\ d.skipMachine}}

(* The refinement mapping. *)
Life ==
  CASE status = "ABSENT" -> "none" [] status = "ACTIVE" -> "serving" [] OTHER -> "leaving"
Releases == {a \in Aliases : Released(a)}
Wires == [t \in Triggers |-> IF TargetOf(t) \in Aliases THEN TargetOf(t) ELSE "none"]

Promise == INSTANCE Deployment WITH
  Loose <- Skipped, life <- Life, released <- Releases, wired <- Wires

(* Whatever fails and whoever runs beside, the commands keep the promise   *)
(* of Deployment: a trigger starts an alias only when there is a release   *)
(* behind it, unless its triggers are deployed with --skip-state-machine   *)
(* (deploy.go:82-98, 136-225; delete.go:23-83).                            *)
ImplementsDeployment == Promise!DeploymentSpec

Succeeds(p) == Busy(p) /\ stage'[p] = "ok"

(* The commands of kind op that end well in a step nobody disturbs. *)
Done(op) == {cmd[p] : p \in {q \in alone : Succeeds(q) /\ cmd[q].op = op /\ ~cmd[q].dryRun}}

(* A deployment that nobody disturbs and that succeeds has its alias on    *)
(* the newest release and all the rules and schedules it has looked for,   *)
(* and no others, starting the alias (deploy.go:82-98).                    *)
DeployCompletes ==
  [][\A c \in Done("deploy") :
       /\ ~c.skipMachine => routing'[c.alias] = {published'}
       /\ LooksFor(c, c.rules) =>
            Starts("rule", c.alias)' = ConfiguredRules(c)
       /\ LooksFor(c, c.schedules) =>
            Starts("schedule", c.alias)' = ConfiguredSchedules(c)]_vars

(* A delete that nobody disturbs and that succeeds leaves the state        *)
(* machine on its way out and no rule or schedule that starts its alias    *)
(* (delete.go:63-80).                                                      *)
DeleteCompletes ==
  [][\A c \in Done("delete") :
       status' = "DELETING" /\ NothingStarts(c.alias)']_vars

Wired == {t \in Triggers : TargetOf(t) \in Aliases}

(* While a command is to delete the state machine no trigger is taken away *)
(* unless the state machine is on its way out: a refusal, a failure or a   *)
(* crash before that leaves everything serving (delete.go:42-80;           *)
(* sfn_service.go:630-655).                                                *)
ServesUntilDeleted ==
  [][(\A p \in Procs : Busy(p) => cmd[p].op = "delete") =>
       Wired \subseteq Wired' \/ status = "DELETING"]_vars

(* `versions --delete` has no --dry-run. *)
OnlyLooks(c) == c.op \in {"status", "diff"} \/ (c.dryRun /\ c.op # "versions")

(* --dry-run, status and diff change nothing (deploy.go:115-119, 158-174,  *)
(* 202-219; delete.go:52-54; sfn_service.go:553-555).                      *)
ReadOnlyChangesNothing ==
  [][(\A p \in Procs : Busy(p) => OnlyLooks(cmd[p])) =>
       /\ UNCHANGED <<status, published, versions, routing>>
       /\ UNCHANGED <<exists, managed, ruleOn, ruleTarget, target, on>>]_vars

(* A command that is not waiting for its user ends (sfn_service.go:342-369,*)
(* 586-655).                                                               *)
CommandsEnd ==
  \A p \in Procs : (Busy(p) /\ stage[p] # "confirm") ~> (~Busy(p) \/ stage[p] = "confirm")

=============================================================================
