------------------------- MODULE EventBridgeService -------------------------
(***************************************************************************)
(* The EventBridge rules that start a state machine, as `deploy` and       *)
(* `delete` maintain them (eventbridge_service.go, eventbridge_rules.go,   *)
(* and their callers in deploy.go and delete.go).                          *)
(*                                                                         *)
(* A process is one run of the command; one action is one call to AWS.     *)
(* What a search has read of a rule is cached for the life of the process, *)
(* the list of related rules is not.  An ARN is an alias of this state     *)
(* machine, "bare" (the state machine itself) or "foreign" (anything else).*)
(* A deployment that skips the state machine and finds none asks for       *)
(* targets with the alias of "[known after deploy]".                       *)
(***************************************************************************)
EXTENDS FiniteSets

CONSTANTS
  Procs,     \* command lines that may run at the same time
  Rules,     \* names of rules on the default event bus
  Ids,       \* target ids
  OwnId,     \* the id a configured rule gives its state machine target
  Aliases,   \* alias names (--alias)
  Requests,  \* the command lines a process may be started with
  Faults     \* "api": any call may fail; "crash": a process may be killed;
             \* "operator": somebody works on the rules by other means
             \* while no command runs

Nothing == "none"
Unknown == "[known after deploy]"
Arns == Aliases \cup {"bare", "foreign"}

(* A deployment asks for the rules of its configuration; enabled are those *)
(* the configuration wants enabled; without --trigger-enabled and          *)
(* --trigger-disabled a rule that exists keeps its state.  diff, status    *)
(* and a dry run only look.                                                *)
RequestSet ==
  {q \in [op : {"deploy", "delete", "look"}, alias : Aliases \cup {Unknown},
          wanted : SUBSET Rules, enabled : SUBSET Rules, keepState : BOOLEAN] :
     /\ q.op = "delete" => q.wanted = {} /\ ~q.keepState
     /\ q.op # "deploy" => q.alias # Unknown}

ASSUME RequestsAssumption == Requests \subseteq RequestSet /\ Requests # {}
ASSUME OwnIdAssumption == OwnId \in Ids
ASSUME ArnsAssumption == Aliases \cap {Nothing, Unknown, "bare", "foreign"} = {}

VARIABLES
  exists,   \* the rules that exist
  managed,  \* the rules tagged ManagedBy: stefunny
  on,       \* the rules that are enabled
  target,   \* for each rule and target id, the ARN or Nothing
  pc, req, mem

bus == <<exists, managed, on, target>>
vars == <<exists, managed, on, target, pc, req, mem>>

-----------------------------------------------------------------------------

Ended == {"new", "ok", "error", "crashed"}
Calls ==
  {"ListByAlias", "ListByArn", "DescribeRule", "ListTargets", "ListTags",
   "DeleteStateMachine", "RemoveTargets", "DeleteRule", "PutRule",
   "PutTargets", "TagResource"}

Memory ==
  [listed  : SUBSET Rules,          \* names the search in progress has found
   known   : SUBSET Rules,          \* rules described and cached, with
   on      : SUBSET Rules,          \*   their state,
   managed : SUBSET Rules,          \*   their tag
   ids     : [Rules -> SUBSET Ids], \*   the targets that were noticed
   aimed   : SUBSET Rules,          \*   (one of them the state machine's)
   again   : BOOLEAN,               \* a second search: a delete goes on
   remove  : SUBSET Rules,          \* plan: rules to delete,
   change  : SUBSET Rules,          \*   to update
   add     : SUBSET Rules,          \*   and to create
   cur     : SUBSET Rules]          \* the rule between two of its calls

Fresh ==
  [listed |-> {}, known |-> {}, on |-> {}, managed |-> {},
   ids |-> [r \in Rules |-> {}], aimed |-> {}, again |-> FALSE, remove |-> {},
   change |-> {}, add |-> {}, cur |-> {}]

AnyRequest == CHOOSE q \in Requests : TRUE

Goto(p, l, m) ==
  /\ pc' = [pc EXCEPT ![p] = l]
  /\ mem' = [mem EXCEPT ![p] = IF l \in Ended THEN Fresh ELSE m]
  /\ req' = [req EXCEPT ![p] = IF l \in Ended THEN AnyRequest ELSE @]

Running(p) == pc[p] \in Calls
Targets(r) == {i \in Ids : target[r][i] # Nothing}
Pointing(arn) == {r \in Rules : \E i \in Ids : target[r][i] = arn}

Init ==
  /\ exists = {} /\ managed = {} /\ on = {}
  /\ target = [r \in Rules |-> [i \in Ids |-> Nothing]]
  /\ pc = [p \in Procs |-> "new"]
  /\ req = [p \in Procs |-> AnyRequest]
  /\ mem = [p \in Procs |-> Fresh]

Start(p, q) ==
  /\ pc[p] \in Ended
  /\ pc' = [pc EXCEPT ![p] = "ListByAlias"]
  /\ req' = [req EXCEPT ![p] = q]
  /\ UNCHANGED <<bus, mem>>

-----------------------------------------------------------------------------
(* Plan: what the configuration lacks goes, the rest is put *)

(* sliceDiff, by name. *)
Diff(this, other) ==
  [remove |-> this \ other, change |-> this \cap other, add |-> other \ this]

NextWrite(p, m) ==
  Goto(p, CASE m.remove # {} -> "RemoveTargets"
            [] m.remove = {} /\ m.change \cup m.add # {} -> "PutRule"
            [] OTHER -> "ok", m)

(* Mutant of Plan: the tag is not looked at. *)
PlanUntagged(p, m) ==
  LET diff == Diff(m.listed, req[p].wanted) IN
  NextWrite(p, [m EXCEPT !.remove = diff.remove,
                         !.change = diff.change, !.add = diff.add])

IsManagedBy(r, m) == r \in m.managed

(* A rule that stefunny does not manage is not deleted. *)
Plan(p, m) ==
  LET diff == Diff(m.listed, req[p].wanted) IN
  NextWrite(p, [m EXCEPT !.remove = {r \in diff.remove : IsManagedBy(r, m)},
                         !.change = diff.change, !.add = diff.add])

(* All rules listed are described: a deployment plans, a delete looks at   *)
(* the rules once before and once after it deletes the state machine.      *)
EndSearch(p, m) ==
  CASE req[p].op = "look" -> Goto(p, "ok", Fresh)
    [] req[p].op = "delete" /\ ~m.again -> Goto(p, "DeleteStateMachine", m)
    [] OTHER -> Plan(p, m)

Describe(p, m) ==
  IF m.listed \subseteq m.known THEN EndSearch(p, m) ELSE Goto(p, "DescribeRule", m)

-----------------------------------------------------------------------------
(* Search: rules of the alias, of the state machine itself, and by name *)

(* Mutant of ListByAlias: rules of every alias are found. *)
ListByAnyAlias(p) ==
  /\ pc[p] = "ListByAlias"
  /\ Goto(p, "ListByArn",
          [mem[p] EXCEPT !.listed = UNION {Pointing(a) : a \in Aliases}])
  /\ UNCHANGED bus

ListByAlias(p) ==
  /\ pc[p] = "ListByAlias"
  /\ Goto(p, "ListByArn", [mem[p] EXCEPT !.listed = Pointing(req[p].alias)])
  /\ UNCHANGED bus

(* Mutant of ListByArn: rules of the bare state machine are not looked for. *)
ListByNameOnly(p) ==
  /\ pc[p] = "ListByArn"
  /\ Describe(p, [mem[p] EXCEPT !.listed = @ \cup req[p].wanted])
  /\ UNCHANGED bus

ListByArn(p) ==
  LET bare == IF req[p].alias = Unknown THEN {} ELSE Pointing("bare") IN
  /\ pc[p] = "ListByArn"
  /\ Describe(p, [mem[p] EXCEPT !.listed = @ \cup bare \cup req[p].wanted])
  /\ UNCHANGED bus

DescribeRule(p) ==
  /\ pc[p] = "DescribeRule"
  /\ \E r \in mem[p].listed \ mem[p].known :
       IF r \in exists
       THEN Goto(p, "ListTargets",
                 [mem[p] EXCEPT !.cur = {r}, !.on = @ \cup (on \cap {r})])
       ELSE Describe(p, [mem[p] EXCEPT !.listed = @ \ {r}])
  /\ UNCHANGED bus

(* describeRule stops at the first target with the alias's ARN: it notices *)
(* that one and those listed before it.  AWS promises no order.            *)
Noticed(r, arn) ==
  LET exact == {i \in Ids : target[r][i] = arn} IN
  IF exact = {} THEN {Targets(r)}
  ELSE {S \in SUBSET Targets(r) : Cardinality(S \cap exact) = 1}

ListTargets(p) ==
  /\ pc[p] = "ListTargets"
  /\ \E r \in mem[p].cur \cap exists : \E S \in Noticed(r, req[p].alias) :
       LET mine == IF req[p].alias = Unknown THEN {} ELSE Aliases \cup {"bare"}
           aimed == \E i \in S : target[r][i] \in mine IN
       Goto(p, "ListTags",
            [mem[p] EXCEPT !.ids[r] = S,
                           !.aimed = IF aimed THEN @ \cup {r} ELSE @])
  /\ UNCHANGED bus

ListTags(p) ==
  /\ pc[p] = "ListTags"
  /\ mem[p].cur \subseteq exists
  /\ Describe(p, [mem[p] EXCEPT !.known = @ \cup mem[p].cur, !.cur = {},
                                !.managed = @ \cup (managed \cap mem[p].cur)])
  /\ UNCHANGED bus

(* delete.go: confirmation, then the state machine goes first. *)
DeleteStateMachine(p) ==
  /\ pc[p] = "DeleteStateMachine"
  /\ IF mem[p].listed = {} THEN Goto(p, "ok", Fresh)
     ELSE Goto(p, "ListByAlias", [mem[p] EXCEPT !.again = TRUE])
  /\ UNCHANGED bus

-----------------------------------------------------------------------------
(* Deleting a rule: first the targets that were noticed, then the rule *)

RemoveTargets(p) ==
  /\ pc[p] = "RemoveTargets"
  /\ \E r \in mem[p].remove :
       /\ r \in exists \cap mem[p].aimed
       /\ target' = [target EXCEPT ![r] =
            [i \in Ids |-> IF i \in mem[p].ids[r] THEN Nothing ELSE @[i]]]
       /\ Goto(p, "DeleteRule", [mem[p] EXCEPT !.cur = {r}])
  /\ UNCHANGED <<exists, managed, on>>

(* Mutant of DeleteRule: the rule goes whether or not targets are left. *)
DeleteRuleForced(p) ==
  /\ pc[p] = "DeleteRule"
  /\ exists' = exists \ mem[p].cur
  /\ managed' = managed \ mem[p].cur
  /\ on' = on \ mem[p].cur
  /\ NextWrite(p, [mem[p] EXCEPT !.remove = @ \ mem[p].cur, !.cur = {}])
  /\ UNCHANGED target

(* AWS deletes a rule without targets, and one that is gone already. *)
DeleteRule(p) ==
  /\ pc[p] = "DeleteRule"
  /\ \A r \in mem[p].cur : Targets(r) = {}
  /\ exists' = exists \ mem[p].cur
  /\ managed' = managed \ mem[p].cur
  /\ on' = on \ mem[p].cur
  /\ NextWrite(p, [mem[p] EXCEPT !.remove = @ \ mem[p].cur, !.cur = {}])
  /\ UNCHANGED target

-----------------------------------------------------------------------------
(* Putting a rule: the rule, its target, its tag *)

(* Mutant of WantsOn: the state is not synchronised. *)
WantsConfigured(p, r) == r \in req[p].enabled

(* SyncState: a rule that the search found keeps the state it had then. *)
WantsOn(p, r) ==
  IF req[p].keepState /\ r \in mem[p].listed
  THEN r \in mem[p].on ELSE r \in req[p].enabled

(* AWS takes the tags of a new rule only. *)
PutRule(p) ==
  /\ pc[p] = "PutRule"
  /\ \E r \in IF mem[p].change # {} THEN mem[p].change ELSE mem[p].add :
       /\ exists' = exists \cup {r}
       /\ managed' = IF r \in exists THEN managed ELSE managed \cup {r}
       /\ on' = IF WantsOn(p, r) THEN on \cup {r} ELSE on \ {r}
       /\ Goto(p, "PutTargets", [mem[p] EXCEPT !.cur = {r}])
  /\ UNCHANGED target

(* AWS takes a target only with the ARN of a resource. *)
PutTargets(p) ==
  /\ pc[p] = "PutTargets"
  /\ req[p].alias # Unknown
  /\ mem[p].cur \subseteq exists
  /\ \E r \in mem[p].cur : target' = [target EXCEPT ![r][OwnId] = req[p].alias]
  /\ Goto(p, "TagResource", mem[p])
  /\ UNCHANGED <<exists, managed, on>>

TagResource(p) ==
  /\ pc[p] = "TagResource"
  /\ mem[p].cur \subseteq exists
  /\ managed' = managed \cup mem[p].cur
  /\ NextWrite(p, [mem[p] EXCEPT !.change = @ \ mem[p].cur,
                                 !.add = @ \ mem[p].cur, !.cur = {}])
  /\ UNCHANGED <<exists, on, target>>

-----------------------------------------------------------------------------
(* Failures, and others at work on the same rules *)

(* AWS refuses: the rule is gone, it still has targets, or the id of the   *)
(* target to remove is empty, none being the state machine's.              *)
Refused(p) ==
  CASE pc[p] = "RemoveTargets" -> mem[p].remove \ (exists \cap mem[p].aimed) # {}
    [] pc[p] = "DeleteRule" -> \E r \in mem[p].cur : Targets(r) # {}
    [] pc[p] \in {"ListTargets", "ListTags", "TagResource"} ->
         mem[p].cur \ exists # {}
    [] pc[p] = "PutTargets" -> mem[p].cur \ exists # {} \/ req[p].alias = Unknown
    [] OTHER -> FALSE

(* The first call that fails ends the command. *)
CallFails(p) ==
  /\ Running(p)
  /\ "api" \in Faults \/ Refused(p)
  /\ Goto(p, "error", Fresh)
  /\ UNCHANGED bus

Crash(p) ==
  /\ "crash" \in Faults
  /\ Running(p)
  /\ Goto(p, "crashed", Fresh)
  /\ UNCHANGED bus

OperatorWorks == "operator" \in Faults /\ \A p \in Procs : ~Running(p)

OperatorCreates(r, i, arn) ==
  /\ OperatorWorks
  /\ r \notin exists
  /\ exists' = exists \cup {r}
  /\ on' = on \cup {r}
  /\ target' = [target EXCEPT ![r][i] = arn]
  /\ UNCHANGED <<managed, pc, req, mem>>

OperatorAddsTarget(r, i) ==
  /\ OperatorWorks
  /\ r \in exists
  /\ target[r][i] = Nothing
  /\ target' = [target EXCEPT ![r][i] = "foreign"]
  /\ UNCHANGED <<exists, managed, on, pc, req, mem>>

OperatorSwitches(r) ==
  /\ OperatorWorks
  /\ r \in exists
  /\ on' = IF r \in on THEN on \ {r} ELSE on \cup {r}
  /\ UNCHANGED <<exists, managed, target, pc, req, mem>>

-----------------------------------------------------------------------------

Work(p) ==
  \/ ListByAlias(p) \/ ListByArn(p) \/ DescribeRule(p) \/ ListTargets(p)
  \/ ListTags(p) \/ DeleteStateMachine(p) \/ RemoveTargets(p) \/ DeleteRule(p)
  \/ PutRule(p) \/ PutTargets(p) \/ TagResource(p) \/ CallFails(p)

Operator ==
  \/ \E r \in Rules, i \in Ids, arn \in Arns : OperatorCreates(r, i, arn)
  \/ \E r \in Rules, i \in Ids : OperatorAddsTarget(r, i)
  \/ \E r \in Rules : OperatorSwitches(r)

Next ==
  \/ \E p \in Procs, q \in Requests : Start(p, q)
  \/ \E p \in Procs : Work(p)
  \/ \E p \in Procs : Crash(p)
  \/ Operator

Spec == Init /\ [][Next]_vars

=============================================================================
