-------------------------- MODULE EventBridgeProps --------------------------
(***************************************************************************)
(* What the runs of EventBridgeService check and EventBridgeProofs proves. *)
(***************************************************************************)
EXTENDS EventBridgeService

(* Types; and only a rule that exists has a tag, a state or a target.      *)
BusOK ==
  /\ exists \subseteq Rules /\ managed \subseteq exists /\ on \subseteq exists
  /\ target \in [Rules -> [Ids -> Arns \cup {Nothing}]]
  /\ \A r \in Rules \ exists : Targets(r) = {}

ProcsOK ==
  /\ pc \in [Procs -> Ended \cup Calls]
  /\ req \in [Procs -> Requests]
  /\ mem \in [Procs -> Memory]

TypeOK == BusOK /\ ProcsOK

(* What a process remembers of the rules, however old: those it has seen   *)
(* tagged still are, or are gone.                                          *)
Remembers(m) == m.managed \cap exists \subseteq managed

Writes == {"RemoveTargets", "DeleteRule", "PutRule", "PutTargets", "TagResource"}

(* A deployment writes, and a delete once it has deleted the state machine. *)
MayWrite(q, m) == q.op # "look" /\ (q.op = "delete" => m.again)

(* A process deletes only rules it has seen tagged and puts only those of  *)
(* the configuration; between two of its calls it is at one rule.          *)
Phase(l, q, m) ==
  /\ l \in Ended => m = Fresh
  /\ l \in Writes => MayWrite(q, m)
  /\ l = "DeleteStateMachine" => q.op = "delete"
  /\ m.remove \subseteq m.managed
  /\ m.change \cup m.add \subseteq q.wanted
  /\ l = "DeleteRule" => m.cur \subseteq m.remove
  /\ l \in {"PutTargets", "TagResource"} => \E r \in q.wanted : m.cur = {r}

(* The inductive invariant behind the theorems.                            *)
IInv ==
  /\ TypeOK
  /\ \A p \in Procs : Phase(pc[p], req[p], mem[p]) /\ Remembers(mem[p])

Related(r, alias) == \E i \in Ids : target[r][i] \in {alias, "bare"}

(* What a search looks for. *)
Sought(q) == {r \in Rules : Related(r, q.alias) /\ q.alias # Unknown} \cup q.wanted

(* What a command knows at call l while nobody works beside it: what it    *)
(* has cached is so, it has found the rules it looks for, and its plan is  *)
(* what the rules lack of the configuration.                               *)
Cached(m) ==
  /\ m.known \subseteq exists
  /\ m.managed = managed \cap m.known
  /\ m.on = on \cap (m.known \cup m.cur)

Found(q, m) == m.listed \subseteq Sought(q) /\ Sought(q) \cap exists \subseteq m.listed

Lacks(q, m) ==
  /\ m.remove \cap q.wanted = {}
  /\ \A r \in m.remove \ m.cur : Related(r, q.alias)
  /\ \A r \in q.wanted \ (m.change \cup m.add) :
       r \in exists \cap managed /\ target[r][OwnId] = q.alias
  /\ q.alias # Unknown =>
       \A r \in managed \ (q.wanted \cup m.remove) : ~Related(r, q.alias)
  /\ \A r \in (exists \cap (m.change \cup m.add)) \ m.cur :
       r \in m.listed /\ (r \in m.on <=> r \in on)

Informed(l, q, m) ==
  /\ l \in Calls \ Writes => Cached(m)
  /\ l \in Writes => Lacks(q, m)
  /\ l \notin {"ListTargets", "ListTags", "DeleteRule", "PutTargets", "TagResource"} =>
       m.cur = {}
  /\ l = "ListByArn" => m.listed = Pointing(q.alias)
  /\ l \in {"DescribeRule", "ListTargets", "ListTags", "DeleteStateMachine"} =>
       Found(q, m)
  /\ l = "DeleteStateMachine" => m.listed \subseteq m.known
  /\ l = "TagResource" => \A r \in m.cur : target[r][OwnId] = q.alias

Ends(p, l) == Running(p) /\ pc'[p] = l

(* A rule without the tag ManagedBy: stefunny is not deleted and loses no  *)
(* target, whoever runs beside; only a deployment that has a rule of its   *)
(* name redirects the target it calls its own (eventbridge_service.go:     *)
(* 288-316, 247-286).                                                      *)
HandMadeRulesKept ==
  [][\A r \in exists \ managed :
       /\ r \in exists'
       /\ \A i \in Targets(r) : target'[r][i] # target[r][i] =>
            i = OwnId /\ \E p \in Procs : r \in req[p].wanted /\ mem[p].cur = {r}]_vars

(* When deploy or delete succeeds the rules are those of the               *)
(* configuration: all of them exist, are tagged and start the alias, and   *)
(* no other rule that stefunny manages starts the alias or the state       *)
(* machine itself (eventbridge_service.go:211-245; delete.go:69-74).       *)
(* Without a state machine no rule is deployed (deploy.go:143-150).        *)
RulesAsConfigured ==
  [][\A p \in Procs : Ends(p, "ok") /\ req[p].op # "look" =>
       /\ req[p].wanted \subseteq exists' \cap managed'
       /\ \A r \in req[p].wanted : target'[r][OwnId] = req[p].alias
       /\ req[p].alias # Unknown =>
            \A r \in managed' \ req[p].wanted, i \in Ids :
              target'[r][i] \notin {req[p].alias, "bare"}]_vars

(* Without --trigger-enabled and --trigger-disabled no rule is switched    *)
(* (eventbridge_service.go:219-221; eventbridge_rules.go:158-171).         *)
StateKept ==
  [][\A p \in Procs : Running(p) /\ req[p].keepState =>
       on' \cap exists \cap exists' = on \cap exists \cap exists']_vars

(* The targets a command takes away belong to a rule that starts its own   *)
(* alias or the state machine itself; a rule of another alias alone is     *)
(* left to the command of that alias (eventbridge_service.go:62-76).       *)
OtherAliasesKept ==
  [][\A p \in Procs, r \in Rules :
       Running(p) /\ Targets(r)' # Targets(r) /\ r \notin req[p].wanted =>
         Related(r, req[p].alias)]_vars

-----------------------------------------------------------------------------

(* `delete`: "Delete state machine and schedule rules" (README.md:121):    *)
(* AWS never refuses to delete a rule because of a target left behind.     *)
NoTargetLeftBehind ==
  [][\A p \in Procs : pc[p] = "DeleteRule" => pc'[p] # "error"]_vars

=============================================================================
