----------------------------- MODULE SFnService -----------------------------
(***************************************************************************)
(* Concurrent runs of the stefunny command line against one Step Functions *)
(* state machine: `deploy`, `rollback` and `versions --delete`             *)
(* (deploy.go, rollback.go, versions.go over sfn_service.go).              *)
(*                                                                         *)
(* A process is one run of the command.  One action is one call to AWS     *)
(* together with the local code up to the next call.  A process keeps the  *)
(* caches of its SFnServiceImpl for as long as it lives and no longer; the *)
(* caches are never invalidated.  Versions are their numbers; a routing is *)
(* the set of versions an alias sends traffic to, {} for no such alias.    *)
(***************************************************************************)
EXTENDS Integers, FiniteSets, FiniteSetsExt

CONSTANTS
  Procs,        \* command lines that may run at the same time
  Aliases,      \* alias names (--alias, "current" by default)
  NameContains, \* <<a, b>>: the name a contains the name b as a substring
  Options,      \* the command lines a process may be started with
  Faults,       \* what the environment may do besides answering (see below)
  MaxVersion,   \* bound: AWS refuses to publish beyond it (a quota)
  MaxRetry      \* retryPolicy.MaxCount

FaultKinds ==
  {"api",       \* any call may fail
   "list",      \* describing a listed version may fail
   "lag",       \* AWS may still see the alias this process just moved
   "crash",     \* a process may be killed between two calls
   "operator",  \* somebody shifts an alias's traffic by other means
   "deletion"}  \* somebody deletes the state machine

OptionSet ==
  [op : {"deploy", "rollback", "versions"}, alias : Aliases, keep : Nat,
   keepVersion : BOOLEAN, dryRun : BOOLEAN]

ASSUME OptionsAssumption == Options \subseteq OptionSet /\ Options # {}
ASSUME NamesAssumption ==
  /\ NameContains \subseteq Aliases \X Aliases
  /\ \A a \in Aliases : <<a, a>> \in NameContains
ASSUME BoundsAssumption == MaxVersion \in Nat \ {0} /\ MaxRetry \in Nat \ {0}
ASSUME FaultsAssumption == Faults \subseteq FaultKinds

VARIABLES
  status,     \* the state machine: ABSENT, ACTIVE or DELETING
  published,  \* the highest version number ever published
  versions,   \* the versions that exist
  routing,    \* for each alias the versions it routes to
  pc,         \* the AWS call a process makes next, or how it ended
  opt,        \* the options a process runs with
  mem         \* the working memory and caches of a process

cloud == <<status, published, versions, routing>>
vars == <<status, published, versions, routing, pc, opt, mem>>

-----------------------------------------------------------------------------
(* Processes *)

Version == 1..MaxVersion
Ended == {"new", "ok", "error", "crashed"}
Calls ==
  {"DescribeStateMachine", "CreateStateMachine", "UpdateStateMachine",
   "TagResource", "WaitActive", "DescribeAlias", "CreateAlias",
   "UpdateAlias", "DescribeCurrentAlias", "ListAliases", "DescribeAliases",
   "ListVersions", "DeleteVersion"}

Memory ==
  [seen     : [Aliases -> SUBSET Version], \* cached routings, {}: not cached
   pending  : SUBSET Aliases,              \* listed, still to be described
   target   : 0..MaxVersion,               \* version the alias is to point to
   todo     : SUBSET Version,              \* versions still to be deleted
   failed   : BOOLEAN,                     \* a deletion has failed
   attempts : 0..(MaxRetry - 1)]           \* failed tries of the current retry

Fresh ==
  [seen |-> [a \in Aliases |-> {}], pending |-> {}, target |-> 0,
   todo |-> {}, failed |-> FALSE, attempts |-> 0]

AnyOption == CHOOSE o \in Options : TRUE

(* p makes call l next; when l ends the process, its memory is gone. *)
Goto(p, l, m) ==
  /\ pc' = [pc EXCEPT ![p] = l]
  /\ mem' = [mem EXCEPT ![p] = IF l \in Ended THEN Fresh ELSE m]
  /\ opt' = [opt EXCEPT ![p] = IF l \in Ended THEN AnyOption ELSE @]

Running(p) == pc[p] \in Calls
MyAlias(p) == opt[p].alias
LastTryOffByOne(p) == mem[p].attempts = MaxRetry \* mutant of LastTry
LastTry(p) == mem[p].attempts + 1 = MaxRetry

(* The aliases that AWS names when it refuses to delete version v. *)
Referencing(v) == {a \in Aliases : v \in routing[a]}

Init ==
  /\ status = "ABSENT"
  /\ published = 0
  /\ versions = {}
  /\ routing = [a \in Aliases |-> {}]
  /\ pc = [p \in Procs |-> "new"]
  /\ opt = [p \in Procs |-> AnyOption]
  /\ mem = [p \in Procs |-> Fresh]

Start(p, o) ==
  /\ pc[p] \in Ended
  /\ pc' = [pc EXCEPT ![p] = "DescribeStateMachine"]
  /\ opt' = [opt EXCEPT ![p] = o]
  /\ UNCHANGED <<cloud, mem>>

(* What each command does once it knows the state machine's status. *)
FirstOfDeploy(o) ==
  CASE o.dryRun -> "ok"
    [] ~o.dryRun /\ status = "ABSENT" -> "CreateStateMachine"
    [] OTHER -> "UpdateStateMachine"

FirstOfRollback ==
  CASE status = "ABSENT" -> "error"
    [] status = "DELETING" -> "ok"
    [] OTHER -> "DescribeCurrentAlias"

FirstOfVersions(o) == IF status = "ABSENT" \/ o.keep = 0 THEN "ok" ELSE "ListAliases"

FirstCall(o) ==
  CASE o.op = "deploy" -> FirstOfDeploy(o)
    [] o.op = "rollback" -> FirstOfRollback
    [] o.op = "versions" -> FirstOfVersions(o)

DescribeStateMachine(p) ==
  /\ pc[p] = "DescribeStateMachine"
  /\ Goto(p, FirstCall(opt[p]), mem[p])
  /\ UNCHANGED cloud

-----------------------------------------------------------------------------
(* Deploy: publish, tag, wait, point the alias, purge *)

CreateStateMachine(p) ==
  /\ pc[p] = "CreateStateMachine"
  /\ status = "ABSENT"
  /\ status' = "ACTIVE"
  /\ published' = 1
  /\ versions' = {1}
  /\ Goto(p, "WaitActive", [mem[p] EXCEPT !.target = 1])
  /\ UNCHANGED routing

(* Publishing unchanged content answers with the newest version, if it is  *)
(* still there.                                                            *)
UpdateStateMachine(p) ==
  /\ pc[p] = "UpdateStateMachine"
  /\ status = "ACTIVE"
  /\ \E v \in (versions \cap {published}) \cup (Version \cap {published + 1}) :
       /\ published' = v
       /\ versions' = versions \cup {v}
       /\ Goto(p, "TagResource", [mem[p] EXCEPT !.target = v])
  /\ UNCHANGED <<status, routing>>

TagResource(p) ==
  /\ pc[p] = "TagResource"
  /\ Goto(p, "WaitActive", mem[p])
  /\ UNCHANGED cloud

WaitActive(p) ==
  /\ pc[p] = "WaitActive"
  /\ status = "ACTIVE"
  /\ Goto(p, "DescribeAlias", [mem[p] EXCEPT !.attempts = 0])
  /\ UNCHANGED cloud

(* Mutant of WaitAgain: giving up counts as success. *)
WaitAgainSwallows(p) ==
  /\ pc[p] = "WaitActive"
  /\ status # "ACTIVE" \/ "api" \in Faults
  /\ IF LastTry(p) THEN Goto(p, "ok", Fresh)
                   ELSE Goto(p, "WaitActive", [mem[p] EXCEPT !.attempts = @ + 1])
  /\ UNCHANGED cloud

WaitAgain(p) ==
  /\ pc[p] = "WaitActive"
  /\ status # "ACTIVE" \/ "api" \in Faults
  /\ IF LastTry(p) THEN Goto(p, "error", Fresh)
                   ELSE Goto(p, "WaitActive", [mem[p] EXCEPT !.attempts = @ + 1])
  /\ UNCHANGED cloud

(* An error that is not an API error: ErrorCode() of a nil interface. *)
WaitPanics(p) ==
  /\ pc[p] = "WaitActive"
  /\ "api" \in Faults
  /\ Goto(p, "crashed", Fresh)
  /\ UNCHANGED cloud

DescribeAlias(p) ==
  LET r == routing[MyAlias(p)] IN
  /\ pc[p] = "DescribeAlias"
  /\ Goto(p, IF r = {} THEN "CreateAlias" ELSE "UpdateAlias",
             [mem[p] EXCEPT !.seen[MyAlias(p)] = r])
  /\ UNCHANGED cloud

(* The version a rollback found its alias on: the cached routing. *)
Current(p) == Max(mem[p].seen[MyAlias(p)])

(* Rollback looks for other aliases on the version it goes back to. *)
TargetShared(p) == \E a \in Aliases : mem[p].target \in mem[p].seen[a]

(* Mutant of AfterRollback: the test of --keep-version is the wrong way    *)
(* round.                                                                  *)
AfterRollbackInverted(p) ==
  IF ~opt[p].keepVersion \/ TargetShared(p)
  THEN Goto(p, "ok", Fresh)
  ELSE Goto(p, "DeleteVersion", [mem[p] EXCEPT !.todo = {Current(p)}])

AfterRollback(p) ==
  IF opt[p].keepVersion \/ TargetShared(p)
  THEN Goto(p, "ok", Fresh)
  ELSE Goto(p, "DeleteVersion", [mem[p] EXCEPT !.todo = {Current(p)}])

AfterDeploy(p) == Goto(p, IF opt[p].keep = 0 THEN "ok" ELSE "ListAliases", mem[p])

(* AWS takes an alias only to a version that exists. *)
PointAlias(p) ==
  /\ status = "ACTIVE"
  /\ mem[p].target \in versions
  /\ routing' = [routing EXCEPT ![MyAlias(p)] = {mem[p].target}]
  /\ IF opt[p].op = "rollback" THEN AfterRollback(p) ELSE AfterDeploy(p)
  /\ UNCHANGED <<status, published, versions>>

CreateAlias(p) ==
  /\ pc[p] = "CreateAlias"
  /\ routing[MyAlias(p)] = {}
  /\ PointAlias(p)

UpdateAlias(p) ==
  /\ pc[p] = "UpdateAlias"
  /\ routing[MyAlias(p)] # {}
  /\ PointAlias(p)

-----------------------------------------------------------------------------
(* Rollback: find the alias's version, then the one before it *)

DescribeCurrentAlias(p) ==
  LET r == routing[MyAlias(p)] IN
  /\ pc[p] = "DescribeCurrentAlias"
  /\ Goto(p, CASE r = {} -> "error"
               [] Cardinality(r) > 1 \/ r = {1} -> "ok"
               [] OTHER -> "ListAliases",
             [mem[p] EXCEPT !.seen[MyAlias(p)] = r])
  /\ UNCHANGED cloud

ListAliases(p) ==
  LET uncached == {a \in Aliases : routing[a] # {} /\ mem[p].seen[a] = {}} IN
  /\ pc[p] = "ListAliases"
  /\ Goto(p, IF uncached = {} THEN "ListVersions" ELSE "DescribeAliases",
             [mem[p] EXCEPT !.pending = uncached])
  /\ UNCHANGED cloud

DescribeAliases(p) ==
  /\ pc[p] = "DescribeAliases"
  /\ \E a \in mem[p].pending :
       Goto(p, IF mem[p].pending = {a} THEN "ListVersions" ELSE "DescribeAliases",
               [mem[p] EXCEPT !.seen[a] = routing[a], !.pending = @ \ {a}])
  /\ UNCHANGED cloud

(* A version whose description fails is left out of the listing. *)
Listings == IF "list" \in Faults THEN SUBSET versions ELSE {versions}

(* Mutant of ChooseTarget: the listing is sorted the other way round. *)
ChooseTargetOldest(p, L) ==
  LET older == {v \in L : v < Current(p)} IN
  CASE older = {} -> Goto(p, "error", Fresh)
    [] older # {} /\ opt[p].dryRun -> Goto(p, "ok", Fresh)
    [] OTHER -> Goto(p, "UpdateAlias", [mem[p] EXCEPT !.target = Min(older)])

ChooseTarget(p, L) ==
  LET older == {v \in L : v < Current(p)} IN
  CASE older = {} -> Goto(p, "error", Fresh)
    [] older # {} /\ opt[p].dryRun -> Goto(p, "ok", Fresh)
    [] OTHER -> Goto(p, "UpdateAlias", [mem[p] EXCEPT !.target = Max(older)])

-----------------------------------------------------------------------------
(* Purge: delete all but the newest versions and those with an alias *)

(* Position of v in the listing, which is sorted newest first. *)
Position(v, L) == Cardinality({w \in L : w > v})

(* Mutant of Purgeable: one version too many. *)
PurgeableOffByOne(L, keep, seen) ==
  {v \in L : Position(v, L) >= keep - 1 /\ \A a \in Aliases : v \notin seen[a]}

Purgeable(L, keep, seen) ==
  {v \in L : /\ Position(v, L) > 0
             /\ Position(v, L) >= keep
             /\ \A a \in Aliases : v \notin seen[a]}

ChoosePurge(p, L) ==
  LET old == Purgeable(L, opt[p].keep, mem[p].seen) IN
  Goto(p, IF old = {} THEN "ok" ELSE "DeleteVersion", [mem[p] EXCEPT !.todo = old])

ListVersions(p) ==
  /\ pc[p] = "ListVersions"
  /\ \E L \in Listings :
       IF opt[p].op = "rollback" THEN ChooseTarget(p, L) ELSE ChoosePurge(p, L)
  /\ UNCHANGED cloud

(* Deletions go from the newest to the oldest. *)
Victim(p) == Max(mem[p].todo)

(* Mutant of NextVictim: a version that could not be deleted stays first. *)
NextVictimAgain(p, bad) ==
  LET left == IF bad THEN mem[p].todo ELSE mem[p].todo \ {Victim(p)}
      l == IF left # {} THEN "DeleteVersion" ELSE "ok"
  IN Goto(p, l, [mem[p] EXCEPT !.todo = left, !.failed = bad, !.attempts = 0])

(* Mutant of NextVictim: only the failure of the last deletion is reported. *)
NextVictimForgets(p, bad) ==
  LET left == mem[p].todo \ {Victim(p)}
      l == CASE left # {} -> "DeleteVersion"
             [] left = {} /\ bad -> "error"
             [] OTHER -> "ok"
  IN Goto(p, l, [mem[p] EXCEPT !.todo = left, !.failed = FALSE, !.attempts = 0])

NextVictim(p, bad) ==
  LET left == mem[p].todo \ {Victim(p)}
      l == CASE left # {} -> "DeleteVersion"
             [] left = {} /\ bad -> "error"
             [] OTHER -> "ok"
  IN Goto(p, l, [mem[p] EXCEPT !.todo = left, !.failed = bad, !.attempts = 0])

(* Mutant of DeleteVersion: references are not looked at. *)
DeleteVersionForced(p) ==
  /\ pc[p] = "DeleteVersion"
  /\ versions' = versions \ {Victim(p)}
  /\ NextVictim(p, mem[p].failed)
  /\ UNCHANGED <<status, published, routing>>

(* AWS deletes a version no alias refers to, and one that is gone already. *)
DeleteVersion(p) ==
  /\ pc[p] = "DeleteVersion"
  /\ Referencing(Victim(p)) = {}
  /\ versions' = versions \ {Victim(p)}
  /\ NextVictim(p, mem[p].failed)
  /\ UNCHANGED <<status, published, routing>>

(* The conflict names an alias whose name contains this process's own. *)
OwnConflict(p) ==
  \E a \in Referencing(Victim(p)) : <<a, MyAlias(p)>> \in NameContains

DeleteAgain(p) ==
  /\ pc[p] = "DeleteVersion"
  /\ OwnConflict(p) \/ "lag" \in Faults
  /\ IF LastTry(p) THEN NextVictim(p, TRUE)
                   ELSE Goto(p, "DeleteVersion", [mem[p] EXCEPT !.attempts = @ + 1])
  /\ UNCHANGED cloud

SkipReferenced(p) ==
  /\ pc[p] = "DeleteVersion"
  /\ Referencing(Victim(p)) # {}
  /\ ~OwnConflict(p)
  /\ NextVictim(p, mem[p].failed)
  /\ UNCHANGED cloud

DeleteFails(p) ==
  /\ pc[p] = "DeleteVersion"
  /\ "api" \in Faults
  /\ NextVictim(p, TRUE)
  /\ UNCHANGED cloud

-----------------------------------------------------------------------------
(* Failures *)

(* AWS refuses the call in the state it is in. *)
Refused(p) ==
  CASE pc[p] = "CreateStateMachine" -> status # "ABSENT"
    [] pc[p] = "UpdateStateMachine" ->
         status # "ACTIVE" \/ (published = MaxVersion /\ published \notin versions)
    [] pc[p] = "CreateAlias" ->
         \/ status # "ACTIVE"
         \/ mem[p].target \notin versions
         \/ routing[MyAlias(p)] # {}
    [] pc[p] = "UpdateAlias" ->
         \/ status # "ACTIVE"
         \/ mem[p].target \notin versions
    [] OTHER -> FALSE

(* Every call but a deletion ends the command when it fails. *)
CallFails(p) ==
  /\ pc[p] \in Calls \ {"DeleteVersion"}
  /\ "api" \in Faults \/ Refused(p)
  /\ Goto(p, "error", Fresh)
  /\ UNCHANGED cloud

Crash(p) ==
  /\ "crash" \in Faults
  /\ Running(p)
  /\ Goto(p, "crashed", Fresh)
  /\ UNCHANGED cloud

ShiftTraffic(a) ==
  /\ "operator" \in Faults
  /\ status = "ACTIVE"
  /\ routing[a] # {}
  /\ \E v, w \in versions :
       v <= w /\ {v, w} # routing[a] /\ routing' = [routing EXCEPT ![a] = {v, w}]
  /\ UNCHANGED <<status, published, versions, pc, opt, mem>>

DeletionStarts ==
  /\ "deletion" \in Faults
  /\ status = "ACTIVE"
  /\ status' = "DELETING"
  /\ UNCHANGED <<published, versions, routing, pc, opt, mem>>

-----------------------------------------------------------------------------

Work(p) ==
  \/ DescribeStateMachine(p) \/ CreateStateMachine(p) \/ UpdateStateMachine(p)
  \/ TagResource(p) \/ WaitActive(p) \/ WaitAgain(p) \/ WaitPanics(p)
  \/ DescribeAlias(p) \/ CreateAlias(p) \/ UpdateAlias(p)
  \/ DescribeCurrentAlias(p) \/ ListAliases(p) \/ DescribeAliases(p)
  \/ ListVersions(p) \/ DeleteVersion(p) \/ DeleteAgain(p)
  \/ SkipReferenced(p) \/ DeleteFails(p) \/ CallFails(p)

Next ==
  \/ \E p \in Procs, o \in Options : Start(p, o)
  \/ \E p \in Procs : Work(p)
  \/ \E p \in Procs : Crash(p)
  \/ \E a \in Aliases : ShiftTraffic(a)
  \/ DeletionStarts

Spec == Init /\ [][Next]_vars

(* A process that runs goes on running; nobody has to start one. *)
FairSpec == Spec /\ \A p \in Procs : WF_vars(Work(p))

=============================================================================
