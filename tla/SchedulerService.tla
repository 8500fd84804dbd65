-------------------------- MODULE SchedulerService --------------------------
(***************************************************************************)
(* The EventBridge Scheduler schedules that start a state machine, as      *)
(* `deploy` and `delete` maintain them (scheduler_service.go, schedule.go, *)
(* and their callers in deploy.go, delete.go and config.go).               *)
(*                                                                         *)
(* A process is one run of the command; one action is one call to AWS.     *)
(* Names, schedules and groups, once read, are cached for the life of the  *)
(* process.  A name is unique within its schedule group only.  ARNs are    *)
(* those of EventBridgeService.  Time is counted in hours of UTC.          *)
(***************************************************************************)
EXTENDS Integers, FiniteSets

CONSTANTS
  Procs,         \* command lines that may run at the same time
  Names,         \* names of schedules
  NGroups,       \* groups are 1..NGroups, in the order AWS lists them
  DefaultGroup,  \* the group of a call that names none
  ConfigGroup,   \* for each name, the group its configuration says
  Timing,        \* for each name, when its configured schedule ends (below)
  Aliases,       \* alias names (--alias)
  Requests,      \* the command lines a process may be started with
  MaxTime,       \* bound: the clock stops there
  Faults         \* "api": any call may fail; "crash": a process may be
                 \* killed; "operator": somebody works on the schedules by
                 \* other means while no command runs; "clash": and
                 \* uses a name in two groups

Groups == 1..NGroups
Nothing == "none"
Unknown == "[known after deploy]"
Arns == Aliases \cup {"bare", "foreign"}

RequestSet ==
  {q \in [op : {"deploy", "delete", "look"}, alias : Aliases \cup {Unknown},
          wanted : SUBSET Names, enabled : SUBSET Names, keepState : BOOLEAN] :
     /\ q.op = "delete" => q.wanted = {} /\ ~q.keepState
     /\ q.op # "deploy" => q.alias # Unknown}

ASSUME RequestsAssumption == Requests \subseteq RequestSet /\ Requests # {}
ASSUME GroupsAssumption ==
  /\ NGroups \in Nat \ {0} /\ DefaultGroup \in Groups
  /\ ConfigGroup \in [Names -> Groups]
(* A schedule that recurs may have an end date; one that fires once does   *)
(* so at an hour in a time zone, so many hours ahead of UTC.  0: has none. *)
(* readable: the program makes sense of the hour and knows the zone.       *)
ASSUME TimingAssumption ==
  /\ Timing \in [Names -> [end : Nat, at : Nat, zone : Int, readable : BOOLEAN]]
  /\ MaxTime \in Nat
ASSUME ArnsAssumption == Aliases \cap {Nothing, Unknown, "bare", "foreign"} = {}

VARIABLES
  target,  \* for each group and name, the schedule's target or Nothing
  on,      \* the pairs <<group, name>> that are enabled
  now,     \* the time
  pc, req, mem

store == <<target, on>>
vars == <<target, on, now, pc, req, mem>>

-----------------------------------------------------------------------------

Ended == {"new", "ok", "error", "crashed"}
Calls ==
  {"ListGroups", "ListSchedules", "GetSchedule", "DeleteStateMachine",
   "DeleteSchedule", "UpdateSchedule", "CreateSchedule"}

Memory ==
  [wanted : SUBSET Names,               \* configured and not passed
   group  : Groups,                     \* the group to look into
   listed : SUBSET Names,               \* names of related schedules
   name   : SUBSET Names,               \* the name being looked up
   found  : [Names -> 0..NGroups],      \* where a name was found, 0: not yet
   absent : SUBSET Names,               \* names found in no group
   on     : SUBSET Names,               \* names that were found enabled
   again  : BOOLEAN,                    \* a second search: a delete goes on
   remove : SUBSET Names,               \* plan: schedules to delete,
   change : SUBSET Names,               \*   to update
   add    : SUBSET Names]               \*   and to create

Fresh ==
  [wanted |-> {}, group |-> 1, listed |-> {}, name |-> {},
   found |-> [n \in Names |-> 0], absent |-> {}, on |-> {}, again |-> FALSE,
   remove |-> {}, change |-> {}, add |-> {}]

AnyRequest == CHOOSE q \in Requests : TRUE

Goto(p, l, m) ==
  /\ pc' = [pc EXCEPT ![p] = l]
  /\ mem' = [mem EXCEPT ![p] = IF l \in Ended THEN Fresh ELSE m]
  /\ req' = [req EXCEPT ![p] = IF l \in Ended THEN AnyRequest ELSE @]

Running(p) == pc[p] \in Calls
Exists(g, n) == target[g][n] # Nothing
Found(m) == {n \in Names : m.found[n] # 0}

Init ==
  /\ target = [g \in Groups |-> [n \in Names |-> Nothing]]
  /\ on = {} /\ now = 1
  /\ pc = [p \in Procs |-> "new"]
  /\ req = [p \in Procs |-> AnyRequest]
  /\ mem = [p \in Procs |-> Fresh]

(* Mutant of HasItPassed: the zone is applied the wrong way round.         *)
HasItPassedOtherWay(n) ==
  \/ Timing[n].end # 0 /\ now > Timing[n].end
  \/ Timing[n].at # 0 /\ Timing[n].readable /\ now > Timing[n].at + Timing[n].zone

(* The hour is taken for one of UTC: the zone shifts neither side. *)
HasItPassed(n) ==
  \/ Timing[n].end # 0 /\ now > Timing[n].end
  \/ Timing[n].at # 0 /\ Timing[n].readable /\ now > Timing[n].at

(* What has passed is left out, here and again by FilterPassed. *)
NewSchedules(q) == {n \in q.wanted : ~HasItPassed(n)}

Start(p, q) ==
  /\ pc[p] \in Ended
  /\ pc' = [pc EXCEPT ![p] = "ListGroups"]
  /\ req' = [req EXCEPT ![p] = q]
  /\ mem' = [mem EXCEPT ![p].wanted = NewSchedules(q)]
  /\ UNCHANGED <<store, now>>

-----------------------------------------------------------------------------
(* Plan: what the configuration lacks goes, the rest is put *)

(* sliceDiff, by name. *)
Diff(this, other) ==
  [remove |-> this \ other, change |-> this \cap other, add |-> other \ this]

NextWrite(p, m) ==
  Goto(p, CASE m.remove # {} -> "DeleteSchedule"
            [] m.remove = {} /\ m.change # {} -> "UpdateSchedule"
            [] m.remove \cup m.change = {} /\ m.add # {} -> "CreateSchedule"
            [] OTHER -> "ok", m)

Plan(p, m) ==
  LET diff == Diff(Found(m), m.wanted) IN
  NextWrite(p, [m EXCEPT !.remove = diff.remove,
                         !.change = diff.change, !.add = diff.add])

EndSearch(p, m) ==
  CASE req[p].op = "look" -> Goto(p, "ok", Fresh)
    [] req[p].op = "delete" /\ ~m.again -> Goto(p, "DeleteStateMachine", m)
    [] OTHER -> Plan(p, m)

(* Names still to be looked up. *)
Unseen(m) == (m.listed \cup m.wanted) \ (Found(m) \cup m.absent)

Lookup(p, m) ==
  IF Unseen(m) = {} THEN EndSearch(p, m) ELSE Goto(p, "GetSchedule", m)

-----------------------------------------------------------------------------
(* Search: related names in every group, then each name, in the first      *)
(* group that has it                                                       *)

ListGroups(p) ==
  /\ pc[p] = "ListGroups"
  /\ Goto(p, "ListSchedules", mem[p])
  /\ UNCHANGED <<store, now>>

(* Mutant of Related: the bare state machine is not looked for. *)
RelatedQualified(g, alias) == {n \in Names : target[g][n] = alias}

(* Mutant of Related: schedules of every alias are found. *)
RelatedToAny(g, alias) == {n \in Names : target[g][n] \in Aliases \cup {"bare"}}

Related(g, alias) ==
  {n \in Names : alias # Unknown /\ target[g][n] \in {alias, "bare"}}

ListSchedules(p) ==
  LET g == mem[p].group
      m == [mem[p] EXCEPT !.listed = @ \cup Related(g, req[p].alias)]
  IN /\ pc[p] = "ListSchedules"
     /\ IF g < NGroups
        THEN Goto(p, "ListSchedules", [m EXCEPT !.group = g + 1])
        ELSE Lookup(p, [m EXCEPT !.group = 1])
     /\ UNCHANGED <<store, now>>

GetSchedule(p) ==
  LET g == mem[p].group IN
  /\ pc[p] = "GetSchedule"
  /\ \E n \in IF mem[p].name = {} THEN Unseen(mem[p]) ELSE mem[p].name :
       \/ /\ Exists(g, n)
          /\ Lookup(p, [mem[p] EXCEPT
               !.name = {}, !.group = 1, !.found[n] = g,
               !.on = IF <<g, n>> \in on THEN @ \cup {n} ELSE @])
       \/ /\ ~Exists(g, n) /\ g < NGroups
          /\ Goto(p, "GetSchedule", [mem[p] EXCEPT !.name = {n}, !.group = g + 1])
       \/ /\ ~Exists(g, n) /\ g = NGroups
          /\ Lookup(p, [mem[p] EXCEPT
               !.name = {}, !.group = 1, !.absent = @ \cup {n}])
  /\ UNCHANGED <<store, now>>

(* delete.go: confirmation, then the state machine goes first.  The second *)
(* search asks AWS only for the names it has not found.                    *)
DeleteStateMachine(p) ==
  /\ pc[p] = "DeleteStateMachine"
  /\ IF Found(mem[p]) = {} THEN Goto(p, "ok", Fresh)
     ELSE Lookup(p, [mem[p] EXCEPT !.again = TRUE, !.absent = {}])
  /\ UNCHANGED <<store, now>>

-----------------------------------------------------------------------------
(* Writes *)

(* The request names no group. *)
DeleteSchedule(p) ==
  /\ pc[p] = "DeleteSchedule"
  /\ \E n \in mem[p].remove :
       /\ Exists(DefaultGroup, n)
       /\ target' = [target EXCEPT ![DefaultGroup][n] = Nothing]
       /\ on' = on \ {<<DefaultGroup, n>>}
       /\ NextWrite(p, [mem[p] EXCEPT !.remove = @ \ {n}])
  /\ UNCHANGED now

(* Mutant of WantsOn: the state is not synchronised. *)
WantsConfigured(p, n) == n \in req[p].enabled

(* SyncState: a schedule that the search found keeps the state it had. *)
WantsOn(p, n) ==
  IF req[p].keepState /\ mem[p].found[n] # 0
  THEN n \in mem[p].on ELSE n \in req[p].enabled

(* Mutant of Put: the state is switched before the schedule is there. *)
PutStateFirst(p, n) ==
  /\ on' = on \cup {<<ConfigGroup[n], n>>}
  /\ UNCHANGED <<target, now>>

Put(p, n) ==
  LET key == <<ConfigGroup[n], n>> IN
  /\ target' = [target EXCEPT ![ConfigGroup[n]][n] = req[p].alias]
  /\ on' = IF WantsOn(p, n) THEN on \cup {key} ELSE on \ {key}
  /\ UNCHANGED now

UpdateSchedule(p) ==
  /\ pc[p] = "UpdateSchedule"
  /\ req[p].alias # Unknown
  /\ \E n \in mem[p].change :
       /\ Exists(ConfigGroup[n], n)
       /\ Put(p, n)
       /\ NextWrite(p, [mem[p] EXCEPT !.change = @ \ {n}])

CreateSchedule(p) ==
  /\ pc[p] = "CreateSchedule"
  /\ req[p].alias # Unknown
  /\ \E n \in mem[p].add :
       /\ ~Exists(ConfigGroup[n], n)
       /\ Put(p, n)
       /\ NextWrite(p, [mem[p] EXCEPT !.add = @ \ {n}])

-----------------------------------------------------------------------------
(* Failures, time, and others at work on the same schedules *)

(* AWS refuses: the schedule is not there, or already there; or its target *)
(* is not the ARN of a resource.                                           *)
Refused(p) ==
  CASE pc[p] = "DeleteSchedule" -> \E n \in mem[p].remove : ~Exists(DefaultGroup, n)
    [] pc[p] = "UpdateSchedule" ->
         req[p].alias = Unknown \/ \E n \in mem[p].change : ~Exists(ConfigGroup[n], n)
    [] pc[p] = "CreateSchedule" ->
         req[p].alias = Unknown \/ \E n \in mem[p].add : Exists(ConfigGroup[n], n)
    [] OTHER -> FALSE

(* The first call that fails ends the command. *)
CallFails(p) ==
  /\ Running(p)
  /\ "api" \in Faults \/ Refused(p)
  /\ Goto(p, "error", Fresh)
  /\ UNCHANGED <<store, now>>

Crash(p) ==
  /\ "crash" \in Faults
  /\ Running(p)
  /\ Goto(p, "crashed", Fresh)
  /\ UNCHANGED <<store, now>>

TimePasses ==
  /\ now < MaxTime
  /\ now' = now + 1
  /\ UNCHANGED <<store, pc, req, mem>>

OperatorWorks == "operator" \in Faults /\ \A p \in Procs : ~Running(p)

OperatorCreates(g, n, arn) ==
  /\ OperatorWorks
  /\ \A h \in IF "clash" \in Faults THEN {g} ELSE Groups : ~Exists(h, n)
  /\ target' = [target EXCEPT ![g][n] = arn]
  /\ on' = on \cup {<<g, n>>}
  /\ UNCHANGED <<now, pc, req, mem>>

OperatorDeletes(g, n) ==
  /\ OperatorWorks
  /\ Exists(g, n)
  /\ target' = [target EXCEPT ![g][n] = Nothing]
  /\ on' = on \ {<<g, n>>}
  /\ UNCHANGED <<now, pc, req, mem>>

OperatorSwitches(g, n) ==
  /\ OperatorWorks
  /\ Exists(g, n)
  /\ on' = IF <<g, n>> \in on THEN on \ {<<g, n>>} ELSE on \cup {<<g, n>>}
  /\ UNCHANGED <<target, now, pc, req, mem>>

-----------------------------------------------------------------------------

Work(p) ==
  \/ ListGroups(p) \/ ListSchedules(p) \/ GetSchedule(p)
  \/ DeleteStateMachine(p) \/ DeleteSchedule(p) \/ UpdateSchedule(p)
  \/ CreateSchedule(p) \/ CallFails(p)

Operator ==
  \E g \in Groups, n \in Names :
    \/ \E arn \in Arns : OperatorCreates(g, n, arn)
    \/ OperatorDeletes(g, n)
    \/ OperatorSwitches(g, n)

Next ==
  \/ \E p \in Procs, q \in Requests : Start(p, q)
  \/ \E p \in Procs : Work(p)
  \/ \E p \in Procs : Crash(p)
  \/ TimePasses
  \/ Operator

Spec == Init /\ [][Next]_vars

=============================================================================
