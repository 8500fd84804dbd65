--------------------------- MODULE SchedulerProps ---------------------------
(***************************************************************************)
(* What the runs of SchedulerService check and SchedulerProofs proves.     *)
(***************************************************************************)
EXTENDS SchedulerService

(* Types; and only a schedule that exists has a state.                     *)
StoreOK ==
  /\ target \in [Groups -> [Names -> Arns \cup {Nothing}]]
  /\ on \subseteq Groups \X Names /\ \A k \in on : Exists(k[1], k[2])
  /\ now \in Nat

ProcsOK ==
  /\ pc \in [Procs -> Ended \cup Calls]
  /\ req \in [Procs -> Requests]
  /\ mem \in [Procs -> Memory]

TypeOK == StoreOK /\ ProcsOK

Writes == {"DeleteSchedule", "UpdateSchedule", "CreateSchedule"}

(* A deployment writes, and a delete once it has deleted the state machine. *)
MayWrite(q, m) == q.op # "look" /\ (q.op = "delete" => m.again)

(* A process that runs has left out of the configuration only what has     *)
(* passed, and plans to delete nothing it has not left out.                *)
Planned(l, q, m) ==
  /\ l \in Ended => m = Fresh
  /\ l \in Writes => MayWrite(q, m)
  /\ l = "DeleteStateMachine" => q.op = "delete"
  /\ l \in Calls =>
       /\ m.wanted \subseteq q.wanted
       /\ \A n \in q.wanted \ m.wanted : HasItPassed(n)
       /\ m.remove \cap m.wanted = {}
       /\ m.change \cup m.add \subseteq m.wanted

(* The inductive invariant behind the theorems.                            *)
IInv == TypeOK /\ \A p \in Procs : Planned(pc[p], req[p], mem[p])

(* A name is used in one group only. *)
Unique ==
  \A g, h \in Groups, n \in Names : Exists(g, n) /\ Exists(h, n) => g = h

RelatedNames(alias) == UNION {Related(g, alias) : g \in Groups}

(* What a command knows at call l while nobody works beside it: what it    *)
(* has cached is so, it has listed what it looks for, and its plan is what *)
(* the schedules lack of the configuration.                                *)
Cached(m) ==
  /\ m.on \subseteq Found(m)
  /\ \A n \in Found(m) :
       Exists(m.found[n], n) /\ (n \in m.on <=> <<m.found[n], n>> \in on)
  /\ \A n \in m.absent, g \in Groups : ~Exists(g, n)

Listed(q, m) ==
  m.listed = RelatedNames(q.alias) /\ Found(m) \subseteq m.listed \cup m.wanted

LookedFor(m) ==
  \A n \in m.name, g \in Groups : n \in Unseen(m) /\ (g < m.group => ~Exists(g, n))

Lacks(q, m) ==
  /\ m.remove \cap m.wanted = {} /\ m.remove \subseteq RelatedNames(q.alias)
  /\ \A n \in m.wanted \ (m.change \cup m.add) : target[ConfigGroup[n]][n] = q.alias
  /\ RelatedNames(q.alias) \subseteq m.wanted \cup m.remove
  /\ \A n \in m.change :
       /\ m.found[n] # 0 /\ Exists(m.found[n], n)
       /\ n \in m.on <=> <<m.found[n], n>> \in on
  /\ \A n \in m.add, g \in Groups : ~Exists(g, n)

Informed(l, q, m) ==
  /\ l \in Calls \ Writes => Cached(m)
  /\ l \in Writes => Lacks(q, m)
  /\ l \in {"ListGroups", "ListSchedules"} => Found(m) = {} /\ m.absent = {} /\ m.name = {}
  /\ l = "ListGroups" => m.group = 1 /\ m.listed = {}
  /\ l = "ListSchedules" =>
       m.listed = UNION {Related(g, q.alias) : g \in 1..(m.group - 1)}
  /\ l \in {"GetSchedule", "DeleteStateMachine"} => Listed(q, m)
  /\ l = "GetSchedule" => LookedFor(m) /\ (m.name = {} => m.group = 1)
  /\ l = "DeleteStateMachine" => Unseen(m) = {} /\ m.name = {} /\ m.group = 1

Ends(p, l) == Running(p) /\ pc'[p] = l

(* When deploy or delete succeeds every schedule of the configuration that *)
(* had not passed starts the alias, and no other schedule starts the alias *)
(* or the state machine itself (scheduler_service.go:220-276, delete.go:   *)
(* 75-80).                                                                 *)
SchedulesAsConfigured ==
  [][\A p \in Procs : Ends(p, "ok") /\ req[p].op # "look" =>
       /\ \A n \in mem[p].wanted : target'[ConfigGroup[n]][n] = req[p].alias
       /\ req[p].alias # Unknown =>
            \A g \in Groups, n \in Names \ mem[p].wanted :
              target'[g][n] \notin {req[p].alias, "bare"}]_vars

(* A schedule that starts something else is changed only by a deployment   *)
(* that has one of its name (scheduler_service.go:79-133, 236-247).        *)
OthersKept ==
  [][\A p \in Procs, g \in Groups, n \in Names :
       /\ Running(p) /\ n \notin req[p].wanted
       /\ target[g][n] \notin {req[p].alias, "bare", Nothing}
       => target'[g][n] = target[g][n]]_vars

(* Without --trigger-enabled and --trigger-disabled no schedule is         *)
(* switched (scheduler_service.go:232-234; schedule.go:140-148).           *)
StateKept ==
  [][\A p \in Procs, g \in Groups, n \in Names :
       Running(p) /\ req[p].keepState /\ Exists(g, n) /\ Exists(g, n)' =>
         (<<g, n>> \in on <=> <<g, n>> \in on')]_vars

(* By hour t the schedule of n will never fire again: AWS reads its hour   *)
(* in its time zone.                                                       *)
OverBy(n, t) ==
  \/ Timing[n].end # 0 /\ t > Timing[n].end
  \/ Timing[n].at # 0 /\ t > Timing[n].at - Timing[n].zone

HoursBehindUTC(n) == IF Timing[n].zone < 0 THEN -Timing[n].zone ELSE 0

Removes(p, g, n) ==
  pc[p] = "DeleteSchedule" /\ mem'[p] # mem[p] /\ Exists(g, n) /\ ~Exists(g, n)'

(* A schedule of its own configuration is deleted by a deployment before   *)
(* it has fired by no more hours than its time zone is behind UTC, however *)
(* the clock moves between the configuration, the plan and the call        *)
(* (schedule.go:53-87; scheduler_service.go:220-247).                      *)
EarlyByItsZoneOnly ==
  [][\A p \in Procs, g \in Groups, n \in Names :
       Removes(p, g, n) =>
         n \notin req[p].wanted \/ OverBy(n, now + HoursBehindUTC(n))]_vars

-----------------------------------------------------------------------------
(* What the program says *)

(* "delete related schedules" (delete.go:49): a delete takes away only     *)
(* schedules that start the alias or the state machine itself.             *)
DeletesRelatedOnly ==
  [][\A p \in Procs, g \in Groups, n \in Names :
       pc[p] = "DeleteSchedule" /\ req[p].op = "delete"
         /\ target'[g][n] # target[g][n] =>
         target[g][n] \in {req[p].alias, "bare"}]_vars

(* "schedule %s has passed, ignore this schedule" (config.go:789): what a  *)
(* deployment leaves out of its configuration, and deletes, has passed; no *)
(* schedule that is still to fire goes.                                    *)
StillToFireKept ==
  [][\A p \in Procs, g \in Groups, n \in Names :
       Removes(p, g, n) => n \notin req[p].wanted \/ OverBy(n, now)]_vars

=============================================================================
