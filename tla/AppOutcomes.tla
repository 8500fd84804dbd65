------------------------------ MODULE AppOutcomes ------------------------------
(***************************************************************************)
(* What a command of App that succeeds leaves behind, one command at a     *)
(* time: proofs of DeployCompletes and DeleteCompletes, from what the      *)
(* theorems of the services say of each part (Informed) and what App       *)
(* carries from one part to the next (DoneSoFar).                          *)
(***************************************************************************)
EXTENDS AppProofs

-----------------------------------------------------------------------------
(* Triggers that start an alias *)

LEMMA RuleStarts ==
  ASSUME NEW a
  PROVE  /\ \A t \in Starts("rule", a) :
              /\ t[2] \in Rules /\ t[3] \in Ids /\ t = <<"rule", t[2], t[3]>>
              /\ ruleTarget[t[2]][t[3]] = a
         /\ \A r \in Rules, i \in Ids :
              ruleTarget[r][i] = a => <<"rule", r, i>> \in Starts("rule", a)
BY TriggerKinds DEF Starts, Triggers, TargetOf

LEMMA RuleStartsNext ==
  ASSUME NEW a
  PROVE  /\ \A t \in Starts("rule", a)' :
              /\ t[2] \in Rules /\ t[3] \in Ids /\ t = <<"rule", t[2], t[3]>>
              /\ ruleTarget'[t[2]][t[3]] = a
         /\ \A r \in Rules, i \in Ids :
              ruleTarget'[r][i] = a => <<"rule", r, i>> \in Starts("rule", a)'
<1>1. \A t \in Starts("rule", a)' :
        /\ t[2] \in Rules /\ t[3] \in Ids /\ t = <<"rule", t[2], t[3]>>
        /\ ruleTarget'[t[2]][t[3]] = a
  BY TriggerKinds DEF Starts, TargetOf
<1>2. ASSUME NEW r \in Rules, NEW i \in Ids, ruleTarget'[r][i] = a
      PROVE  <<"rule", r, i>> \in Starts("rule", a)'
  BY <1>2 DEF Starts, Triggers, TargetOf
<1>. QED  BY <1>1, <1>2

LEMMA ScheduleStartsNext ==
  ASSUME NEW a
  PROVE  /\ \A t \in Starts("schedule", a)' :
              /\ t[2] \in SC!Groups /\ t[3] \in Names /\ t = <<"schedule", t[2], t[3]>>
              /\ target'[t[2]][t[3]] = a
         /\ \A g \in SC!Groups, n \in Names :
              target'[g][n] = a => <<"schedule", g, n>> \in Starts("schedule", a)'
<1>1. \A t \in Starts("schedule", a)' :
        /\ t[2] \in SC!Groups /\ t[3] \in Names /\ t = <<"schedule", t[2], t[3]>>
        /\ target'[t[2]][t[3]] = a
  BY TriggerKinds DEF Starts, TargetOf
<1>2. ASSUME NEW g \in SC!Groups, NEW n \in Names, target'[g][n] = a
      PROVE  <<"schedule", g, n>> \in Starts("schedule", a)'
  BY <1>2 DEF Starts, Triggers, TargetOf
<1>. QED  BY <1>1, <1>2

(* A step that leaves the rules, or the schedules, leaves what they start. *)
LEMMA StartsStay ==
  ASSUME NEW a
  PROVE  /\ UNCHANGED RulesThere => Starts("rule", a)' = Starts("rule", a)
         /\ UNCHANGED SchedulesThere => Starts("schedule", a)' = Starts("schedule", a)
BY TargetsKept DEF Starts, RulesThere, SchedulesThere

-----------------------------------------------------------------------------
(* What the services have been asked for *)

(* The services know what they do: one command at a time. *)
ServicesInform == SF!Informs /\ EB!Informs /\ SC!Informs

RequestOf(c) == TriggerOp(c) \in {"deploy", "delete"}

LEMMA RequestWants ==
  ASSUME NEW c, NEW configured, NEW known
  PROVE  TriggerRequest(c, configured, known).wanted =
           IF c.op = "delete" THEN {} ELSE configured
BY DEF TriggerRequest

LEMMA RulesAsked ==
  ASSUME IInv, NEW p \in Procs, EB!Running(p)
  PROVE  \E known \in BOOLEAN :
           /\ ebReq[p] = RuleRequest(cmd[p], known)
           /\ ebReq[p].op = TriggerOp(cmd[p])
           /\ ebReq[p].alias = IF known THEN cmd[p].alias ELSE Unknown
           /\ ebReq[p].wanted = IF cmd[p].op = "delete" THEN {} ELSE cmd[p].rules
           /\ ebReq[p].wanted \subseteq Rules
           /\ cmd[p].alias \in Aliases /\ cmd[p].alias # Unknown
           /\ known => status # "ABSENT"
           /\ TriggerOp(cmd[p]) # "deploy" => known
<1>0. AppOK /\ Local(p) /\ cmd[p] \in Commands /\ EB!IInv
  BY InvParts, CommandTypes
<1>1. ebReq[p] \in EB!RequestSet
  BY <1>0, RulesAssumptions DEF EB!IInv, EB!TypeOK, EB!ProcsOK, EB!RequestsAssumption
<1>2. PICK known \in BOOLEAN :
        ebReq[p] = RuleRequest(cmd[p], known) /\ (known => status # "ABSENT")
  BY <1>0 DEF Local, Asked
<1>3. /\ ebReq[p].op = TriggerOp(cmd[p])
      /\ ebReq[p].alias = (IF known THEN cmd[p].alias ELSE Unknown)
      /\ cmd[p].alias \in Aliases /\ cmd[p].alias # Unknown
  BY <1>0, <1>2, RequestFields DEF RuleRequest
<1>5. ebReq[p].wanted = IF cmd[p].op = "delete" THEN {} ELSE cmd[p].rules
  BY <1>2, RequestWants DEF RuleRequest
<1>4. /\ ebReq[p].wanted \subseteq Rules
      /\ ebReq[p].op # "deploy" => ebReq[p].alias # Unknown
  BY <1>1 DEF EB!RequestSet, EB!Unknown, Unknown
<1>. QED  BY <1>2, <1>3, <1>4, <1>5

LEMMA SchedulesAsked ==
  ASSUME IInv, NEW p \in Procs, SC!Running(p)
  PROVE  \E known \in BOOLEAN :
           /\ scReq[p] = ScheduleRequest(cmd[p], known)
           /\ scReq[p].op = TriggerOp(cmd[p])
           /\ scReq[p].alias = IF known THEN cmd[p].alias ELSE Unknown
           /\ scReq[p].wanted = IF cmd[p].op = "delete" THEN {} ELSE cmd[p].schedules
           /\ scReq[p].wanted \subseteq Names
           /\ cmd[p].alias \in Aliases /\ cmd[p].alias # Unknown
           /\ known => status # "ABSENT"
           /\ TriggerOp(cmd[p]) # "deploy" => known
<1>0. AppOK /\ Local(p) /\ cmd[p] \in Commands /\ SC!IInv
  BY InvParts, CommandTypes
<1>1. scReq[p] \in SC!RequestSet
  BY <1>0, SchedulesAssumptions DEF SC!IInv, SC!TypeOK, SC!ProcsOK, SC!RequestsAssumption
<1>2. PICK known \in BOOLEAN :
        scReq[p] = ScheduleRequest(cmd[p], known) /\ (known => status # "ABSENT")
  BY <1>0 DEF Local, Asked
<1>3. /\ scReq[p].op = TriggerOp(cmd[p])
      /\ scReq[p].alias = (IF known THEN cmd[p].alias ELSE Unknown)
      /\ cmd[p].alias \in Aliases /\ cmd[p].alias # Unknown
  BY <1>0, <1>2, RequestFields DEF ScheduleRequest
<1>5. scReq[p].wanted = IF cmd[p].op = "delete" THEN {} ELSE cmd[p].schedules
  BY <1>2, RequestWants DEF ScheduleRequest
<1>4. /\ scReq[p].wanted \subseteq Names
      /\ scReq[p].op # "deploy" => scReq[p].alias # Unknown
  BY <1>1 DEF SC!RequestSet, SC!Unknown, Unknown
<1>. QED  BY <1>2, <1>3, <1>4, <1>5

-----------------------------------------------------------------------------
(* What the rules' service leaves *)

(* The rules are those the commands have put. *)
RulesOwn ==
  /\ exists \subseteq managed
  /\ \A r \in Rules, i \in Ids \ {OwnId} : ruleTarget[r][i] = EB!Nothing

LEMMA RulesOwnKept ==
  ASSUME IInv, RulesOwn, NEW p \in Procs, EB!Work(p)
  PROVE  RulesOwn'
<1>0. EB!IInv /\ exists \subseteq Rules /\ managed \subseteq exists
      /\ ruleTarget \in [Rules -> [Ids -> EB!Arns \cup {EB!Nothing}]]
  BY DEF IInv, EB!IInv, EB!TypeOK, EB!BusOK
<1>1. exists' \subseteq managed'
  <2>1. CASE EB!DeleteRule(p)
    BY <2>1 DEF EB!DeleteRule, RulesOwn
  <2>2. CASE EB!PutRule(p)
    BY <2>2 DEF EB!PutRule, RulesOwn
  <2>3. CASE EB!TagResource(p)
    BY <2>3 DEF EB!TagResource, RulesOwn
  <2>4. CASE ~EB!DeleteRule(p) /\ ~EB!PutRule(p) /\ ~EB!TagResource(p)
    <3>1. UNCHANGED <<exists, managed>>
      BY <2>4 DEF EB!Work, EB!ListByAlias, EB!ListByArn, EB!DescribeRule, EB!ListTargets,
         EB!ListTags, EB!DeleteStateMachine, EB!RemoveTargets, EB!PutTargets,
         EB!CallFails, EB!bus
    <3>. QED  BY <3>1 DEF RulesOwn
  <2>. QED  BY <2>1, <2>2, <2>3, <2>4
<1>2. ASSUME NEW r \in Rules, NEW i \in Ids \ {OwnId}
      PROVE  ruleTarget'[r][i] = EB!Nothing
  <2>1. ruleTarget[r][i] = EB!Nothing
    BY DEF RulesOwn
  <2>2. CASE UNCHANGED ruleTarget
    BY <2>1, <2>2
  <2>3. ASSUME NEW s \in Rules, NEW S \in SUBSET Ids,
               ruleTarget' = [ruleTarget EXCEPT ![s] =
                 [j \in Ids |-> IF j \in S THEN EB!Nothing ELSE @[j]]]
        PROVE  ruleTarget'[r][i] = EB!Nothing
    BY <1>0, <2>1, <2>3
  <2>4. ASSUME NEW s, NEW a, ruleTarget' = [ruleTarget EXCEPT ![s][OwnId] = a]
        PROVE  ruleTarget'[r][i] = EB!Nothing
    BY <1>0, <2>1, <2>4
  <2>. QED  BY <1>0, <2>2, <2>3, <2>4, RulesAssumptions, EB!TargetMoves
<1>. QED  BY <1>1, <1>2 DEF RulesOwn

(* Only a deployment that knows the state machine makes a rule start more. *)
LEMMA RulesStartNoMore ==
  ASSUME IInv, NEW p \in Procs, EB!Work(p), NEW a \in Aliases,
         ebReq[p].op # "deploy" \/ ebReq[p].alias # a
  PROVE  Starts("rule", a)' \subseteq Starts("rule", a)
<1>0. EB!IInv /\ ruleTarget \in [Rules -> [Ids -> EB!Arns \cup {EB!Nothing}]]
      /\ a # EB!Nothing
  BY TriggersAssumption DEF IInv, EB!IInv, EB!TypeOK, EB!BusOK, EB!Nothing
<1>1. SUFFICES ASSUME NEW r \in Rules, NEW i \in Ids, ruleTarget'[r][i] = a
               PROVE  ruleTarget[r][i] = a
  BY RuleStarts, RuleStartsNext
<1>2. CASE UNCHANGED ruleTarget
  BY <1>1, <1>2
<1>3. ASSUME NEW s \in Rules, NEW S \in SUBSET Ids,
             ruleTarget' = [ruleTarget EXCEPT ![s] =
               [j \in Ids |-> IF j \in S THEN EB!Nothing ELSE @[j]]]
      PROVE  ruleTarget[r][i] = a
  BY <1>0, <1>1, <1>3
<1>4. ASSUME EB!MayWrite(ebReq[p], ebMem[p]), ebReq[p].alias # Unknown,
             NEW s \in ebReq[p].wanted,
             ruleTarget' = [ruleTarget EXCEPT ![s][OwnId] = ebReq[p].alias]
      PROVE  ruleTarget[r][i] = a
  <2>1. ebReq[p].wanted = {} \/ ebReq[p].op = "deploy"
    <3>1. EB!Running(p)
      BY RulesWork
    <3>2. TriggerOp(cmd[p]) = ebReq[p].op
          /\ (cmd[p].op = "delete" => ebReq[p].wanted = {})
      BY <3>1, RulesAsked
    <3>3. TriggerOp(cmd[p]) # "look"
      BY <1>4, <3>2 DEF EB!MayWrite
    <3>. QED  BY <3>2, <3>3 DEF TriggerOp, ReadOnly
  <2>2. ebReq[p].alias # a
    BY <1>4, <2>1
  <2>. QED  BY <1>0, <1>1, <1>4, <2>2
<1>5. EB!Unknown = Unknown
  BY DEF EB!Unknown, Unknown
<1>. QED  BY <1>0, <1>2, <1>3, <1>4, <1>5, RulesAssumptions, EB!TargetMoves

(* A deployment or a delete that has done the rules has them as they are   *)
(* configured; without a state machine there were none.                    *)
LEMMA RulesDone ==
  ASSUME IInv, ServicesKept, ServicesInform, RulesOwn, NEW p \in Procs, EB!Work(p),
         ebPc'[p] = "ok", RequestOf(cmd[p]), NEW a, a = ebReq[p].alias,
         NEW W, W = ebReq[p].wanted
  PROVE  /\ a # Unknown => Starts("rule", a)' = {<<"rule", r, OwnId>> : r \in W}
         /\ a = Unknown => W = {}
<1>0. EB!IInv /\ EB!Running(p) /\ EB!Informed(ebPc[p], ebReq[p], ebMem[p])
  BY RulesWork DEF IInv, ServicesInform, EB!Informs
<1>1. /\ ebReq[p].op # "look" /\ W \subseteq Rules
      /\ a \in Aliases \cup {Unknown}
  BY <1>0, RulesAsked DEF RequestOf
<1>2. PICK q : q = ebReq[p]
  OBVIOUS
<1>3. EB!Settled(q)'
  BY <1>0, <1>1, <1>2, RulesAssumptions, EB!WorkInforms
<1>4. /\ exists' \subseteq Rules
      /\ ruleTarget' \in [Rules -> [Ids -> EB!Arns \cup {EB!Nothing}]]
      /\ \A r \in Rules \ exists', i \in Ids : ruleTarget'[r][i] = EB!Nothing
  BY DEF ServicesKept, EB!IInv, EB!TypeOK, EB!BusOK, EB!Targets
<1>5. RulesOwn'
  BY RulesOwnKept
<1>6. /\ \A r \in W : ruleTarget'[r][OwnId] = a
      /\ a # Unknown => \A r \in managed' \ W, i \in Ids : ruleTarget'[r][i] # a
  BY <1>2, <1>3 DEF EB!Settled, EB!Related, EB!Unknown, Unknown
<1>7. OwnId \in Ids
  BY TriggersAssumption
<1>8. ASSUME a # Unknown
      PROVE  Starts("rule", a)' = {<<"rule", r, OwnId>> : r \in W}
  <2>1. a # EB!Nothing
    BY <1>1, <1>8, TriggersAssumption DEF EB!Nothing
  <2>2. \A r \in Rules, i \in Ids : ruleTarget'[r][i] = a => r \in W /\ i = OwnId
    BY <1>4, <1>5, <1>6, <1>8, <2>1 DEF RulesOwn
  <2>3. \A t \in Starts("rule", a)' : t \in {<<"rule", r, OwnId>> : r \in W}
    <3>1. SUFFICES ASSUME NEW t \in Starts("rule", a)'
                   PROVE  t \in {<<"rule", r, OwnId>> : r \in W}
      OBVIOUS
    <3>2. /\ t[2] \in Rules /\ t[3] \in Ids /\ t = <<"rule", t[2], t[3]>>
          /\ ruleTarget'[t[2]][t[3]] = a
      BY <3>1, RuleStartsNext
    <3>3. t[2] \in W /\ t[3] = OwnId
      BY <2>2, <3>2
    <3>. QED  BY <3>2, <3>3
  <2>4. \A r \in W : <<"rule", r, OwnId>> \in Starts("rule", a)'
    BY <1>1, <1>6, <1>7, RuleStartsNext
  <2>. QED  BY <2>3, <2>4
<1>9. ASSUME a = Unknown PROVE W = {}
  <2>1. Unknown \notin EB!Arns \cup {EB!Nothing}
    BY TriggersAssumption DEF EB!Arns, EB!Nothing, Unknown
  <2>. QED  BY <1>1, <1>4, <1>6, <1>7, <1>9, <2>1
<1>. QED  BY <1>8, <1>9

-----------------------------------------------------------------------------
(* What the schedules' service leaves *)

LEMMA SchedulesStartNoMore ==
  ASSUME IInv, NEW p \in Procs, SC!Work(p), NEW a \in Aliases,
         scReq[p].op # "deploy" \/ scReq[p].alias # a
  PROVE  Starts("schedule", a)' \subseteq Starts("schedule", a)
<1>0. SC!IInv /\ target \in [SC!Groups -> [Names -> SC!Arns \cup {SC!Nothing}]]
      /\ a # SC!Nothing
  BY TriggersAssumption DEF IInv, SC!IInv, SC!TypeOK, SC!StoreOK, SC!Nothing
<1>1. SUFFICES ASSUME NEW g \in SC!Groups, NEW n \in Names, target'[g][n] = a
               PROVE  target[g][n] = a
  <2>1. \A g \in SC!Groups, n \in Names :
          target[g][n] = a => <<"schedule", g, n>> \in Starts("schedule", a)
    BY DEF Starts, Triggers, TargetOf
  <2>. QED  BY <1>1, <2>1, ScheduleStartsNext
<1>2. CASE UNCHANGED target
  BY <1>1, <1>2
<1>3. ASSUME NEW h, NEW m, NEW b, target' = [target EXCEPT ![h][m] = b], b # a
      PROVE  target[g][n] = a
  BY <1>0, <1>1, <1>3
<1>4. ASSUME SC!MayWrite(scReq[p], scMem[p]), NEW m \in scReq[p].wanted
      PROVE  scReq[p].alias # a
  <2>1. SC!Running(p)
    BY SchedulesWork
  <2>2. TriggerOp(cmd[p]) = scReq[p].op
        /\ (cmd[p].op = "delete" => scReq[p].wanted = {})
    BY <2>1, SchedulesAsked
  <2>3. TriggerOp(cmd[p]) # "look"
    BY <1>4, <2>2 DEF SC!MayWrite
  <2>4. scReq[p].op = "deploy"
    BY <1>4, <2>2, <2>3 DEF TriggerOp, ReadOnly
  <2>. QED  BY <2>4
<1>5. \/ UNCHANGED target
      \/ \E h, m : target' = [target EXCEPT ![h][m] = SC!Nothing]
      \/ /\ SC!MayWrite(scReq[p], scMem[p])
         /\ \E m \in scReq[p].wanted :
              target' = [target EXCEPT ![ConfigGroup[m]][m] = scReq[p].alias]
  BY <1>0, SchedulesAssumptions, SC!TargetMoves
<1>6. \/ UNCHANGED target
      \/ \E h, m, b : b # a /\ target' = [target EXCEPT ![h][m] = b]
  BY <1>0, <1>4, <1>5
<1>. QED  BY <1>2, <1>3, <1>6

(* No schedule of App has passed: a service leaves none out. *)
LEMMA NoneLeftOut ==
  ASSUME IInv, NEW p \in Procs, SC!Running(p)
  PROVE  scMem[p].wanted = scReq[p].wanted
<1>1. /\ scMem[p].wanted \subseteq scReq[p].wanted
      /\ \A n \in scReq[p].wanted \ scMem[p].wanted : SC!HasItPassed(n)
  BY DEF IInv, SC!IInv, SC!Planned, SC!Running
<1>2. scReq[p].wanted \subseteq Names
  BY SchedulesAsked
<1>3. \A n \in Names : ~SC!HasItPassed(n)
  BY DEF SC!HasItPassed
<1>. QED  BY <1>1, <1>2, <1>3

LEMMA SchedulesDone ==
  ASSUME IInv, ServicesKept, ServicesInform, NEW p \in Procs, SC!Work(p),
         scPc'[p] = "ok", RequestOf(cmd[p]), NEW a, a = scReq[p].alias,
         NEW W, W = scReq[p].wanted
  PROVE  /\ a # Unknown =>
              Starts("schedule", a)' = {<<"schedule", ConfigGroup[n], n>> : n \in W}
         /\ a = Unknown => W = {}
<1>0. SC!IInv /\ SC!Running(p) /\ SC!Informed(scPc[p], scReq[p], scMem[p]) /\ SC!Unique
  BY SchedulesWork DEF IInv, ServicesInform, SC!Informs
<1>1. /\ scReq[p].op # "look" /\ W \subseteq Names /\ scMem[p].wanted = W
      /\ a \in Aliases \cup {Unknown}
  BY <1>0, SchedulesAsked, NoneLeftOut DEF RequestOf
<1>2. PICK q : q = scReq[p]
  OBVIOUS
<1>3. SC!Settled(q, W)' /\ SC!Unique'
  BY <1>0, <1>1, <1>2, SchedulesAssumptions, SC!WorkInforms
<1>4. target' \in [SC!Groups -> [Names -> SC!Arns \cup {SC!Nothing}]]
  BY DEF ServicesKept, SC!IInv, SC!TypeOK, SC!StoreOK
<1>5. /\ \A n \in W : target'[ConfigGroup[n]][n] = a
      /\ a # Unknown => \A g \in SC!Groups, n \in Names \ W : target'[g][n] # a
  <2>1. \A n \in W : target'[ConfigGroup[n]][n] = a
    BY <1>2, <1>3 DEF SC!Settled
  <2>2. ASSUME a # Unknown, NEW g \in SC!Groups, NEW n \in Names \ W, target'[g][n] = a
        PROVE  FALSE
    <3>1. n \in SC!Related(g, a)'
      BY <2>2 DEF SC!Related, SC!Unknown, Unknown
    <3>2. n \in SC!RelatedNames(a)'
      BY <2>2, <3>1 DEF SC!RelatedNames
    <3>. QED  BY <1>2, <1>3, <2>2, <3>2 DEF SC!Settled
  <2>. QED  BY <2>1, <2>2
<1>6. \A n \in W : ConfigGroup[n] \in SC!Groups
  BY <1>1, TriggersAssumption DEF SC!Groups
<1>7. ASSUME a # Unknown
      PROVE  Starts("schedule", a)' = {<<"schedule", ConfigGroup[n], n>> : n \in W}
  <2>1. a # SC!Nothing
    BY <1>1, <1>7, TriggersAssumption DEF SC!Nothing
  <2>2. ASSUME NEW g \in SC!Groups, NEW n \in Names, target'[g][n] = a
        PROVE  n \in W /\ g = ConfigGroup[n]
    <3>1. n \in W
      BY <1>5, <1>7, <2>2
    <3>2. target'[ConfigGroup[n]][n] = a /\ ConfigGroup[n] \in SC!Groups
      BY <1>5, <1>6, <3>1
    <3>. QED  BY <1>3, <2>1, <2>2, <3>1, <3>2 DEF SC!Unique, SC!Exists
  <2>3. \A t \in Starts("schedule", a)' : t \in {<<"schedule", ConfigGroup[n], n>> : n \in W}
    <3>1. SUFFICES ASSUME NEW t \in Starts("schedule", a)'
                   PROVE  t \in {<<"schedule", ConfigGroup[n], n>> : n \in W}
      OBVIOUS
    <3>2. /\ t[2] \in SC!Groups /\ t[3] \in Names /\ t = <<"schedule", t[2], t[3]>>
          /\ target'[t[2]][t[3]] = a
      BY <3>1, ScheduleStartsNext
    <3>3. t[3] \in W /\ t[2] = ConfigGroup[t[3]]
      BY <2>2, <3>2
    <3>. QED  BY <3>2, <3>3
  <2>4. \A n \in W : <<"schedule", ConfigGroup[n], n>> \in Starts("schedule", a)'
    BY <1>1, <1>5, <1>6, ScheduleStartsNext
  <2>. QED  BY <2>3, <2>4
<1>8. ASSUME a = Unknown PROVE W = {}
  <2>1. Unknown \notin SC!Arns \cup {SC!Nothing}
    BY TriggersAssumption DEF SC!Arns, SC!Nothing, Unknown
  <2>. QED  BY <1>1, <1>4, <1>5, <1>6, <1>8, <2>1
<1>. QED  BY <1>7, <1>8

-----------------------------------------------------------------------------
(* The invariant, process by process *)

NothingBefore == status = "ABSENT" => \A a \in Aliases : NothingStarts(a)

(* What DoneSoFar says of process p. *)
Carried(p) ==
  /\ TriggerOp(cmd[p]) = "deploy" => DeployedSoFar(p)
  /\ TriggerOp(cmd[p]) = "delete" => DeletedSoFar(p)
  /\ stage[p] = "describe latest" => cmd[p].op = "diff"

LEMMA DoneParts ==
  DoneSoFar <=> RulesOwn /\ NothingBefore /\ \A p \in Procs : Carried(p)
BY DEF DoneSoFar, RulesOwn, NothingBefore, Carried

LEMMA CarriedParts ==
  ASSUME NEW p, Carried(p)
  PROVE  /\ TriggerOp(cmd[p]) = "deploy" =>
              /\ stage[p] \in WithTriggers /\ ~cmd[p].skipMachine =>
                   routing[cmd[p].alias] = {published}
              /\ stage[p] = "rules" /\ EB!Running(p) =>
                   ebReq[p] = RuleRequest(cmd[p], own[p].found)
              /\ stage[p] = "schedules" =>
                   /\ ~EB!Running(p)
                   /\ SC!Running(p) => scReq[p] = ScheduleRequest(cmd[p], own[p].found)
              /\ stage[p] \in {"arn for schedules", "schedules"}
                   /\ LooksFor(cmd[p], cmd[p].rules) =>
                   Starts("rule", cmd[p].alias) = ConfiguredRules(cmd[p])
              /\ \/ stage[p] = "machine" /\ sfPc[p] # "DescribeStateMachine"
                 \/ stage[p] \in WithTriggers
                 => cmd[p].skipMachine \/ own[p].found \/ NothingStarts(cmd[p].alias)
         /\ TriggerOp(cmd[p]) = "delete" /\ stage[p] = "schedules" /\ ~EB!Running(p) =>
              status = "DELETING" /\ Starts("rule", cmd[p].alias) = {}
BY DEF Carried, DeployedSoFar, DeletedSoFar

(* At these stages nothing is said of a command. *)
LEMMA CarriedThere ==
  ASSUME NEW p,
         stage'[p] \in Ended \cup {"describe", "confirm", "DeleteStateMachine"}
  PROVE  Carried(p)'
BY DEF Carried, DeployedSoFar, DeletedSoFar, WithTriggers, Ended

(* A command that goes on to l as c, and what has to be known of it there. *)
LEMMA CarriedOn ==
  ASSUME NEW p, NEW c, cmd'[p] = c, NEW f, own'[p].found = f,
         NEW l, stage'[p] = l, l # "describe latest",
         TriggerOp(c) = "deploy" =>
           /\ l \in WithTriggers /\ ~c.skipMachine => routing'[c.alias] = {published'}
           /\ l = "rules" /\ EB!Running(p)' => ebReq'[p] = RuleRequest(c, f)
           /\ l = "schedules" =>
                /\ ~EB!Running(p)'
                /\ SC!Running(p)' => scReq'[p] = ScheduleRequest(c, f)
           /\ l \in {"arn for schedules", "schedules"} /\ LooksFor(c, c.rules) =>
                Starts("rule", c.alias)' = ConfiguredRules(c)
           /\ (l = "machine" /\ sfPc'[p] # "DescribeStateMachine") \/ l \in WithTriggers
                => \/ c.skipMachine \/ f
                   \/ Starts("rule", c.alias)' = {} /\ Starts("schedule", c.alias)' = {},
         TriggerOp(c) = "delete" /\ l = "schedules" /\ ~EB!Running(p)' =>
           status' = "DELETING" /\ Starts("rule", c.alias)' = {}
  PROVE  Carried(p)'
<1>1. PICK a : a = c.alias
  OBVIOUS
<1>2. Starts("rule", a)' = {} /\ Starts("schedule", a)' = {} => NothingStarts(a)'
  BY DEF NothingStarts, Kinds
<1>3. TriggerOp(c) = "deploy" => DeployedSoFar(p)'
  BY <1>1, <1>2 DEF DeployedSoFar, LooksFor, ConfiguredRules, RuleRequest, ScheduleRequest,
     TriggerRequest
<1>4. TriggerOp(c) = "delete" => DeletedSoFar(p)'
  BY DEF DeletedSoFar
<1>. QED  BY <1>3, <1>4 DEF Carried, TriggerOp, ReadOnly

-----------------------------------------------------------------------------
(* The state machine, and the searches for it *)

(* A deployment whose part on the state machine ends well has its alias on *)
(* the newest release.                                                     *)
LEMMA MachineDone ==
  ASSUME IInv, ServicesInform, NEW p \in Procs, MachineStep(p),
         TriggerOp(cmd[p]) = "deploy", sfPc'[p] = "ok"
  PROVE  /\ routing'[cmd[p].alias] = {published'}
         /\ sfPc[p] # "DescribeStateMachine"
<1>0. /\ Local(p) /\ SF!Work(p) /\ SF!IInv /\ SF!Running(p)
      /\ SF!Informed(sfPc[p], sfOpt[p], sfMem[p])
  BY Before, MachineWorks DEF MachineStep, IInv, ServicesInform, SF!Informs
<1>1. cmd[p].op = "deploy" /\ ~cmd[p].dryRun
  BY DEF TriggerOp, ReadOnly
<1>2. sfOpt[p].op = "deploy" /\ ~sfOpt[p].dryRun /\ SF!MyAlias(p) = cmd[p].alias
  BY <1>0, <1>1 DEF Local, Asked, MachineOption, SF!MyAlias
<1>3. routing'[SF!MyAlias(p)] = {published}
  BY <1>0, <1>2, MachineAssumptions, SF!InformedDeployEnds
<1>4. sfPc \in [Procs -> SF!Ended \cup SF!Calls]
  BY <1>0 DEF SF!IInv, SF!TypeOK, SF!ProcsOK
<1>5. ~SF!DescribeStateMachine(p)
  <2>1. SF!FirstCall(sfOpt[p]) # "ok"
    BY <1>2 DEF SF!FirstCall, SF!FirstOfDeploy
  <2>. QED  BY <1>4, <2>1 DEF SF!DescribeStateMachine, SF!Goto
<1>6. ~SF!CreateStateMachine(p) /\ ~SF!UpdateStateMachine(p) /\ ~SF!CallFails(p)
  BY <1>4 DEF SF!CreateStateMachine, SF!UpdateStateMachine, SF!CallFails, SF!Goto
<1>7. published' = published /\ sfPc[p] # "DescribeStateMachine"
  BY <1>0, <1>5, <1>6
     DEF SF!Work, SF!TagResource, SF!WaitActive, SF!WaitAgain, SF!WaitPanics,
         SF!DescribeAlias, SF!CreateAlias, SF!UpdateAlias, SF!PointAlias,
         SF!DescribeCurrentAlias, SF!ListAliases, SF!DescribeAliases, SF!ListVersions,
         SF!DeleteVersion, SF!DeleteAgain, SF!SkipReferenced, SF!DeleteFails, SF!cloud
<1>. QED  BY <1>2, <1>3, <1>7

LEMMA MachineStepCarries ==
  ASSUME IInv, ServicesKept, ServicesInform, DoneSoFar, NEW p \in Procs, MachineStep(p)
  PROVE  Carried(p)'
<1>0. /\ AppOK /\ Local(p) /\ own[p] \in Memory /\ cmd[p].alias \in Aliases
      /\ stage[p] = "machine" /\ SF!Work(p) /\ SF!Running(p)
      /\ Carried(p) /\ NothingBefore
  BY Before, MachineWorks, DoneParts DEF MachineStep
<1>1. PICK c : c = cmd[p]
  OBVIOUS
<1>2. /\ Starts("rule", c.alias)' = Starts("rule", c.alias)
      /\ Starts("schedule", c.alias)' = Starts("schedule", c.alias)
  <2>1. PICK a : a = c.alias
    OBVIOUS
  <2>2. UNCHANGED RulesThere /\ UNCHANGED SchedulesThere
    BY DEF MachineStep, bus, scheduler, RulesThere, SchedulesThere
  <2>3. Starts("rule", a)' = Starts("rule", a) /\ Starts("schedule", a)' = Starts("schedule", a)
    BY <2>2, StartsStay
  <2>. QED  BY <2>1, <2>3
<1>3. TriggerOp(c) = "deploy" => ~c.skipMachine
  BY <1>0, <1>1 DEF Local, Asked, OnMachine, TriggerOp, ReadOnly
<1>4. CASE SF!Running(p)'
  <2> DEFINE listed == sfPc[p] = "DescribeStateMachine" /\ status # "ABSENT"
             m == [own[p] EXCEPT !.found = @ \/ listed]
  <2>1. Enter(p, "machine", m) /\ m \in Memory /\ m.found = (own[p].found \/ listed)
    BY <1>0, <1>4 DEF MachineStep, Memory
  <2> HIDE DEF m
  <2>2. stage'[p] = "machine" /\ own'[p] = m /\ cmd'[p] = c
    BY <1>0, <1>1, <2>1, GoesOn, StageNames
  <2>3. TriggerOp(c) = "deploy" =>
          \/ m.found
          \/ Starts("rule", c.alias)' = {} /\ Starts("schedule", c.alias)' = {}
    <3>1. SUFFICES ASSUME TriggerOp(c) = "deploy", ~m.found
                   PROVE  NothingStarts(c.alias)
      BY <1>2 DEF NothingStarts, Kinds
    <3>2. CASE status = "ABSENT"
      BY <1>0, <1>1, <3>2 DEF NothingBefore
    <3>3. CASE status # "ABSENT"
      <4>1. ~own[p].found /\ sfPc[p] # "DescribeStateMachine"
        BY <2>1, <3>1, <3>3
      <4>. QED  BY <1>0, <1>1, <1>3, <3>1, <4>1, CarriedParts
    <3>. QED  BY <3>2, <3>3
  <2>. QED  BY <2>2, <2>3, CarriedOn DEF WithTriggers
<1>5. CASE ~SF!Running(p)'
  <2>1. Enter(p, AfterMachine(c, sfPc'[p]), own[p])
    BY <1>1, <1>5 DEF MachineStep
  <2>2. sfPc'[p] \in Ended
    BY <1>5 DEF ServicesKept, SF!IInv, SF!TypeOK, SF!ProcsOK, SF!Running, SF!Ended, Ended
  <2>3. CASE AfterMachine(c, sfPc'[p]) = sfPc'[p]
    BY <1>0, <2>1, <2>2, <2>3, EnterFrame, CarriedThere
  <2>4. CASE AfterMachine(c, sfPc'[p]) # sfPc'[p]
    <3>1. sfPc'[p] = "ok" /\ Enter(p, "arn for rules", own[p])
      BY <2>1, <2>4 DEF AfterMachine
    <3>2. stage'[p] = "arn for rules" /\ own'[p] = own[p] /\ cmd'[p] = c
      BY <1>0, <1>1, <3>1, GoesOn, StageNames
    <3>3. ASSUME TriggerOp(c) = "deploy"
          PROVE  /\ routing'[c.alias] = {published'}
                 /\ own[p].found \/ NothingStarts(c.alias)
      BY <1>0, <1>1, <1>3, <3>1, <3>3, MachineDone, CarriedParts
    <3>. QED
      BY <1>2, <1>3, <3>2, <3>3, CarriedOn DEF WithTriggers, NothingStarts, Kinds
  <2>. QED  BY <2>3, <2>4
<1>. QED  BY <1>4, <1>5

(* What has been found once is not looked for again. *)
LEMMA AnswersKept ==
  ASSUME NEW p, NEW known \in Answers(p), own[p].found
  PROVE  known = TRUE
BY DEF Answers

LEMMA GetArnForRulesCarries ==
  ASSUME IInv, ServicesKept, DoneSoFar, NEW p \in Procs, GetArnForRules(p)
  PROVE  Carried(p)'
<1>0. /\ AppOK /\ own[p] \in Memory /\ Carried(p) /\ EB!ProcsOK
      /\ stage[p] = "arn for rules" /\ UNCHANGED <<machine, scheduler>>
  BY Before, DoneParts DEF GetArnForRules, IInv, EB!IInv, EB!TypeOK
<1>1. PICK known \in Answers(p) :
        LET m == [own[p] EXCEPT !.found = known] IN
        \/ cmd[p].dryRun /\ Enter(p, "arn for schedules", m)
        \/ Enter(p, "rules", m) /\ EB!Start(p, RuleRequest(cmd[p], known))
  BY DEF GetArnForRules
<1> DEFINE m == [own[p] EXCEPT !.found = known]
<1>2. m \in Memory /\ m.found = known
  BY <1>0, AnswersTrue DEF Memory
<1>3. PICK c : c = cmd[p]
  OBVIOUS
<1> HIDE DEF m
<1>4. CASE c.dryRun /\ Enter(p, "arn for schedules", m)
  <2>1. stage'[p] = "arn for schedules" /\ cmd'[p] = c
    BY <1>0, <1>2, <1>3, <1>4, GoesOn, StageNames
  <2>2. TriggerOp(c) = "look"
    BY <1>4 DEF TriggerOp, ReadOnly
  <2>. QED  BY <2>1, <2>2, CarriedOn
<1>5. CASE Enter(p, "rules", m) /\ EB!Start(p, RuleRequest(c, known))
  <2>1. stage'[p] = "rules" /\ own'[p] = m /\ cmd'[p] = c
    BY <1>0, <1>2, <1>3, <1>5, GoesOn, StageNames
  <2>2. ebReq'[p] = RuleRequest(c, known)
    BY <1>0, <1>5 DEF EB!Start, EB!ProcsOK
  <2>3. UNCHANGED <<Rest, RulesThere, SchedulesThere>>
    BY <1>0, <1>5 DEF EB!Start, EB!bus, Rest, RulesThere, SchedulesThere, machine, scheduler
  <2>4. PICK a : a = c.alias
    OBVIOUS
  <2>5. /\ Starts("rule", a)' = Starts("rule", a)
        /\ Starts("schedule", a)' = Starts("schedule", a)
    BY <2>3, StartsStay
  <2>6. ASSUME TriggerOp(c) = "deploy", ~c.skipMachine
        PROVE  /\ routing'[a] = {published'}
               /\ known \/ (Starts("rule", a)' = {} /\ Starts("schedule", a)' = {})
    <3>1. routing[a] = {published} /\ (own[p].found \/ NothingStarts(a))
      BY <1>0, <1>3, <2>4, <2>6, CarriedParts DEF WithTriggers
    <3>2. known \/ NothingStarts(a)
      BY <3>1, AnswersKept
    <3>. QED  BY <2>3, <2>5, <3>1, <3>2 DEF Rest, NothingStarts, Kinds
  <2>. QED  BY <1>2, <2>1, <2>2, <2>4, <2>6, CarriedOn
<1>. QED  BY <1>1, <1>3, <1>4, <1>5 DEF m


LEMMA GetArnForSchedulesCarries ==
  ASSUME IInv, ServicesKept, DoneSoFar, NEW p \in Procs, GetArnForSchedules(p)
  PROVE  Carried(p)'
<1>0. /\ AppOK /\ own[p] \in Memory /\ Carried(p) /\ SC!ProcsOK /\ Local(p)
      /\ stage[p] = "arn for schedules" /\ UNCHANGED <<machine, bus>>
  BY Before, DoneParts DEF GetArnForSchedules, IInv, SC!IInv, SC!TypeOK
<1>1. PICK known \in Answers(p) :
        LET m == [own[p] EXCEPT !.found = known] IN
        \/ Enter(p, "ok", Fresh)
        \/ Enter(p, "schedules", m) /\ SC!Start(p, ScheduleRequest(cmd[p], known))
  BY DEF GetArnForSchedules
<1> DEFINE m == [own[p] EXCEPT !.found = known]
<1>2. m \in Memory /\ m.found = known
  BY <1>0, AnswersTrue DEF Memory
<1>3. PICK c : c = cmd[p]
  OBVIOUS
<1> HIDE DEF m
<1>4. CASE Enter(p, "ok", Fresh)
  BY <1>0, <1>4, EnterFrame, CarriedThere DEF Ended
<1>5. CASE Enter(p, "schedules", m) /\ SC!Start(p, ScheduleRequest(c, known))
  <2>1. stage'[p] = "schedules" /\ own'[p] = m /\ cmd'[p] = c
    BY <1>0, <1>2, <1>3, <1>5, GoesOn, StageNames
  <2>2. scReq'[p] = ScheduleRequest(c, known) /\ ~EB!Running(p) /\ ~EB!Running(p)'
    BY <1>0, <1>5, StillStopped DEF SC!Start, SC!ProcsOK, Local
  <2>3. UNCHANGED <<Rest, RulesThere, SchedulesThere>>
    BY <1>0, <1>5 DEF SC!Start, SC!store, Rest, RulesThere, SchedulesThere, machine, bus
  <2>4. PICK a : a = c.alias
    OBVIOUS
  <2>5. /\ Starts("rule", a)' = Starts("rule", a)
        /\ Starts("schedule", a)' = Starts("schedule", a)
    BY <2>3, StartsStay
  <2>6. ASSUME TriggerOp(c) = "deploy"
        PROVE  /\ ~c.skipMachine => routing'[a] = {published'}
               /\ \/ c.skipMachine \/ known
                  \/ Starts("rule", a)' = {} /\ Starts("schedule", a)' = {}
               /\ LooksFor(c, c.rules) => Starts("rule", a)' = ConfiguredRules(c)
    <3>1. /\ ~c.skipMachine => routing[a] = {published}
          /\ c.skipMachine \/ own[p].found \/ NothingStarts(a)
          /\ LooksFor(c, c.rules) => Starts("rule", a) = ConfiguredRules(c)
      BY <1>0, <1>3, <2>4, <2>6, CarriedParts DEF WithTriggers
    <3>2. c.skipMachine \/ known \/ NothingStarts(a)
      BY <3>1, AnswersKept
    <3>. QED  BY <2>3, <2>5, <3>1, <3>2 DEF Rest, NothingStarts, Kinds
  <2>7. TriggerOp(c) = "delete" => c.op = "delete"
    BY DEF TriggerOp
  <2>8. TriggerOp(c) # "delete"
    BY <1>0, <1>3, <2>7 DEF Local, Placed
  <2>. QED  BY <1>2, <2>1, <2>2, <2>4, <2>6, <2>8, CarriedOn
<1>. QED  BY <1>1, <1>3, <1>4, <1>5 DEF m

(* Only delete, status and diff describe the state machine first. *)
LEMMA DescribeCarries ==
  ASSUME IInv, NEW p \in Procs, DescribeStateMachine(p) \/ DescribeLatest(p)
  PROVE  Carried(p)'
<1>0. AppOK /\ own[p] \in Memory /\ Local(p)
  BY Before
<1>1. CASE DescribeLatest(p)
  <2>1. PICK l \in Ended : Enter(p, l, Fresh)
    BY <1>1 DEF DescribeLatest, Ended
  <2>. QED  BY <1>0, <2>1, EnterFrame, CarriedThere
<1>2. CASE DescribeStateMachine(p)
  <2>1. TriggerOp(cmd[p]) # "deploy"
    BY <1>0, <1>2 DEF DescribeStateMachine, Local, Placed, TriggerOp
  <2>2. PICK c : c = cmd[p]
    OBVIOUS
  <2>3. CASE \E m \in Memory : Enter(p, "rules", m)
    <3>1. PICK m \in Memory : Enter(p, "rules", m)
      BY <2>3
    <3>2. stage'[p] = "rules" /\ cmd'[p] = c
      BY <1>0, <2>2, <3>1, GoesOn, StageNames
    <3>. QED  BY <2>1, <2>2, <3>2, CarriedOn
  <2>4. CASE Enter(p, WithoutMachine(c), own[p])
    <3>1. WithoutMachine(c) \in {"error", "ok"}
          \/ (WithoutMachine(c) = "describe latest" /\ c.op = "diff")
      BY DEF WithoutMachine
    <3>2. CASE WithoutMachine(c) \in {"error", "ok"}
      BY <1>0, <2>4, <3>2, EnterFrame, CarriedThere DEF Ended
    <3>3. CASE WithoutMachine(c) = "describe latest" /\ c.op = "diff"
      <4>1. stage'[p] = "describe latest" /\ cmd'[p] = c
        BY <1>0, <2>2, <2>4, <3>3, GoesOn, StageNames
      <4>2. TriggerOp(c) = "look"
        BY <3>3 DEF TriggerOp, ReadOnly
      <4>. QED  BY <3>3, <4>1, <4>2 DEF Carried
    <3>. QED  BY <3>1, <3>2, <3>3
  <2>5. [own[p] EXCEPT !.deleting = status = "DELETING"] \in Memory
    BY <1>0 DEF Memory
  <2>. QED  BY <1>2, <2>2, <2>3, <2>4, <2>5 DEF DescribeStateMachine
<1>. QED  BY <1>1, <1>2


-----------------------------------------------------------------------------
(* The triggers *)

LEMMA DeletesRules ==
  ASSUME IInv, ServicesKept, ServicesInform, RulesOwn, NEW p \in Procs, EB!Work(p),
         ebPc'[p] = "ok", TriggerOp(cmd[p]) = "delete", NEW a, a = cmd[p].alias
  PROVE  Starts("rule", a)' = {}
<1>1. EB!Running(p)
  BY RulesWork
<1>2. cmd[p].op = "delete"
  BY DEF TriggerOp
<1>3. ebReq[p].alias = a /\ a # Unknown /\ ebReq[p].wanted = {}
  BY <1>1, <1>2, RulesAsked
<1>. QED  BY <1>3, RulesDone DEF RequestOf

LEMMA DeploysRules ==
  ASSUME IInv, ServicesKept, ServicesInform, DoneSoFar, NEW p \in Procs,
         stage[p] = "rules", EB!Work(p), UNCHANGED SchedulesThere,
         TriggerOp(cmd[p]) = "deploy", NEW c, c = cmd[p], NEW a, a = c.alias
  PROVE  /\ \/ c.skipMachine \/ own[p].found
            \/ Starts("rule", a)' = {} /\ Starts("schedule", a)' = {}
         /\ ebPc'[p] = "ok" /\ LooksFor(c, c.rules) => Starts("rule", a)' = ConfiguredRules(c)
<1>0. /\ EB!Running(p) /\ Carried(p) /\ RulesOwn
      /\ own[p].found \in BOOLEAN /\ c.op = "deploy" /\ c \in Commands
  BY RulesWork, DoneParts, Before DEF Memory, TriggerOp
<1>1. ebReq[p] = RuleRequest(c, own[p].found)
  BY <1>0, CarriedParts
<1>2. /\ ebReq[p].alias = (IF own[p].found THEN a ELSE Unknown)
      /\ a \in Aliases /\ a # Unknown
  BY <1>0, <1>1, RequestFields DEF RuleRequest
<1>3. ebReq[p].wanted = c.rules
  BY <1>0, <1>1, RequestWants DEF RuleRequest
<1>4. ASSUME ~c.skipMachine, ~own[p].found
      PROVE  Starts("rule", a)' = {} /\ Starts("schedule", a)' = {}
  <2>1. NothingStarts(a)
    BY <1>0, <1>4, CarriedParts DEF WithTriggers
  <2>2. Starts("rule", a)' \subseteq Starts("rule", a)
    BY <1>2, <1>4, RulesStartNoMore
  <2>3. Starts("schedule", a)' = Starts("schedule", a)
    BY StartsStay
  <2>. QED  BY <2>1, <2>2, <2>3 DEF NothingStarts, Kinds
<1>5. ASSUME ebPc'[p] = "ok", LooksFor(c, c.rules)
      PROVE  Starts("rule", a)' = ConfiguredRules(c)
  <2>1. CASE own[p].found
    BY <1>0, <1>2, <1>3, <1>5, <2>1, RulesDone DEF RequestOf, ConfiguredRules
  <2>2. CASE ~own[p].found
    <3>1. c.rules = {}
      BY <1>0, <1>2, <1>3, <1>5, <2>2, RulesDone DEF RequestOf
    <3>2. ~c.skipMachine
      BY <1>5, <3>1 DEF LooksFor
    <3>. QED  BY <1>4, <2>2, <3>1, <3>2 DEF ConfiguredRules
  <2>. QED  BY <2>1, <2>2
<1>. QED  BY <1>4, <1>5

(* The delete goes on to its schedules, or has none to delete. *)
LEMMA ResumeCarries ==
  ASSUME IInv, NEW p \in Procs, ResumeSchedules(p), TriggerOp(cmd[p]) = "delete",
         status' = "DELETING", NEW a, a = cmd[p].alias, Starts("rule", a)' = {}
  PROVE  Carried(p)'
<1>0. AppOK /\ own[p] \in Memory
  BY Before
<1>1. Enter(p, "schedules", own[p]) \/ Enter(p, "ok", own[p])
  BY DEF ResumeSchedules
<1>2. CASE Enter(p, "ok", own[p])
  BY <1>0, <1>2, EnterFrame, CarriedThere DEF Ended
<1>3. CASE Enter(p, "schedules", own[p])
  <2>1. stage'[p] = "schedules" /\ cmd'[p] = cmd[p]
    BY <1>0, <1>3, GoesOn, StageNames
  <2>2. PICK c : c = cmd[p]
    OBVIOUS
  <2>. QED  BY <2>1, <2>2, CarriedOn
<1>. QED  BY <1>1, <1>2, <1>3

LEMMA RulesStepCarries ==
  ASSUME IInv, ServicesKept, ServicesInform, DoneSoFar, NEW p \in Procs, RulesStep(p)
  PROVE  Carried(p)'
<1>0. /\ AppOK /\ Local(p) /\ own[p] \in Memory /\ stage[p] = "rules" /\ EB!Work(p)
      /\ Carried(p) /\ RulesOwn /\ AfterRules(p, ebPc'[p]) /\ EB!Running(p)
  BY Before, DoneParts, RulesWork DEF RulesStep
<1>1. UNCHANGED Rest /\ UNCHANGED SchedulesThere
  BY <1>0, OneWrites DEF Step
<1>2. PICK c : c = cmd[p]
  OBVIOUS
<1>3. PICK a : a = c.alias
  OBVIOUS
<1>4. TriggerOp(c) = "deploy" /\ ~c.skipMachine => routing'[a] = {published'}
  BY <1>0, <1>1, <1>2, <1>3, CarriedParts DEF WithTriggers, Rest
<1>5. TriggerOp(c) = "deploy" =>
        /\ \/ c.skipMachine \/ own[p].found
           \/ Starts("rule", a)' = {} /\ Starts("schedule", a)' = {}
        /\ ebPc'[p] = "ok" /\ LooksFor(c, c.rules) =>
             Starts("rule", a)' = ConfiguredRules(c)
  BY <1>0, <1>1, <1>2, <1>3, DeploysRules
<1>6. CASE ebPc'[p] = "ok" /\ c.op = "deploy" /\ Enter(p, "arn for schedules", own[p])
  <2>1. stage'[p] = "arn for schedules" /\ own'[p] = own[p] /\ cmd'[p] = c
    BY <1>0, <1>2, <1>6, GoesOn, StageNames
  <2>. QED  BY <1>3, <1>4, <1>5, <1>6, <2>1, CarriedOn
<1>7. CASE /\ Searched(ebPc'[p]) \/ (ebPc'[p] = "ok" /\ TriggerOp(c) = "look")
           /\ Enter(p, "schedules", own[p])
  <2>1. stage'[p] = "schedules" /\ own'[p] = own[p] /\ cmd'[p] = c
    BY <1>0, <1>2, <1>7, GoesOn, StageNames
  <2>2. CASE Searched(ebPc'[p])
    <3>1. TriggerOp(c) = "delete" /\ EB!Running(p)'
      BY <1>0, <1>2, <2>2, SearchedRules DEF Searched, EB!Running, EB!Calls
    <3>. QED  BY <2>1, <3>1, CarriedOn
  <2>3. CASE TriggerOp(c) = "look"
    BY <2>1, <2>3, CarriedOn
  <2>. QED  BY <1>7, <2>2, <2>3
<1>8. CASE ebPc'[p] = "ok" /\ TriggerOp(c) = "delete" /\ ResumeSchedules(p)
  <2>1. Starts("rule", a)' = {}
    BY <1>0, <1>2, <1>3, <1>8, DeletesRules
  <2>2. SC!Running(p)
    BY <1>8 DEF ResumeSchedules, SC!DeleteStateMachine, SC!Running, SC!Calls
  <2>3. status' = "DELETING"
    BY <1>0, <1>1, <2>2 DEF Local, Placed, Rest
  <2>. QED  BY <1>2, <1>3, <1>8, <2>1, <2>3, ResumeCarries
<1>9. CASE Enter(p, "error", Fresh)
  BY <1>0, <1>9, EnterFrame, CarriedThere DEF Ended
<1>10. CASE Enter(p, "rules", own[p])
  <2>1. stage'[p] = "rules" /\ own'[p] = own[p] /\ cmd'[p] = c
    BY <1>0, <1>2, <1>10, GoesOn, StageNames
  <2>2. TriggerOp(c) = "deploy" /\ EB!Running(p)' =>
          ebReq'[p] = RuleRequest(c, own[p].found)
    BY <1>0, <1>2, RulesWork, CarriedParts
  <2>. QED  BY <1>3, <1>4, <1>5, <2>1, <2>2, CarriedOn
<1>. QED
  BY <1>0, <1>2, <1>6, <1>7, <1>8, <1>9, <1>10, AfterRulesCases

LEMMA DeploysSchedules ==
  ASSUME IInv, ServicesKept, ServicesInform, DoneSoFar, NEW p \in Procs,
         stage[p] = "schedules", SC!Work(p), UNCHANGED RulesThere,
         TriggerOp(cmd[p]) = "deploy", NEW c, c = cmd[p], NEW a, a = c.alias
  PROVE  /\ \/ c.skipMachine \/ own[p].found
            \/ Starts("rule", a)' = {} /\ Starts("schedule", a)' = {}
         /\ LooksFor(c, c.rules) => Starts("rule", a)' = ConfiguredRules(c)
         /\ scPc'[p] = "ok" /\ LooksFor(c, c.schedules) =>
              Starts("schedule", a)' = ConfiguredSchedules(c)
<1>0. /\ SC!Running(p) /\ Carried(p)
      /\ own[p].found \in BOOLEAN /\ c.op = "deploy" /\ c \in Commands
  BY SchedulesWork, DoneParts, Before DEF Memory, TriggerOp
<1>1. scReq[p] = ScheduleRequest(c, own[p].found)
  BY <1>0, CarriedParts
<1>2. /\ scReq[p].alias = (IF own[p].found THEN a ELSE Unknown)
      /\ a \in Aliases /\ a # Unknown
  BY <1>0, <1>1, RequestFields DEF ScheduleRequest
<1>3. scReq[p].wanted = c.schedules
  BY <1>0, <1>1, RequestWants DEF ScheduleRequest
<1>4. Starts("rule", a)' = Starts("rule", a)
  BY StartsStay
<1>5. LooksFor(c, c.rules) => Starts("rule", a)' = ConfiguredRules(c)
  BY <1>0, <1>4, CarriedParts
<1>6. ASSUME ~c.skipMachine, ~own[p].found
      PROVE  Starts("rule", a)' = {} /\ Starts("schedule", a)' = {}
  <2>1. NothingStarts(a)
    BY <1>0, <1>6, CarriedParts DEF WithTriggers
  <2>2. Starts("schedule", a)' \subseteq Starts("schedule", a)
    BY <1>2, <1>6, SchedulesStartNoMore
  <2>. QED  BY <1>4, <2>1, <2>2 DEF NothingStarts, Kinds
<1>7. ASSUME scPc'[p] = "ok", LooksFor(c, c.schedules)
      PROVE  Starts("schedule", a)' = ConfiguredSchedules(c)
  <2>1. CASE own[p].found
    BY <1>0, <1>2, <1>3, <1>7, <2>1, SchedulesDone DEF RequestOf, ConfiguredSchedules
  <2>2. CASE ~own[p].found
    <3>1. c.schedules = {}
      BY <1>0, <1>2, <1>3, <1>7, <2>2, SchedulesDone DEF RequestOf
    <3>2. ~c.skipMachine
      BY <1>7, <3>1 DEF LooksFor
    <3>. QED  BY <1>6, <2>2, <3>1, <3>2 DEF ConfiguredSchedules
  <2>. QED  BY <2>1, <2>2
<1>. QED  BY <1>5, <1>6, <1>7

LEMMA SchedulesStepCarries ==
  ASSUME IInv, ServicesKept, ServicesInform, DoneSoFar, NEW p \in Procs, SchedulesStep(p)
  PROVE  Carried(p)'
<1>0. /\ AppOK /\ own[p] \in Memory /\ stage[p] = "schedules" /\ SC!Work(p)
      /\ Carried(p) /\ AfterSchedules(p, scPc'[p]) /\ UNCHANGED machine
  BY Before, DoneParts DEF SchedulesStep
<1>1. UNCHANGED Rest /\ UNCHANGED RulesThere
  <2>1. UNCHANGED bus \/ EB!Crash(p)
    BY <1>0 DEF AfterSchedules
  <2>. QED  BY <1>0, <2>1 DEF machine, bus, EB!Crash, EB!bus, Rest, RulesThere
<1>2. PICK c : c = cmd[p]
  OBVIOUS
<1>3. PICK a : a = c.alias
  OBVIOUS
<1>4. TriggerOp(c) = "deploy" /\ ~c.skipMachine => routing'[a] = {published'}
  BY <1>0, <1>1, <1>2, <1>3, CarriedParts DEF WithTriggers, Rest
<1>5. TriggerOp(c) = "deploy" =>
        /\ \/ c.skipMachine \/ own[p].found
           \/ Starts("rule", a)' = {} /\ Starts("schedule", a)' = {}
        /\ LooksFor(c, c.rules) => Starts("rule", a)' = ConfiguredRules(c)
  BY <1>0, <1>1, <1>2, <1>3, DeploysSchedules
<1>6. CASE \E l \in Ended : \E m : Enter(p, l, m)
  BY <1>0, <1>6, EnterFrame, CarriedThere
<1>7. CASE \E l \in {"confirm", "DeleteStateMachine"} : Enter(p, l, own[p])
  BY <1>0, <1>7, EnterFrame, StageNames, CarriedThere
<1>8. CASE Enter(p, "schedules", own[p]) /\ UNCHANGED bus
  <2>1. stage'[p] = "schedules" /\ own'[p] = own[p] /\ cmd'[p] = c
    BY <1>0, <1>2, <1>8, GoesOn, StageNames
  <2>2. EB!Running(p)' <=> EB!Running(p)
    BY <1>8, StillStopped
  <2>3. TriggerOp(c) = "deploy" =>
          /\ ~EB!Running(p)'
          /\ SC!Running(p)' => scReq'[p] = ScheduleRequest(c, own[p].found)
    BY <1>0, <1>2, <2>2, SchedulesWork, CarriedParts
  <2>4. TriggerOp(c) = "delete" /\ ~EB!Running(p)' =>
          status' = "DELETING" /\ Starts("rule", a)' = {}
    <3>1. Starts("rule", a)' = Starts("rule", a)
      BY <1>1, StartsStay
    <3>. QED  BY <1>0, <1>1, <1>2, <1>3, <2>2, <3>1, CarriedParts DEF Rest
  <2>. QED  BY <1>3, <1>4, <1>5, <2>1, <2>3, <2>4, CarriedOn
<1>9. \/ \E l \in Ended : \E m : Enter(p, l, m)
      \/ \E l \in {"confirm", "DeleteStateMachine"} : Enter(p, l, own[p])
      \/ Enter(p, "schedules", own[p]) /\ UNCHANGED bus
  <2>1. "ok" \in Ended /\ "error" \in Ended
    BY DEF Ended
  <2>. QED  BY <1>0, <2>1 DEF AfterSchedules, Searched
<1>. QED  BY <1>6, <1>7, <1>8, <1>9

-----------------------------------------------------------------------------
(* Delete, starting and ending *)

(* The state machine is on its way out once its deletion has been asked for. *)
LEMMA DeletionLeaves ==
  ASSUME IInv, NEW p \in Procs, DeleteStateMachine(p)
  PROVE  status' = "DELETING"
<1>1. status \in {"ACTIVE", "DELETING"} /\ (own[p].deleting => status = "DELETING")
  <2>1. Local(p) /\ SF!IInv /\ stage[p] = "DeleteStateMachine"
    BY Before DEF IInv, DeleteStateMachine
  <2>. QED  BY <2>1 DEF SF!IInv, SF!TypeOK, SF!CloudOK, Local, Placed
<1>2. CASE ~own[p].deleting /\ status = "ACTIVE"
  BY <1>2 DEF DeleteStateMachine, SF!DeletionStarts
<1>3. CASE ~(~own[p].deleting /\ status = "ACTIVE")
  BY <1>1, <1>3 DEF DeleteStateMachine, machine
<1>. QED  BY <1>2, <1>3

LEMMA DeleteStateMachineCarries ==
  ASSUME IInv, ServicesKept, ServicesInform, DoneSoFar, NEW p \in Procs,
         DeleteStateMachine(p)
  PROVE  Carried(p)'
<1>0. /\ AppOK /\ Local(p) /\ own[p] \in Memory /\ EB!IInv /\ RulesOwn
      /\ stage[p] = "DeleteStateMachine" /\ EB!DeleteStateMachine(p) /\ EB!Work(p)
      /\ Resume(p)
  BY Before, DoneParts DEF IInv, DeleteStateMachine, Resume, EB!Work
<1>1. TriggerOp(cmd[p]) = "delete"
  BY <1>0 DEF Local, Placed
<1>2. PICK c : c = cmd[p]
  OBVIOUS
<1>3. PICK a : a = c.alias
  OBVIOUS
<1>4. CASE EB!Running(p)'
  <2>1. Enter(p, "rules", own[p])
    BY <1>0, <1>4 DEF Resume
  <2>2. stage'[p] = "rules" /\ own'[p] = own[p] /\ cmd'[p] = c
    BY <1>0, <1>2, <2>1, GoesOn, StageNames
  <2>. QED  BY <1>1, <1>2, <2>2, CarriedOn
<1>5. CASE ~EB!Running(p)'
  <2>1. ResumeSchedules(p)
    BY <1>0, <1>5 DEF Resume
  <2>2. ebPc'[p] = "ok"
    BY <1>0, <1>5, RulesAssumptions, EB!DeletionGoesOn DEF EB!Running, EB!Calls
  <2>3. Starts("rule", a)' = {}
    BY <1>0, <1>1, <1>2, <1>3, <2>2, DeletesRules
  <2>. QED  BY <1>1, <1>2, <1>3, <2>1, <2>3, DeletionLeaves, ResumeCarries
<1>. QED  BY <1>4, <1>5

LEMMA OthersCarry ==
  ASSUME IInv, NEW p \in Procs,
         \/ DeleteAgain(p) \/ DeleteFails(p) \/ CallFails(p)
         \/ Confirm(p) \/ Refuse(p) \/ Crash(p)
  PROVE  Carried(p)'
<1>0. AppOK /\ own[p] \in Memory
  BY Before
<1>1. CASE DeleteFails(p) \/ CallFails(p) \/ Refuse(p) \/ Crash(p)
  <2>1. PICK l \in {"error", "crashed"} : Enter(p, l, Fresh)
    BY <1>1 DEF DeleteFails, CallFails, Refuse, Crash
  <2>. QED  BY <1>0, <2>1, EnterFrame, CarriedThere DEF Ended
<1>2. CASE Confirm(p)
  BY <1>0, <1>2, EnterFrame, StageNames, CarriedThere DEF Confirm
<1>3. CASE DeleteAgain(p)
  <2>1. stage' = [stage EXCEPT ![p] = "DeleteStateMachine"] /\ p \in DOMAIN stage
    BY <1>0, <1>3 DEF DeleteAgain, Enter, AppOK
  <2>. QED  BY <2>1, CarriedThere
<1>. QED  BY <1>1, <1>2, <1>3

LEMMA StartCarries ==
  ASSUME IInv, NEW p \in Procs, NEW c \in Commands, Start(p, c)
  PROVE  Carried(p)'
<1>0. AppOK /\ Local(p) /\ stage[p] \in Ended
  BY Before DEF Start, Busy
<1>1. cmd'[p] = c /\ own'[p] = own[p]
  BY <1>0 DEF Start, AppOK
<1>2. CASE OnMachine(c)
  <2>1. stage'[p] = "machine"
    BY <1>0, <1>2 DEF Start, AppOK, OnMachine
  <2>3. SF!Start(p, MachineOption(c))
    BY <1>2 DEF Start
  <2>2. sfPc'[p] = "DescribeStateMachine"
    BY <2>3 DEF SF!Start, IInv, SF!IInv, SF!TypeOK, SF!ProcsOK
  <2>. QED  BY <1>1, <2>1, <2>2, CarriedOn DEF WithTriggers
<1>3. CASE ~OnMachine(c) /\ c.op = "deploy" /\ c.skipMachine
  <2>1. stage'[p] = "arn for rules"
    BY <1>0, <1>3 DEF Start, AppOK
  <2>. QED  BY <1>1, <1>3, <2>1, CarriedOn DEF WithTriggers
<1>4. CASE ~OnMachine(c) /\ ~(c.op = "deploy" /\ c.skipMachine)
  <2>1. stage'[p] = "describe"
    BY <1>0, <1>4 DEF Start, AppOK
  <2>. QED  BY <2>1, CarriedThere
<1>. QED  BY <1>2, <1>3, <1>4


-----------------------------------------------------------------------------
(* Every step keeps what has been done so far *)

ProcessSteps(p) == Step(p) \/ Confirm(p) \/ Refuse(p) \/ Crash(p)

LEMMA ProcessCarries ==
  ASSUME IInv, ServicesKept, ServicesInform, DoneSoFar, NEW p \in Procs, ProcessSteps(p)
  PROVE  Carried(p)'
BY MachineStepCarries, GetArnForRulesCarries, GetArnForSchedulesCarries, DescribeCarries,
   RulesStepCarries, SchedulesStepCarries, DeleteStateMachineCarries, OthersCarry
   DEF ProcessSteps, Step

(* Without a state machine there is nothing that a step makes start.       *)
LEMMA NothingBeforeKept ==
  ASSUME IInv, NothingBefore, NEW p \in Procs, ProcessSteps(p)
  PROVE  NothingBefore'
<1>1. status' = "ABSENT" => status = "ABSENT"
  <2>1. MachineMoves(p) \/ SF!DeletionStarts
    BY StepMoves DEF ProcessSteps
  <2>. QED  BY <2>1, MachineFrame DEF Advances
<1>2. SUFFICES ASSUME status = "ABSENT", NEW a \in Aliases
               PROVE  Starts("rule", a)' = {} /\ Starts("schedule", a)' = {}
  <2>1. ASSUME \A a \in Aliases : Starts("rule", a)' = {} /\ Starts("schedule", a)' = {}
        PROVE  \A a \in Aliases : NothingStarts(a)'
    BY <2>1 DEF NothingStarts, Kinds
  <2>. QED  BY <1>1, <2>1 DEF NothingBefore
<1>3. Starts("rule", a) = {} /\ Starts("schedule", a) = {}
  BY <1>2 DEF NothingBefore, NothingStarts, Kinds
<1>4. Starts("rule", a)' \subseteq Starts("rule", a)
  <2>1. CASE UNCHANGED RulesThere
    BY <2>1, StartsStay
  <2>2. CASE EB!Work(p)
    <3>1. ebReq[p].alias = Unknown /\ a # Unknown
      BY <1>2, <2>2, RulesWork, RulesAsked, TriggersAssumption
    <3>. QED  BY <2>2, <3>1, RulesStartNoMore
  <2>. QED  BY <2>1, <2>2, OneWrites DEF ProcessSteps
<1>5. Starts("schedule", a)' \subseteq Starts("schedule", a)
  <2>1. CASE UNCHANGED SchedulesThere
    BY <2>1, StartsStay
  <2>2. CASE SC!Work(p)
    <3>1. scReq[p].alias = Unknown /\ a # Unknown
      BY <1>2, <2>2, SchedulesWork, SchedulesAsked, TriggersAssumption
    <3>. QED  BY <2>2, <3>1, SchedulesStartNoMore
  <2>. QED  BY <2>1, <2>2, OneWrites DEF ProcessSteps
<1>. QED  BY <1>3, <1>4, <1>5

LEMMA DoneInit == Init => DoneSoFar
<1> SUFFICES ASSUME Init PROVE DoneSoFar
  OBVIOUS
<1>1. /\ exists = {} /\ \A r \in Rules, i \in Ids : ruleTarget[r][i] = EB!Nothing
      /\ \A g \in SC!Groups, n \in Names : target[g][n] = SC!Nothing
  BY DEF Init, EB!Init, SC!Init
<1>2. RulesOwn
  BY <1>1 DEF RulesOwn
<1>3. NothingBefore
  BY <1>1, TriggersAssumption
     DEF NothingBefore, NothingStarts, Starts, Triggers, TargetOf, Kinds, EB!Nothing, SC!Nothing
<1>4. ASSUME NEW p \in Procs PROVE Carried(p)
  BY DEF Init, Carried, DeployedSoFar, DeletedSoFar, WithTriggers
<1>. QED  BY <1>2, <1>3, <1>4, DoneParts

LEMMA DonePartsNext ==
  DoneSoFar' <=> RulesOwn' /\ NothingBefore' /\ \A p \in Procs : Carried(p)'
BY DEF DoneSoFar, RulesOwn, NothingBefore, Carried, DeployedSoFar, DeletedSoFar

LEMMA DoneNext ==
  ASSUME SF!OneProcess, IInv, ServicesInform, DoneSoFar, [Next]_vars
  PROVE  DoneSoFar'
<1>0. /\ ServicesKept /\ RulesOwn /\ NothingBefore
      /\ \A p, q \in Procs : p = q
      /\ \A p \in Procs : Carried(p)
  BY ServicesKeep, DoneParts DEF ServicesKept, SF!OneProcess
<1>1. ASSUME NEW p \in Procs, ProcessSteps(p)
      PROVE  DoneSoFar'
  <2>1. RulesOwn'
    <3>1. CASE EB!Work(p)
      BY <1>0, <3>1, RulesOwnKept
    <3>2. CASE UNCHANGED RulesThere
      BY <1>0, <3>2 DEF RulesOwn, RulesThere
    <3>. QED  BY <1>1, <3>1, <3>2, OneWrites DEF ProcessSteps
  <2>2. NothingBefore'
    BY <1>0, <1>1, NothingBeforeKept
  <2>3. \A q \in Procs : Carried(q)'
    BY <1>0, <1>1, ProcessCarries
  <2>. QED  BY <2>1, <2>2, <2>3, DonePartsNext
<1>2. ASSUME UNCHANGED <<Rest, RulesThere, SchedulesThere>>
      PROVE  RulesOwn' /\ NothingBefore'
  BY <1>0, <1>2
     DEF RulesOwn, NothingBefore, NothingStarts, Starts, TargetOf, Rest, RulesThere, SchedulesThere
<1>3. ASSUME NEW p \in Procs, NEW c \in Commands, Start(p, c)
      PROVE  DoneSoFar'
  <2>1. \A q \in Procs : Carried(q)'
    BY <1>0, <1>3, StartCarries
  <2>. QED  BY <1>2, <1>3, <2>1, NobodyWrites, DonePartsNext
<1>4. ASSUME MachineGone \/ UNCHANGED vars
      PROVE  DoneSoFar'
  <2>1. UNCHANGED <<machine, bus, scheduler, stage, cmd, own>>
    BY <1>4 DEF MachineGone, vars, app
  <2>2. ASSUME NEW p \in Procs PROVE Carried(p)'
    <3>1. Carried(p)
      BY <1>0
    <3>. QED
      BY <2>1, <3>1 DEF Carried, DeployedSoFar, DeletedSoFar, NothingStarts, Starts, TargetOf,
         machine, bus, scheduler, EB!Running, SC!Running
  <2>. QED  BY <1>2, <1>4, <2>2, NobodyWrites, DonePartsNext
<1>. QED  BY <1>1, <1>3, <1>4 DEF Next, ProcessSteps

LEMMA OneDone ==
  ASSUME SF!OneProcess
  PROVE  Spec => [](IInv /\ ServicesInform /\ DoneSoFar)
<1>1. EB!OneProcess /\ SC!OneProcess
  BY DEF SF!OneProcess, EB!OneProcess, SC!OneProcess
<1>2. SF!Spec => [](SF!IInv /\ SF!Informs)
  BY NobodyByHand, MachineAssumptions, SF!OneInformed
<1>3. EB!Spec => [](EB!IInv /\ EB!Informs)
  BY <1>1, RulesAssumptions, EB!OneInformed
<1>4. SC!Spec => [](SC!IInv /\ SC!Informs)
  BY <1>1, NobodyByHand, SchedulesAssumptions, SC!OneInformed
<1>5. SF!Informs /\ EB!Informs /\ SC!Informs => ServicesInform
  BY DEF ServicesInform
<1>6. Init => DoneSoFar
  BY DoneInit
<1>7. IInv /\ ServicesInform /\ DoneSoFar /\ [Next]_vars => DoneSoFar'
  BY DoneNext
<1>. QED
  BY <1>2, <1>3, <1>4, <1>5, <1>6, <1>7, Invariance, RunsItsServices, PTL DEF Spec


(* What the commands have done at each stage: a deployment carries its     *)
(* release, then its rules, to the schedules, a delete comes to the        *)
(* schedules for good with the rules gone, and only a trigger put for a    *)
(* state machine is there (deploy.go:82-98; delete.go:63-80).              *)
THEOREM WorkDone ==
  ASSUME SF!OneProcess
  PROVE  Spec => []DoneSoFar
<1>. QED  BY OneDone, PTL

-----------------------------------------------------------------------------
(* Commands that end well *)

LEMMA EnterStage ==
  ASSUME AppOK, NEW p \in Procs, NEW l, NEW m, Enter(p, l, m)
  PROVE  stage'[p] = l
BY DEF Enter, AppOK

(* The steps in which a command comes to its good end. *)
LEMMA EndsWell ==
  ASSUME IInv, NEW p \in Procs, ProcessSteps(p), Busy(p), stage'[p] = "ok"
  PROVE  \/ MachineStep(p) /\ ~SF!Running(p)' /\ AfterMachine(cmd[p], sfPc'[p]) = "ok"
         \/ GetArnForSchedules(p) /\ cmd[p].dryRun
         \/ DescribeStateMachine(p) /\ WithoutMachine(cmd[p]) = "ok"
         \/ DescribeLatest(p)
         \/ /\ RulesStep(p) /\ ebPc'[p] = "ok" /\ TriggerOp(cmd[p]) = "delete"
            /\ ResumeSchedules(p)
         \/ SchedulesStep(p) /\ scPc'[p] = "ok" /\ ~EB!Running(p)
         \/ DeleteStateMachine(p) /\ ~EB!Running(p)' /\ ResumeSchedules(p)
<1>0. AppOK
  BY Before
<1>1. CASE MachineStep(p)
  <2>1. ~SF!Running(p)'
    <3>1. SUFFICES ASSUME SF!Running(p)' PROVE stage'[p] = "machine"
      OBVIOUS
    <3>2. PICK m : Enter(p, "machine", m)
      BY <1>1, <3>1 DEF MachineStep
    <3>. QED  BY <1>0, <3>2, EnterStage
  <2>2. Enter(p, AfterMachine(cmd[p], sfPc'[p]), own[p])
    BY <1>1, <2>1 DEF MachineStep
  <2>3. AfterMachine(cmd[p], sfPc'[p]) = "ok"
    BY <1>0, <2>2, EnterStage
  <2>. QED  BY <1>1, <2>1, <2>3
<1>2. CASE GetArnForRules(p)
  BY <1>0, <1>2, EnterStage DEF GetArnForRules
<1>3. CASE GetArnForSchedules(p)
  BY <1>0, <1>3, EnterStage DEF GetArnForSchedules
<1>4. CASE DescribeStateMachine(p)
  BY <1>0, <1>4, EnterStage DEF DescribeStateMachine
<1>5. CASE DescribeLatest(p)
  BY <1>5
<1>6. CASE RulesStep(p)
  BY <1>0, <1>6, EnterStage, AfterRulesCases DEF RulesStep
<1>7. CASE SchedulesStep(p)
  BY <1>0, <1>7, EnterStage DEF SchedulesStep, AfterSchedules, Searched
<1>8. CASE DeleteStateMachine(p)
  BY <1>0, <1>8, EnterStage DEF DeleteStateMachine, Resume
<1>9. CASE DeleteAgain(p)
  BY <1>0, <1>9, EnterStage DEF DeleteAgain
<1>10. CASE DeleteFails(p) \/ CallFails(p) \/ Confirm(p) \/ Refuse(p) \/ Crash(p)
  BY <1>0, <1>10, EnterStage DEF DeleteFails, CallFails, Confirm, Refuse, Crash
<1>. QED
  BY <1>1, <1>2, <1>3, <1>4, <1>5, <1>6, <1>7, <1>8, <1>9, <1>10 DEF ProcessSteps, Step

LEMMA DeploymentEnds ==
  ASSUME IInv, ServicesKept, ServicesInform, DoneSoFar, NEW p \in Procs,
         ProcessSteps(p), Busy(p), stage'[p] = "ok", TriggerOp(cmd[p]) = "deploy",
         NEW c, c = cmd[p], NEW a, a = c.alias
  PROVE  /\ ~c.skipMachine => routing'[a] = {published'}
         /\ LooksFor(c, c.rules) => Starts("rule", a)' = ConfiguredRules(c)
         /\ LooksFor(c, c.schedules) => Starts("schedule", a)' = ConfiguredSchedules(c)
<1>0. Local(p) /\ Carried(p) /\ c.op = "deploy" /\ ~c.dryRun
  BY Before, DoneParts DEF TriggerOp, ReadOnly
<1>1. CASE MachineStep(p) /\ AfterMachine(c, sfPc'[p]) = "ok"
  <2>1. sfPc'[p] = "ok" /\ c.skipTrigger
    BY <1>0, <1>1 DEF AfterMachine
  <2>2. routing'[a] = {published'}
    BY <1>1, <2>1, MachineDone
  <2>. QED  BY <2>1, <2>2 DEF LooksFor
<1>2. CASE SchedulesStep(p) /\ scPc'[p] = "ok" /\ ~EB!Running(p)
  <2>1. /\ stage[p] = "schedules" /\ SC!Work(p) /\ UNCHANGED machine
        /\ UNCHANGED bus \/ EB!Crash(p)
    BY <1>2 DEF SchedulesStep, AfterSchedules
  <2>2. UNCHANGED Rest /\ UNCHANGED RulesThere
    BY <2>1 DEF machine, bus, EB!Crash, EB!bus, Rest, RulesThere
  <2>3. ~c.skipMachine => routing'[a] = {published'}
    BY <1>0, <2>1, <2>2, CarriedParts DEF WithTriggers, Rest
  <2>. QED  BY <1>2, <2>1, <2>2, <2>3, DeploysSchedules
<1>3. ~DescribeStateMachine(p) /\ ~DescribeLatest(p)
  BY <1>0 DEF DescribeStateMachine, DescribeLatest, Local, Placed, Carried
<1>4. ~DeleteStateMachine(p)
  BY <1>0 DEF DeleteStateMachine, Local, Placed
<1>. QED  BY <1>0, <1>1, <1>2, <1>3, <1>4, EndsWell

LEMMA DeletionEnds ==
  ASSUME IInv, ServicesKept, ServicesInform, DoneSoFar, NEW p \in Procs,
         ProcessSteps(p), Busy(p), stage'[p] = "ok", TriggerOp(cmd[p]) = "delete",
         NEW a, a = cmd[p].alias
  PROVE  /\ status' = "DELETING"
         /\ Starts("rule", a)' = {} /\ Starts("schedule", a)' = {}
<1>0. /\ AppOK /\ Local(p) /\ Carried(p) /\ RulesOwn /\ cmd[p].op = "delete" /\ ~cmd[p].dryRun
      /\ SC!IInv /\ EB!IInv
  BY Before, DoneParts DEF TriggerOp, ReadOnly, IInv
<1>1. ASSUME SC!Work(p), scPc'[p] = "ok"
      PROVE  Starts("schedule", a)' = {}
  <2>1. SC!Running(p)
    BY <1>1, SchedulesWork
  <2>2. scReq[p].alias = a /\ a # Unknown /\ scReq[p].wanted = {}
    BY <1>0, <2>1, SchedulesAsked
  <2>. QED  BY <1>1, <2>2, SchedulesDone DEF RequestOf
<1>2. ASSUME ResumeSchedules(p)
      PROVE  SC!Work(p) /\ scPc'[p] = "ok"
  <2>1. SC!DeleteStateMachine(p) /\ ~SC!Running(p)'
    <3>1. SC!DeleteStateMachine(p)
          /\ Enter(p, IF SC!Running(p)' THEN "schedules" ELSE "ok", own[p])
      BY <1>2 DEF ResumeSchedules
    <3>2. (IF SC!Running(p)' THEN "schedules" ELSE "ok") = "ok"
      BY <1>0, <3>1, EnterStage
    <3>. QED  BY <3>1, <3>2
  <2>2. scPc'[p] \in {"ok"} \cup SC!Calls
    BY <1>0, <2>1, SchedulesAssumptions, SC!DeletionGoesOn
  <2>. QED  BY <2>1, <2>2 DEF SC!Work, SC!Running
<1>3. CASE RulesStep(p) /\ ebPc'[p] = "ok" /\ ResumeSchedules(p)
  <2>1. stage[p] = "rules" /\ EB!Work(p) /\ UNCHANGED machine
    BY <1>3 DEF RulesStep
  <2>2. SC!Running(p)
    BY <1>3 DEF ResumeSchedules, SC!DeleteStateMachine, SC!Running, SC!Calls
  <2>3. status' = "DELETING"
    BY <1>0, <2>1, <2>2 DEF Local, Placed, machine
  <2>. QED  BY <1>0, <1>1, <1>2, <1>3, <2>1, <2>3, DeletesRules
<1>4. CASE SchedulesStep(p) /\ scPc'[p] = "ok" /\ ~EB!Running(p)
  <2>1. /\ stage[p] = "schedules" /\ SC!Work(p) /\ UNCHANGED machine
        /\ UNCHANGED bus \/ EB!Crash(p)
    BY <1>4 DEF SchedulesStep, AfterSchedules
  <2>2. UNCHANGED Rest /\ UNCHANGED RulesThere
    BY <2>1 DEF machine, bus, EB!Crash, EB!bus, Rest, RulesThere
  <2>3. Starts("rule", a)' = Starts("rule", a)
    BY <2>2, StartsStay
  <2>4. status = "DELETING" /\ Starts("rule", a) = {}
    BY <1>0, <1>4, <2>1, CarriedParts
  <2>. QED  BY <1>1, <1>4, <2>1, <2>2, <2>3, <2>4 DEF Rest
<1>5. CASE DeleteStateMachine(p) /\ ~EB!Running(p)' /\ ResumeSchedules(p)
  <2>1. EB!DeleteStateMachine(p) /\ EB!Work(p)
    BY <1>5 DEF DeleteStateMachine, Resume, EB!Work
  <2>2. ebPc'[p] = "ok"
    BY <1>0, <1>5, <2>1, RulesAssumptions, EB!DeletionGoesOn DEF EB!Running, EB!Calls
  <2>3. Starts("rule", a)' = {}
    BY <1>0, <2>1, <2>2, DeletesRules
  <2>. QED  BY <1>1, <1>2, <1>5, <2>3, DeletionLeaves
<1>6. ~MachineStep(p)
  BY <1>0 DEF MachineStep, Local, Asked, OnMachine
<1>7. ~(DescribeStateMachine(p) /\ WithoutMachine(cmd[p]) = "ok") /\ ~DescribeLatest(p)
  BY <1>0 DEF DescribeLatest, Carried, WithoutMachine
<1>. QED  BY <1>0, <1>3, <1>4, <1>5, <1>6, <1>7, EndsWell

(* With one process a step that ends its command is its own. *)
LEMMA OneEnds ==
  ASSUME SF!OneProcess, IInv, [Next]_vars, NEW p \in Procs, Succeeds(p)
  PROVE  ProcessSteps(p)
<1>0. AppOK /\ stage[p] # "ok" /\ stage'[p] = "ok" /\ \A q \in Procs : p = q
  BY Before DEF Succeeds, Busy, Stages, SF!OneProcess
<1>1. ~\E q \in Procs, c \in Commands : Start(q, c)
  BY <1>0 DEF Start, Succeeds
<1>2. ~MachineGone /\ ~UNCHANGED vars
  BY <1>0 DEF MachineGone, vars, app
<1>. QED  BY <1>0, <1>1, <1>2 DEF Next, ProcessSteps

(* One command at a time, whatever failed or was killed before: a          *)
(* deployment that succeeds has its alias on the newest release and all    *)
(* the rules and schedules it has looked for, and no others, starting the  *)
(* alias (deploy.go:82-98).                                                *)
THEOREM DeploysComplete ==
  ASSUME SF!OneProcess
  PROVE  Spec => DeployCompletes
<1>1. ASSUME IInv, ServicesInform, DoneSoFar, [Next]_vars, NEW c \in Done("deploy")
      PROVE  /\ ~c.skipMachine => routing'[c.alias] = {published'}
             /\ LooksFor(c, c.rules) => Starts("rule", c.alias)' = ConfiguredRules(c)
             /\ LooksFor(c, c.schedules) =>
                  Starts("schedule", c.alias)' = ConfiguredSchedules(c)
  <2>1. PICK p \in alone : /\ Succeeds(p) /\ cmd[p].op = "deploy" /\ ~cmd[p].dryRun
                           /\ c = cmd[p]
    BY <1>1 DEF Done
  <2>2. p \in Procs /\ ServicesKept
    BY <1>1, ServicesKeep DEF IInv, TypeOK, ServicesKept
  <2>3. ProcessSteps(p) /\ Busy(p) /\ stage'[p] = "ok" /\ TriggerOp(cmd[p]) = "deploy"
    BY <1>1, <2>1, <2>2, OneEnds DEF Succeeds, TriggerOp, ReadOnly
  <2>4. PICK a : a = c.alias
    OBVIOUS
  <2>. QED  BY <1>1, <2>1, <2>2, <2>3, <2>4, DeploymentEnds
<1>2. IInv /\ ServicesInform /\ DoneSoFar /\ [Next]_vars =>
        [\A c \in Done("deploy") :
           /\ ~c.skipMachine => routing'[c.alias] = {published'}
           /\ LooksFor(c, c.rules) =>
                Starts("rule", c.alias)' = ConfiguredRules(c)
           /\ LooksFor(c, c.schedules) =>
                Starts("schedule", c.alias)' = ConfiguredSchedules(c)]_vars
  BY <1>1
<1>. QED  BY <1>2, OneDone, PTL DEF Spec, DeployCompletes

(* One command at a time, whatever failed or was killed before: a delete   *)
(* that succeeds leaves the state machine on its way out and no rule or    *)
(* schedule that starts its alias (delete.go:63-80).                       *)
THEOREM DeletesComplete ==
  ASSUME SF!OneProcess
  PROVE  Spec => DeleteCompletes
<1>1. ASSUME IInv, ServicesInform, DoneSoFar, [Next]_vars, NEW c \in Done("delete")
      PROVE  status' = "DELETING" /\ NothingStarts(c.alias)'
  <2>1. PICK p \in alone : /\ Succeeds(p) /\ cmd[p].op = "delete" /\ ~cmd[p].dryRun
                           /\ c = cmd[p]
    BY <1>1 DEF Done
  <2>2. p \in Procs /\ ServicesKept
    BY <1>1, ServicesKeep DEF IInv, TypeOK, ServicesKept
  <2>3. ProcessSteps(p) /\ Busy(p) /\ stage'[p] = "ok" /\ TriggerOp(cmd[p]) = "delete"
    BY <1>1, <2>1, <2>2, OneEnds DEF Succeeds, TriggerOp, ReadOnly
  <2>4. PICK a : a = c.alias
    OBVIOUS
  <2>5. status' = "DELETING" /\ Starts("rule", a)' = {} /\ Starts("schedule", a)' = {}
    BY <1>1, <2>1, <2>2, <2>3, <2>4, DeletionEnds
  <2>. QED  BY <2>4, <2>5 DEF NothingStarts, Kinds
<1>2. IInv /\ ServicesInform /\ DoneSoFar /\ [Next]_vars =>
        [\A c \in Done("delete") :
           status' = "DELETING" /\ NothingStarts(c.alias)']_vars
  BY <1>1
<1>. QED  BY <1>2, OneDone, PTL DEF Spec, DeleteCompletes

=============================================================================
