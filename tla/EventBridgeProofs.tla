------------------------- MODULE EventBridgeProofs -------------------------
(***************************************************************************)
(* Proofs about EventBridgeService for every set of processes, rules,      *)
(* target ids, aliases and requests, and every choice of faults.           *)
(***************************************************************************)
EXTENDS EventBridgeProps, TLAPS

-----------------------------------------------------------------------------
(* Types *)

LEMMA FreshType == Fresh \in Memory
BY DEF Fresh, Memory

LEMMA AnyRequestType == AnyRequest \in Requests
BY RequestsAssumption DEF AnyRequest

LEMMA RequestTypes ==
  ASSUME ProcsOK, NEW p \in Procs
  PROVE  /\ req[p] \in Requests
         /\ req[p].op \in {"deploy", "delete", "look"}
         /\ req[p].alias \in Aliases \cup {Unknown}
         /\ req[p].wanted \in SUBSET Rules
         /\ req[p].enabled \in SUBSET Rules
         /\ req[p].keepState \in BOOLEAN
BY RequestsAssumption DEF ProcsOK, RequestSet

(* The fields of a process's memory. *)
LEMMA MemoryTypes ==
  ASSUME ProcsOK, NEW p \in Procs
  PROVE  /\ mem[p] \in Memory
         /\ mem[p].listed \in SUBSET Rules
         /\ mem[p].known \in SUBSET Rules
         /\ mem[p].on \in SUBSET Rules
         /\ mem[p].managed \in SUBSET Rules
         /\ mem[p].ids \in [Rules -> SUBSET Ids]
         /\ mem[p].aimed \in SUBSET Rules
         /\ mem[p].again \in BOOLEAN
         /\ mem[p].remove \in SUBSET Rules
         /\ mem[p].change \in SUBSET Rules
         /\ mem[p].add \in SUBSET Rules
         /\ mem[p].cur \in SUBSET Rules
BY DEF ProcsOK, Memory

-----------------------------------------------------------------------------
(* Moves of one process *)

(* Call l and memory m fit what the invariant says of process p. *)
Fits(p, l, m) ==
  \/ l \in Ended
  \/ l \in Calls /\ m \in Memory /\ Phase(l, req[p], m) /\ Remembers(m)

GoodMove(p) == \E l, m : Fits(p, l, m) /\ Goto(p, l, m)

(* A new rule is tagged, and a rule that stays keeps its tag. *)
TagsStay == (exists' \ exists) \cup (managed \cap exists') \subseteq managed'

ProcsInv ==
  /\ ProcsOK
  /\ \A p \in Procs : Phase(pc[p], req[p], mem[p]) /\ Remembers(mem[p])

(* What a process remembers stays true while tags stay. *)
LEMMA RemembersStays ==
  ASSUME TagsStay, NEW m, Remembers(m)
  PROVE  m.managed \cap exists' \subseteq managed'
BY DEF TagsStay, Remembers

(* A process that makes a fitting move keeps the invariant of all. *)
LEMMA MoveKeeps ==
  ASSUME ProcsInv, NEW p \in Procs, GoodMove(p), TagsStay
  PROVE  ProcsInv'
<1>1. PICK l, m : Fits(p, l, m) /\ Goto(p, l, m)
  BY DEF GoodMove
<1> DEFINE mm == IF l \in Ended THEN Fresh ELSE m
           qq == IF l \in Ended THEN AnyRequest ELSE req[p]
<1>2. /\ pc' = [pc EXCEPT ![p] = l]
      /\ mem' = [mem EXCEPT ![p] = mm]
      /\ req' = [req EXCEPT ![p] = qq]
  BY <1>1 DEF Goto
<1>3. l \in Ended \cup Calls /\ mm \in Memory /\ qq \in Requests
  BY <1>1, FreshType, AnyRequestType DEF Fits, ProcsInv, ProcsOK
<1>4. Phase(l, qq, mm) /\ Remembers(mm)
  <2>1. CASE l \in Ended
    BY <2>1 DEF Phase, Remembers, Fresh, Ended, Writes
  <2>2. CASE l \notin Ended
    BY <1>1, <2>2 DEF Fits
  <2>. QED  BY <2>1, <2>2
<1> HIDE DEF mm, qq
<1>5. ProcsOK'
  BY <1>2, <1>3 DEF ProcsInv, ProcsOK
<1>6. ASSUME NEW o \in Procs
      PROVE  Phase(pc'[o], req'[o], mem'[o]) /\ Remembers(mem[o])'
  <2>1. CASE o = p
    <3>1. pc'[p] = l /\ req'[p] = qq /\ mem'[p] = mm
      BY <1>2 DEF ProcsInv, ProcsOK
    <3>2. mm.managed \cap exists' \subseteq managed'
      BY <1>4, RemembersStays
    <3>. QED  BY <1>4, <2>1, <3>1, <3>2 DEF Remembers
  <2>2. CASE o # p
    <3>1. pc'[o] = pc[o] /\ req'[o] = req[o] /\ mem'[o] = mem[o]
      BY <1>2, <2>2 DEF ProcsInv, ProcsOK
    <3>2. Phase(pc[o], req[o], mem[o]) /\ Remembers(mem[o])
      BY DEF ProcsInv
    <3>3. mem[o].managed \cap exists' \subseteq managed'
      BY <3>2, RemembersStays
    <3>. QED  BY <3>1, <3>2, <3>3 DEF Remembers
  <2>. QED  BY <2>1, <2>2
<1>7. ASSUME NEW o \in Procs PROVE Phase(pc[o], req[o], mem[o])'
  BY <1>6 DEF Phase, Fresh, MayWrite
<1>. QED  BY <1>5, <1>6, <1>7 DEF ProcsInv

(* What the invariant says of one process. *)
LEMMA MyFacts ==
  ASSUME ProcsInv, NEW p \in Procs
  PROVE  ProcsOK /\ Phase(pc[p], req[p], mem[p]) /\ Remembers(mem[p])
BY DEF ProcsInv

LEMMA EndMove ==
  ASSUME NEW p \in Procs, NEW l \in Ended, NEW m, Goto(p, l, m)
  PROVE  GoodMove(p)
BY DEF GoodMove, Fits

(* What every plan obeys. *)
Sound(q, m) ==
  m.remove \subseteq m.managed /\ m.change \cup m.add \subseteq q.wanted

(* A move to a call that needs no rule in hand. *)
LEMMA PlainMove ==
  ASSUME NEW p \in Procs, NEW m \in Memory, Remembers(m), Sound(req[p], m),
         NEW l \in Ended \cup (Calls \ {"DeleteRule", "PutTargets", "TagResource"}),
         l \in {"RemoveTargets", "PutRule"} => MayWrite(req[p], m),
         l = "DeleteStateMachine" => req[p].op = "delete",
         Goto(p, l, m)
  PROVE  GoodMove(p)
<1>1. l \notin Ended => Phase(l, req[p], m)
  BY DEF Phase, Sound, Writes
<1>. QED  BY <1>1 DEF GoodMove, Fits

LEMMA NextWriteMove ==
  ASSUME NEW p \in Procs, NEW m \in Memory, Remembers(m), Sound(req[p], m),
         MayWrite(req[p], m), NextWrite(p, m)
  PROVE  GoodMove(p)
<1>1. CASE m.remove # {}
  BY <1>1, PlainMove DEF NextWrite, Calls, Ended
<1>2. CASE m.remove = {} /\ m.change \cup m.add # {}
  BY <1>2, PlainMove DEF NextWrite, Calls, Ended
<1>3. CASE m.remove = {} /\ m.change \cup m.add = {}
  BY <1>3, PlainMove DEF NextWrite, Calls, Ended
<1>. QED  BY <1>1, <1>2, <1>3

LEMMA PlanMove ==
  ASSUME ProcsOK, NEW p \in Procs, NEW m \in Memory, Remembers(m),
         MayWrite(req[p], m), Plan(p, m)
  PROVE  GoodMove(p)
<1> DEFINE diff == Diff(m.listed, req[p].wanted)
           mm == [m EXCEPT !.remove = {r \in diff.remove : IsManagedBy(r, m)},
                           !.change = diff.change, !.add = diff.add]
<1>1. diff.remove \subseteq Rules /\ diff.change \subseteq Rules /\ diff.add \subseteq Rules
  BY RequestTypes DEF Diff, Memory
<1>2. diff.change \cup diff.add \subseteq req[p].wanted
  BY DEF Diff
<1> HIDE DEF diff
<1>3. mm \in Memory
  BY <1>1 DEF Memory
<1>4. Remembers(mm)
  BY DEF Remembers, Memory
<1>5. Sound(req[p], mm) /\ MayWrite(req[p], mm)
  BY <1>2 DEF Sound, Memory, IsManagedBy, MayWrite
<1>6. NextWrite(p, mm)
  BY DEF Plan, diff
<1> HIDE DEF mm
<1>. QED  BY <1>3, <1>4, <1>5, <1>6, NextWriteMove

LEMMA DescribeMove ==
  ASSUME ProcsOK, NEW p \in Procs, NEW m \in Memory, Remembers(m),
         Sound(req[p], m), Describe(p, m)
  PROVE  GoodMove(p)
<1>1. CASE ~ (m.listed \subseteq m.known)
  BY <1>1, PlainMove DEF Describe, Calls, Ended
<1>2. CASE m.listed \subseteq m.known /\ req[p].op = "look"
  BY <1>2, EndMove DEF Describe, EndSearch, Ended
<1>3. CASE m.listed \subseteq m.known /\ req[p].op = "delete" /\ ~m.again
  BY <1>3, PlainMove DEF Describe, EndSearch, Calls, Ended
<1>4. CASE /\ m.listed \subseteq m.known /\ req[p].op # "look"
           /\ ~ (req[p].op = "delete" /\ ~m.again)
  <2>1. MayWrite(req[p], m)
    BY <1>4 DEF MayWrite
  <2>. QED  BY <1>4, <2>1, PlanMove DEF Describe, EndSearch
<1>. QED  BY <1>1, <1>2, <1>3, <1>4

LEMMA ListByAliasMove ==
  ASSUME ProcsInv, NEW p \in Procs, ListByAlias(p)
  PROVE  GoodMove(p)
<1> DEFINE m == [mem[p] EXCEPT !.listed = Pointing(req[p].alias)]
<1>1. m \in Memory /\ Remembers(m) /\ Sound(req[p], m)
  BY MyFacts, MemoryTypes DEF Memory, Remembers, Phase, Sound, Pointing
<1>2. Goto(p, "ListByArn", m)
  BY DEF ListByAlias
<1> HIDE DEF m
<1>. QED  BY <1>1, <1>2, PlainMove DEF Calls

LEMMA ListByArnMove ==
  ASSUME ProcsInv, NEW p \in Procs, ListByArn(p)
  PROVE  GoodMove(p)
<1> DEFINE bare == IF req[p].alias = Unknown THEN {} ELSE Pointing("bare")
           m == [mem[p] EXCEPT !.listed = @ \cup bare \cup req[p].wanted]
<1>1. bare \subseteq Rules
  BY DEF Pointing
<1> HIDE DEF bare
<1>2. m \in Memory /\ Remembers(m) /\ Sound(req[p], m)
  BY <1>1, MyFacts, MemoryTypes, RequestTypes DEF Memory, Remembers, Phase, Sound
<1>3. Describe(p, m)
  BY DEF ListByArn, bare
<1> HIDE DEF m
<1>. QED  BY <1>2, <1>3, DescribeMove, MyFacts

LEMMA DescribeRuleMove ==
  ASSUME ProcsInv, NEW p \in Procs, DescribeRule(p)
  PROVE  GoodMove(p)
<1>1. PICK r \in mem[p].listed \ mem[p].known :
        IF r \in exists
        THEN Goto(p, "ListTargets",
                  [mem[p] EXCEPT !.cur = {r}, !.on = @ \cup (on \cap {r})])
        ELSE Describe(p, [mem[p] EXCEPT !.listed = @ \ {r}])
  BY DEF DescribeRule
<1>2. r \in Rules
  BY MyFacts, MemoryTypes
<1>3. CASE r \in exists
  <2> DEFINE m == [mem[p] EXCEPT !.cur = {r}, !.on = @ \cup (on \cap {r})]
  <2>1. m \in Memory /\ Remembers(m) /\ Sound(req[p], m)
    <3>1. m \in Memory
      BY MyFacts, MemoryTypes, <1>2 DEF Memory
    <3>2. Remembers(m) /\ Sound(req[p], m)
      BY <1>2, MyFacts, MemoryTypes DEF Memory, Remembers, Phase, Sound
    <3>. QED  BY <3>1, <3>2
  <2>2. Goto(p, "ListTargets", m)
    BY <1>1, <1>3
  <2> HIDE DEF m
  <2>. QED  BY <2>1, <2>2, PlainMove DEF Calls
<1>4. CASE r \notin exists
  <2> DEFINE m == [mem[p] EXCEPT !.listed = @ \ {r}]
  <2>1. m \in Memory /\ Remembers(m) /\ Sound(req[p], m)
    BY MyFacts, MemoryTypes DEF Memory, Remembers, Phase, Sound
  <2>2. Describe(p, m)
    BY <1>1, <1>4
  <2> HIDE DEF m
  <2>. QED  BY <2>1, <2>2, DescribeMove, MyFacts
<1>. QED  BY <1>3, <1>4

LEMMA NoticedType ==
  ASSUME NEW r, NEW arn, NEW S \in Noticed(r, arn)
  PROVE  S \subseteq Ids
BY DEF Noticed, Targets

LEMMA ListTargetsMove ==
  ASSUME ProcsInv, NEW p \in Procs, ListTargets(p)
  PROVE  GoodMove(p)
<1> DEFINE mine == IF req[p].alias = Unknown THEN {} ELSE Aliases \cup {"bare"}
           aimed(r, S) == \E i \in S : target[r][i] \in mine
           m(r, S) == [mem[p] EXCEPT !.ids[r] = S,
                                     !.aimed = IF aimed(r, S) THEN @ \cup {r} ELSE @]
<1>1. PICK r \in mem[p].cur \cap exists :
        \E S \in Noticed(r, req[p].alias) : Goto(p, "ListTags", m(r, S))
  BY DEF ListTargets
<1>2. PICK S \in Noticed(r, req[p].alias) : Goto(p, "ListTags", m(r, S))
  BY <1>1
<1>3. r \in Rules /\ S \subseteq Ids
  BY <1>2, NoticedType, MyFacts, MemoryTypes
<1> HIDE DEF aimed
<1>4. m(r, S) \in Memory
  BY <1>3, MyFacts, MemoryTypes DEF Memory
<1>5. Remembers(m(r, S)) /\ Sound(req[p], m(r, S))
  BY MyFacts, MemoryTypes DEF Memory, Remembers, Phase, Sound
<1> HIDE DEF m
<1>. QED  BY <1>2, <1>4, <1>5, PlainMove DEF Calls

LEMMA ListTagsMove ==
  ASSUME ProcsInv, NEW p \in Procs, ListTags(p)
  PROVE  GoodMove(p)
<1> DEFINE m == [mem[p] EXCEPT !.known = @ \cup mem[p].cur, !.cur = {},
                               !.managed = @ \cup (managed \cap mem[p].cur)]
<1>1. m \in Memory /\ Remembers(m) /\ Sound(req[p], m)
  <2>1. m \in Memory
    BY MyFacts, MemoryTypes DEF Memory
  <2>2. Remembers(m) /\ Sound(req[p], m)
    BY MyFacts, MemoryTypes DEF Memory, Remembers, Phase, Sound
  <2>. QED  BY <2>1, <2>2
<1>2. Describe(p, m)
  BY DEF ListTags
<1> HIDE DEF m
<1>. QED  BY <1>1, <1>2, DescribeMove, MyFacts

LEMMA DeleteStateMachineMove ==
  ASSUME ProcsInv, NEW p \in Procs, DeleteStateMachine(p)
  PROVE  GoodMove(p)
<1>1. CASE mem[p].listed = {}
  BY <1>1, EndMove DEF DeleteStateMachine, Ended
<1>2. CASE mem[p].listed # {}
  <2> DEFINE m == [mem[p] EXCEPT !.again = TRUE]
  <2>1. m \in Memory /\ Remembers(m) /\ Sound(req[p], m)
    <3>1. m \in Memory
      BY MyFacts, MemoryTypes DEF Memory
    <3>2. Remembers(m) /\ Sound(req[p], m)
      BY MyFacts, MemoryTypes DEF Memory, Remembers, Phase, Sound
    <3>. QED  BY <3>1, <3>2
  <2>2. Goto(p, "ListByAlias", m)
    BY <1>2 DEF DeleteStateMachine
  <2> HIDE DEF m
  <2>. QED  BY <2>1, <2>2, PlainMove DEF Calls
<1>. QED  BY <1>1, <1>2

(* A process with rule r of its plan in hand. *)
LEMMA RemoveTargetsMove ==
  ASSUME ProcsInv, NEW p \in Procs, RemoveTargets(p)
  PROVE  GoodMove(p)
<1>1. PICK r \in mem[p].remove : Goto(p, "DeleteRule", [mem[p] EXCEPT !.cur = {r}])
  BY DEF RemoveTargets
<1> DEFINE m == [mem[p] EXCEPT !.cur = {r}]
<1>2. m \in Memory /\ Remembers(m) /\ Phase("DeleteRule", req[p], m)
  BY MyFacts, MemoryTypes
     DEF Memory, Remembers, Phase, Ended, RemoveTargets, Writes, MayWrite
<1>3. Goto(p, "DeleteRule", m)
  BY <1>1
<1> HIDE DEF m
<1>. QED  BY <1>2, <1>3 DEF GoodMove, Fits, Calls

LEMMA DeleteRuleMove ==
  ASSUME ProcsInv, NEW p \in Procs, DeleteRule(p)
  PROVE  GoodMove(p)
<1> DEFINE m == [mem[p] EXCEPT !.remove = @ \ mem[p].cur, !.cur = {}]
<1>1. m \in Memory /\ Remembers(m) /\ Sound(req[p], m) /\ MayWrite(req[p], m)
  <2>1. m \in Memory
    BY MyFacts, MemoryTypes DEF Memory
  <2>2. Remembers(m) /\ Sound(req[p], m)
    BY MyFacts, MemoryTypes DEF Memory, Remembers, Phase, Sound
  <2>3. MayWrite(req[p], m)
    BY MyFacts, MemoryTypes DEF DeleteRule, Phase, Writes, MayWrite, Memory
  <2>. QED  BY <2>1, <2>2, <2>3
<1>2. NextWrite(p, m)
  BY DEF DeleteRule
<1> HIDE DEF m
<1>. QED  BY <1>1, <1>2, NextWriteMove

LEMMA PutRuleMove ==
  ASSUME ProcsInv, NEW p \in Procs, PutRule(p)
  PROVE  GoodMove(p)
<1>1. PICK r \in mem[p].change \cup mem[p].add :
        Goto(p, "PutTargets", [mem[p] EXCEPT !.cur = {r}])
  BY DEF PutRule
<1> DEFINE m == [mem[p] EXCEPT !.cur = {r}]
<1>2. m \in Memory /\ Remembers(m) /\ Phase("PutTargets", req[p], m)
  BY MyFacts, MemoryTypes
     DEF Memory, Remembers, Phase, Ended, PutRule, Writes, MayWrite
<1>3. Goto(p, "PutTargets", m)
  BY <1>1
<1> HIDE DEF m
<1>. QED  BY <1>2, <1>3 DEF GoodMove, Fits, Calls

LEMMA PutTargetsMove ==
  ASSUME ProcsInv, NEW p \in Procs, PutTargets(p)
  PROVE  GoodMove(p)
<1>1. Goto(p, "TagResource", mem[p]) /\ pc[p] = "PutTargets"
  BY DEF PutTargets
<1>2. Phase("TagResource", req[p], mem[p])
  BY <1>1, MyFacts DEF Phase, Ended, Writes
<1>. QED  BY <1>1, <1>2, MyFacts, MemoryTypes DEF GoodMove, Fits, Calls

LEMMA TagResourceMove ==
  ASSUME ProcsInv, NEW p \in Procs, TagResource(p)
  PROVE  GoodMove(p)
<1> DEFINE m == [mem[p] EXCEPT !.change = @ \ mem[p].cur,
                               !.add = @ \ mem[p].cur, !.cur = {}]
<1>1. m \in Memory /\ Remembers(m) /\ Sound(req[p], m) /\ MayWrite(req[p], m)
  <2>1. m \in Memory
    BY MyFacts, MemoryTypes DEF Memory
  <2>2. Remembers(m) /\ Sound(req[p], m)
    BY MyFacts, MemoryTypes DEF Memory, Remembers, Phase, Sound
  <2>3. MayWrite(req[p], m)
    BY MyFacts, MemoryTypes DEF TagResource, Phase, Writes, MayWrite, Memory
  <2>. QED  BY <2>1, <2>2, <2>3
<1>2. NextWrite(p, m)
  BY DEF TagResource
<1> HIDE DEF m
<1>. QED  BY <1>1, <1>2, NextWriteMove

-----------------------------------------------------------------------------
(* The bus *)

LEMMA ReadKeeps ==
  ASSUME BusOK, UNCHANGED bus
  PROVE  BusOK' /\ TagsStay
BY DEF BusOK, bus, TagsStay, Targets

LEMMA RemoveTargetsBus ==
  ASSUME BusOK, NEW p \in Procs, RemoveTargets(p)
  PROVE  BusOK' /\ TagsStay
<1>1. PICK r \in exists :
        target' = [target EXCEPT ![r] =
          [i \in Ids |-> IF i \in mem[p].ids[r] THEN Nothing ELSE @[i]]]
  BY DEF RemoveTargets
<1>2. UNCHANGED <<exists, managed, on>>
  BY DEF RemoveTargets
<1>3. target' \in [Rules -> [Ids -> Arns \cup {Nothing}]]
  BY <1>1 DEF BusOK
<1>4. ASSUME NEW x \in Rules \ exists PROVE Targets(x)' = {}
  BY <1>1, <1>4 DEF BusOK, Targets
<1>. QED  BY <1>2, <1>3, <1>4 DEF BusOK, TagsStay

LEMMA DeleteRuleBus ==
  ASSUME BusOK, NEW p \in Procs, DeleteRule(p)
  PROVE  BusOK' /\ TagsStay
<1>1. /\ \A r \in mem[p].cur : Targets(r) = {}
      /\ exists' = exists \ mem[p].cur /\ managed' = managed \ mem[p].cur
      /\ on' = on \ mem[p].cur /\ UNCHANGED target
  BY DEF DeleteRule
<1>2. \A r \in Rules \ exists' : Targets(r)' = {}
  BY <1>1 DEF BusOK, Targets
<1>. QED  BY <1>1, <1>2 DEF BusOK, TagsStay

LEMMA PutRuleBus ==
  ASSUME BusOK, ProcsInv, NEW p \in Procs, PutRule(p)
  PROVE  BusOK' /\ TagsStay
<1>1. PICK r \in mem[p].change \cup mem[p].add :
        /\ exists' = exists \cup {r}
        /\ managed' = IF r \in exists THEN managed ELSE managed \cup {r}
        /\ on' = IF WantsOn(p, r) THEN on \cup {r} ELSE on \ {r}
  BY DEF PutRule
<1>2. r \in Rules /\ UNCHANGED target
  BY MyFacts, MemoryTypes DEF PutRule
<1>3. \A x \in Rules \ exists' : Targets(x)' = {}
  BY <1>1, <1>2 DEF BusOK, Targets
<1>4. on' \subseteq exists' /\ managed' \subseteq exists'
  BY <1>1 DEF BusOK
<1>. QED  BY <1>1, <1>2, <1>3, <1>4 DEF BusOK, TagsStay

LEMMA PutTargetsBus ==
  ASSUME BusOK, ProcsInv, NEW p \in Procs, PutTargets(p)
  PROVE  BusOK' /\ TagsStay
<1>1. PICK r \in mem[p].cur : target' = [target EXCEPT ![r][OwnId] = req[p].alias]
  BY DEF PutTargets
<1>2. r \in exists /\ req[p].alias \in Arns /\ UNCHANGED <<exists, managed, on>>
  BY MyFacts, RequestTypes DEF PutTargets, Arns
<1>3. target' \in [Rules -> [Ids -> Arns \cup {Nothing}]]
  BY <1>1, <1>2 DEF BusOK
<1>4. ASSUME NEW x \in Rules \ exists PROVE Targets(x)' = {}
  BY <1>1, <1>2, <1>4 DEF BusOK, Targets
<1>. QED  BY <1>2, <1>3, <1>4 DEF BusOK, TagsStay

LEMMA TagResourceBus ==
  ASSUME BusOK, NEW p \in Procs, TagResource(p)
  PROVE  BusOK' /\ TagsStay
BY DEF BusOK, TagResource, TagsStay, Targets

-----------------------------------------------------------------------------
(* Steps *)

LEMMA WorkMove ==
  ASSUME BusOK, ProcsInv, NEW p \in Procs, Work(p) \/ Crash(p)
  PROVE  GoodMove(p) /\ BusOK' /\ TagsStay
<1>1. CASE ListByAlias(p)
  BY <1>1, ListByAliasMove, ReadKeeps DEF ListByAlias
<1>2. CASE ListByArn(p)
  BY <1>2, ListByArnMove, ReadKeeps DEF ListByArn
<1>3. CASE DescribeRule(p)
  BY <1>3, DescribeRuleMove, ReadKeeps DEF DescribeRule
<1>4. CASE ListTargets(p)
  BY <1>4, ListTargetsMove, ReadKeeps DEF ListTargets
<1>5. CASE ListTags(p)
  BY <1>5, ListTagsMove, ReadKeeps DEF ListTags
<1>6. CASE DeleteStateMachine(p)
  BY <1>6, DeleteStateMachineMove, ReadKeeps DEF DeleteStateMachine
<1>7. CASE RemoveTargets(p)
  BY <1>7, RemoveTargetsMove, RemoveTargetsBus
<1>8. CASE DeleteRule(p)
  BY <1>8, DeleteRuleMove, DeleteRuleBus
<1>9. CASE PutRule(p)
  BY <1>9, PutRuleMove, PutRuleBus
<1>10. CASE PutTargets(p)
  BY <1>10, PutTargetsMove, PutTargetsBus
<1>11. CASE TagResource(p)
  BY <1>11, TagResourceMove, TagResourceBus
<1>12. CASE CallFails(p)
  BY <1>12, EndMove, ReadKeeps DEF CallFails, Ended
<1>13. CASE Crash(p)
  BY <1>13, EndMove, ReadKeeps DEF Crash, Ended
<1>. QED
  BY <1>1, <1>2, <1>3, <1>4, <1>5, <1>6, <1>7, <1>8, <1>9, <1>10, <1>11, <1>12,
     <1>13 DEF Work

LEMMA StartStep ==
  ASSUME BusOK, ProcsInv, NEW p \in Procs, NEW q \in Requests, Start(p, q)
  PROVE  BusOK' /\ ProcsInv'
<1>1. mem[p] = Fresh
  BY MyFacts DEF Start, Phase
<1>2. /\ pc' = [pc EXCEPT ![p] = "ListByAlias"] /\ req' = [req EXCEPT ![p] = q]
      /\ UNCHANGED <<bus, mem>>
  BY DEF Start
<1>3. ProcsOK'
  BY <1>2 DEF ProcsInv, ProcsOK, Calls
<1>4. ASSUME NEW o \in Procs PROVE Phase(pc[o], req[o], mem[o])' /\ Remembers(mem[o])'
  <2>1. CASE o = p
    BY <1>1, <1>2, <2>1 DEF ProcsInv, ProcsOK, Phase, Remembers, Fresh, Ended, Writes
  <2>2. CASE o # p
    BY <1>2, <2>2 DEF ProcsInv, ProcsOK, Phase, Remembers, Fresh, bus, MayWrite
  <2>. QED  BY <2>1, <2>2
<1>. QED  BY <1>2, <1>3, <1>4, ReadKeeps DEF ProcsInv

(* While no process runs, no process remembers anything. *)
LEMMA OperatorStep ==
  ASSUME BusOK, ProcsInv, Operator
  PROVE  BusOK' /\ ProcsInv'
<1>1. UNCHANGED <<managed, pc, req, mem>>
  BY DEF Operator, OperatorCreates, OperatorAddsTarget, OperatorSwitches
<1>2. ASSUME NEW o \in Procs PROVE mem[o].managed = {}
  <2>1. pc[o] \in Ended
    BY DEF Operator, OperatorCreates, OperatorAddsTarget, OperatorSwitches,
           OperatorWorks, Running, ProcsInv, ProcsOK
  <2>. QED  BY <2>1, MyFacts DEF Phase, Fresh
<1>3. ProcsInv'
  BY <1>1, <1>2 DEF ProcsInv, ProcsOK, Phase, Remembers, Fresh, MayWrite
<1>4. BusOK'
  <2>1. ASSUME NEW r \in Rules, NEW i \in Ids, NEW arn \in Arns,
               OperatorCreates(r, i, arn)
        PROVE  BusOK'
    <3>1. target' = [target EXCEPT ![r][i] = arn] /\ exists' = exists \cup {r}
          /\ on' = on \cup {r} /\ managed' = managed
      BY <2>1 DEF OperatorCreates
    <3>2. target' \in [Rules -> [Ids -> Arns \cup {Nothing}]]
      BY <3>1 DEF BusOK
    <3>3. ASSUME NEW x \in Rules \ exists' PROVE Targets(x)' = {}
      BY <3>1, <3>3 DEF BusOK, Targets
    <3>. QED  BY <3>1, <3>2, <3>3 DEF BusOK
  <2>2. ASSUME NEW r \in Rules, NEW i \in Ids, OperatorAddsTarget(r, i)
        PROVE  BusOK'
    <3>1. /\ target' = [target EXCEPT ![r][i] = "foreign"] /\ r \in exists
          /\ UNCHANGED <<exists, managed, on>>
      BY <2>2 DEF OperatorAddsTarget
    <3>2. target' \in [Rules -> [Ids -> Arns \cup {Nothing}]]
      BY <3>1 DEF BusOK, Arns
    <3>3. ASSUME NEW x \in Rules \ exists PROVE Targets(x)' = {}
      BY <3>1, <3>3 DEF BusOK, Targets
    <3>. QED  BY <3>1, <3>2, <3>3 DEF BusOK
  <2>3. ASSUME NEW r \in Rules, OperatorSwitches(r)
        PROVE  BusOK'
    BY <2>3 DEF OperatorSwitches, BusOK, Targets
  <2>. QED  BY <2>1, <2>2, <2>3 DEF Operator
<1>. QED  BY <1>3, <1>4

LEMMA InitInv == Init => IInv
<1> SUFFICES ASSUME Init PROVE IInv
  OBVIOUS
<1>1. BusOK
  BY DEF Init, BusOK, Targets
<1>2. ProcsOK
  BY FreshType, AnyRequestType DEF Init, ProcsOK, Ended
<1>3. \A p \in Procs : Phase(pc[p], req[p], mem[p]) /\ Remembers(mem[p])
  BY DEF Init, Phase, Remembers, Fresh, Writes
<1>. QED  BY <1>1, <1>2, <1>3 DEF IInv, TypeOK

LEMMA NextInv == IInv /\ [Next]_vars => IInv'
<1> SUFFICES ASSUME IInv, [Next]_vars PROVE IInv'
  OBVIOUS
<1>1. BusOK /\ ProcsInv
  BY DEF IInv, TypeOK, ProcsInv
<1>2. BusOK' /\ ProcsInv'
  <2>1. ASSUME NEW p \in Procs, NEW q \in Requests, Start(p, q)
        PROVE  BusOK' /\ ProcsInv'
    BY <1>1, <2>1, StartStep
  <2>2. ASSUME NEW p \in Procs, Work(p) \/ Crash(p)
        PROVE  BusOK' /\ ProcsInv'
    BY <1>1, <2>2, WorkMove, MoveKeeps
  <2>3. CASE Operator
    BY <1>1, <2>3, OperatorStep
  <2>4. CASE UNCHANGED vars
    BY <1>1, <2>4 DEF vars, BusOK, ProcsInv, ProcsOK, Phase, Remembers, Fresh, Targets, MayWrite
  <2>. QED  BY <2>1, <2>2, <2>3, <2>4 DEF Next
<1>. QED  BY <1>2 DEF IInv, TypeOK, ProcsInv

(* Every reachable state satisfies the inductive invariant, whatever the   *)
(* number of processes and rules (eventbridge_service.go:211-316).         *)
THEOREM Invariance == Spec => []IInv
<1>. QED  BY InitInv, NextInv, PTL DEF Spec

(* Every state is well typed, and what does not exist has no tag, state or *)
(* target.                                                                 *)
THEOREM TypeCorrect == Spec => []TypeOK
<1>1. IInv => TypeOK
  BY DEF IInv
<1>. QED  BY <1>1, Invariance, PTL

-----------------------------------------------------------------------------
(* What one command does, for the modules that run it with others *)

(* A step of p moves p alone, and only an end changes its request. *)
LEMMA WorkFrame ==
  ASSUME IInv, NEW p \in Procs, Work(p) \/ Crash(p)
  PROVE  /\ \A q \in Procs \ {p} :
              pc'[q] = pc[q] /\ req'[q] = req[q] /\ mem'[q] = mem[q]
         /\ pc'[p] \notin Ended => req'[p] = req[p]
<1>1. BusOK /\ ProcsInv
  BY DEF IInv, TypeOK, ProcsInv
<1>2. PICK l, m : Goto(p, l, m)
  BY <1>1, WorkMove DEF GoodMove
<1>. QED  BY <1>1, <1>2 DEF Goto, ProcsInv, ProcsOK

(* The calls of p that change no target. *)
LEMMA OtherCallsAim ==
  ASSUME NEW p, Work(p) \/ Crash(p), ~ (RemoveTargets(p) \/ PutTargets(p))
  PROVE  UNCHANGED target
BY DEF Work, Crash, ListByAlias, ListByArn, DescribeRule, ListTargets, ListTags,
       DeleteStateMachine, DeleteRule, PutRule, TagResource, CallFails, bus

(* A command takes targets of one rule away, or puts the target of a rule  *)
(* of its configuration, when it may write.                                *)
LEMMA TargetMoves ==
  ASSUME IInv, NEW p \in Procs, Work(p) \/ Crash(p)
  PROVE  \/ UNCHANGED target
         \/ /\ MayWrite(req[p], mem[p])
            /\ \E r \in Rules, S \in SUBSET Ids :
                 target' = [target EXCEPT ![r] =
                              [i \in Ids |-> IF i \in S THEN Nothing ELSE @[i]]]
         \/ /\ MayWrite(req[p], mem[p]) /\ req[p].alias # Unknown
            /\ \E r \in req[p].wanted :
                 target' = [target EXCEPT ![r][OwnId] = req[p].alias]
<1>0. BusOK /\ ProcsInv
  BY DEF IInv, TypeOK, ProcsInv
<1>1. CASE RemoveTargets(p)
  <2>1. PICK r \in mem[p].remove :
          target' = [target EXCEPT ![r] =
            [i \in Ids |-> IF i \in mem[p].ids[r] THEN Nothing ELSE @[i]]]
    BY <1>1 DEF RemoveTargets
  <2>2. r \in Rules /\ mem[p].ids[r] \in SUBSET Ids
    BY <1>0, MyFacts, MemoryTypes
  <2>3. MayWrite(req[p], mem[p])
    BY <1>0, <1>1, MyFacts DEF RemoveTargets, Phase, Writes
  <2>. QED  BY <2>1, <2>2, <2>3
<1>2. CASE PutTargets(p)
  <2>1. PICK r \in mem[p].cur : target' = [target EXCEPT ![r][OwnId] = req[p].alias]
    BY <1>2 DEF PutTargets
  <2>2. r \in req[p].wanted /\ MayWrite(req[p], mem[p]) /\ req[p].alias # Unknown
    BY <1>0, <1>2, MyFacts DEF PutTargets, Phase, Writes
  <2>. QED  BY <2>1, <2>2
<1>. QED  BY <1>1, <1>2, OtherCallsAim

(* A command that only looks changes nothing (deploy.go:158-174). *)
LEMMA LookReads ==
  ASSUME IInv, NEW p \in Procs, Work(p) \/ Crash(p), req[p].op = "look"
  PROVE  UNCHANGED bus
<1>1. pc[p] \notin Writes
  BY DEF IInv, Phase, MayWrite
<1>. QED
  BY <1>1 DEF Writes, Work, Crash, ListByAlias, ListByArn, DescribeRule, ListTargets,
     ListTags, DeleteStateMachine, RemoveTargets, DeleteRule, PutRule, PutTargets,
     TagResource, CallFails

(* Only the deletion of the state machine lets a process search again.     *)
LEMMA SearchesAgain ==
  ASSUME IInv, NEW p \in Procs, Work(p) \/ Crash(p), mem'[p].again, ~mem[p].again
  PROVE  DeleteStateMachine(p)
<1>0. ProcsOK /\ mem[p] \in Memory
  BY DEF IInv, TypeOK, ProcsOK
<1>1. ASSUME NEW l, NEW m, Goto(p, l, m), m.again = mem[p].again \/ m.again = FALSE
      PROVE  FALSE
  <2>1. mem'[p] = IF l \in Ended THEN Fresh ELSE m
    BY <1>0, <1>1 DEF Goto, ProcsOK
  <2>2. mem'[p] = Fresh \/ mem'[p] = m
    BY <2>1
  <2>. QED  BY <1>1, <2>2 DEF Fresh
<1>2. ASSUME NEW m \in Memory, NextWrite(p, m), m.again = mem[p].again PROVE FALSE
  BY <1>1, <1>2 DEF NextWrite
<1>3. ASSUME NEW m \in Memory, Describe(p, m), m.again = mem[p].again PROVE FALSE
  <2>1. Fresh.again = FALSE
    BY DEF Fresh
  <2>2. CASE Plan(p, m)
    <3> DEFINE diff == Diff(m.listed, req[p].wanted)
               R == {r \in diff.remove : IsManagedBy(r, m)}
               mm == [m EXCEPT !.remove = R, !.change = diff.change, !.add = diff.add]
    <3>1. NextWrite(p, mm)
      BY <2>2 DEF Plan
    <3> HIDE DEF diff, R
    <3>2. mm.again = mem[p].again
      BY <1>3 DEF Memory
    <3> HIDE DEF mm
    <3>. QED  BY <1>1, <3>1, <3>2 DEF NextWrite
  <2>. QED  BY <1>1, <1>3, <2>1, <2>2 DEF Describe, EndSearch
<1>4. CASE ListByAlias(p)
  <2> DEFINE m == [mem[p] EXCEPT !.listed = Pointing(req[p].alias)]
  <2>1. Goto(p, "ListByArn", m) /\ m.again = mem[p].again
    BY <1>0, <1>4 DEF ListByAlias, Memory
  <2> HIDE DEF m
  <2>. QED  BY <1>1, <2>1
<1>5. CASE ListByArn(p)
  <2> DEFINE bare == IF req[p].alias = Unknown THEN {} ELSE Pointing("bare")
             m == [mem[p] EXCEPT !.listed = @ \cup bare \cup req[p].wanted]
  <2>1. Describe(p, m) /\ bare \subseteq Rules
    BY <1>5 DEF ListByArn, Pointing
  <2> HIDE DEF bare
  <2>2. m \in Memory /\ m.again = mem[p].again
    BY <1>0, <2>1, RequestTypes DEF Memory
  <2> HIDE DEF m
  <2>. QED  BY <1>3, <2>1, <2>2
<1>6. CASE DescribeRule(p)
  <2>1. PICK r \in mem[p].listed :
          \/ Goto(p, "ListTargets", [mem[p] EXCEPT !.cur = {r}, !.on = @ \cup (on \cap {r})])
          \/ Describe(p, [mem[p] EXCEPT !.listed = @ \ {r}])
    BY <1>6 DEF DescribeRule
  <2> DEFINE m == [mem[p] EXCEPT !.cur = {r}, !.on = @ \cup (on \cap {r})]
             d == [mem[p] EXCEPT !.listed = @ \ {r}]
  <2>2. m.again = mem[p].again /\ d.again = mem[p].again /\ d \in Memory
    BY <1>0 DEF Memory
  <2> HIDE DEF m, d
  <2>. QED  BY <1>1, <1>3, <2>1, <2>2 DEF m, d
<1>7. CASE ListTargets(p)
  <2> DEFINE mine == IF req[p].alias = Unknown THEN {} ELSE Aliases \cup {"bare"}
             aimed(r, S) == \E i \in S : target[r][i] \in mine
             m(r, S) == [mem[p] EXCEPT !.ids[r] = S,
                                       !.aimed = IF aimed(r, S) THEN @ \cup {r} ELSE @]
  <2>1. PICK r, S : Goto(p, "ListTags", m(r, S))
    BY <1>7 DEF ListTargets
  <2> HIDE DEF aimed
  <2>2. m(r, S).again = mem[p].again
    BY <1>0 DEF Memory
  <2> HIDE DEF m
  <2>. QED  BY <1>1, <2>1, <2>2
<1>8. CASE ListTags(p)
  <2> DEFINE m == [mem[p] EXCEPT !.known = @ \cup mem[p].cur, !.cur = {},
                                 !.managed = @ \cup (managed \cap mem[p].cur)]
  <2>1. Describe(p, m)
    BY <1>8 DEF ListTags
  <2>2. m \in Memory /\ m.again = mem[p].again
    BY <1>0 DEF Memory
  <2> HIDE DEF m
  <2>. QED  BY <1>3, <2>1, <2>2
<1>9. CASE RemoveTargets(p) \/ PutRule(p)
  <2>1. PICK l, r : Goto(p, l, [mem[p] EXCEPT !.cur = {r}])
    BY <1>9 DEF RemoveTargets, PutRule
  <2> DEFINE m == [mem[p] EXCEPT !.cur = {r}]
  <2>2. m.again = mem[p].again /\ Goto(p, l, m)
    BY <1>0, <2>1 DEF Memory
  <2> HIDE DEF m
  <2>. QED  BY <1>1, <2>2
<1>10. CASE DeleteRule(p)
  <2> DEFINE m == [mem[p] EXCEPT !.remove = @ \ mem[p].cur, !.cur = {}]
  <2>1. NextWrite(p, m) /\ m \in Memory /\ m.again = mem[p].again
    BY <1>0, <1>10 DEF DeleteRule, Memory
  <2> HIDE DEF m
  <2>. QED  BY <1>2, <2>1
<1>11. CASE TagResource(p)
  <2> DEFINE m == [mem[p] EXCEPT !.change = @ \ mem[p].cur,
                                 !.add = @ \ mem[p].cur, !.cur = {}]
  <2>1. NextWrite(p, m) /\ m \in Memory /\ m.again = mem[p].again
    BY <1>0, <1>11 DEF TagResource, Memory
  <2> HIDE DEF m
  <2>. QED  BY <1>2, <2>1
<1>12. CASE PutTargets(p)
  BY <1>1, <1>12 DEF PutTargets
<1>13. CASE CallFails(p) \/ Crash(p)
  <2>1. \E l : Goto(p, l, Fresh) /\ Fresh.again = FALSE
    BY <1>13 DEF CallFails, Crash, Fresh
  <2>. QED  BY <1>1, <2>1
<1>. QED
  BY <1>4, <1>5, <1>6, <1>7, <1>8, <1>9, <1>10, <1>11, <1>12, <1>13 DEF Work

(* Having deleted the state machine, a process searches again or ends. *)
LEMMA DeletionGoesOn ==
  ASSUME IInv, NEW p \in Procs, DeleteStateMachine(p)
  PROVE  pc'[p] \in {"ok", "ListByAlias"}
<1>1. pc \in [Procs -> Ended \cup Calls]
  BY DEF IInv, TypeOK, ProcsOK
<1>. QED  BY <1>1 DEF DeleteStateMachine, Goto

-----------------------------------------------------------------------------
(* Hand-made rules *)

LEMMA HandMadeStep ==
  ASSUME IInv, [Next]_vars, NEW r \in exists \ managed
  PROVE  /\ r \in exists'
         /\ \A i \in Targets(r) : target'[r][i] # target[r][i] =>
              i = OwnId /\ \E p \in Procs : r \in req[p].wanted /\ mem[p].cur = {r}
<1> DEFINE Kept == /\ r \in exists'
                   /\ \A i \in Targets(r) : target'[r][i] # target[r][i] =>
                        i = OwnId /\ \E p \in Procs :
                          r \in req[p].wanted /\ mem[p].cur = {r}
<1>0. BusOK /\ ProcsInv
  BY DEF IInv, TypeOK, ProcsInv
<1>1. ASSUME NEW p \in Procs, RemoveTargets(p) PROVE Kept
  <2>1. PICK x \in mem[p].remove \cap exists :
          target' = [target EXCEPT ![x] =
            [i \in Ids |-> IF i \in mem[p].ids[x] THEN Nothing ELSE @[i]]]
    BY <1>1 DEF RemoveTargets
  <2>2. x \in managed
    BY <1>0, MyFacts DEF Phase, Remembers
  <2>3. target'[r] = target[r] /\ exists' = exists
    BY <1>0, <1>1, <2>1, <2>2 DEF BusOK, RemoveTargets
  <2>. QED  BY <2>3
<1>2. ASSUME NEW p \in Procs, DeleteRule(p) PROVE Kept
  <2>1. mem[p].cur \cap exists \subseteq managed
    BY <1>0, <1>2, MyFacts DEF DeleteRule, Phase, Remembers
  <2>. QED  BY <1>2, <2>1 DEF DeleteRule
<1>3. ASSUME NEW p \in Procs, PutTargets(p) PROVE Kept
  <2>1. PICK x \in req[p].wanted : mem[p].cur = {x}
    BY <1>0, <1>3, MyFacts DEF PutTargets, Phase
  <2>2. target' = [target EXCEPT ![x][OwnId] = req[p].alias] /\ exists' = exists
    BY <1>3, <2>1 DEF PutTargets
  <2>3. \A i \in Ids : target'[r][i] # target[r][i] => r = x /\ i = OwnId
    BY <1>0, <2>2 DEF BusOK
  <2>. QED  BY <2>1, <2>2, <2>3 DEF Targets
<1>4. ASSUME NEW x \in Rules, NEW i \in Ids, NEW arn \in Arns, OperatorCreates(x, i, arn)
      PROVE  Kept
  <2>1. r # x /\ exists' = exists \cup {x} /\ target' = [target EXCEPT ![x][i] = arn]
    BY <1>4 DEF OperatorCreates
  <2>2. target'[r] = target[r]
    BY <1>0, <2>1 DEF BusOK
  <2>. QED  BY <2>1, <2>2
<1>5. ASSUME NEW x \in Rules, NEW i \in Ids, OperatorAddsTarget(x, i)
      PROVE  Kept
  <2>1. /\ target[x][i] = Nothing /\ exists' = exists
        /\ target' = [target EXCEPT ![x][i] = "foreign"]
    BY <1>5 DEF OperatorAddsTarget
  <2>2. \A j \in Ids : target'[r][j] # target[r][j] => r = x /\ j = i
    BY <1>0, <2>1 DEF BusOK
  <2>. QED  BY <2>1, <2>2 DEF Targets
<1>6. ASSUME exists \subseteq exists', target' = target PROVE Kept
  BY <1>6
<1>7. ASSUME NEW p \in Procs, Work(p) \/ Crash(p) PROVE Kept
  BY <1>1, <1>2, <1>3, <1>6, <1>7
     DEF Work, Crash, ListByAlias, ListByArn, DescribeRule, ListTargets, ListTags,
         DeleteStateMachine, PutRule, TagResource, CallFails, bus
<1>8. CASE Operator
  BY <1>4, <1>5, <1>6, <1>8 DEF Operator, OperatorSwitches
<1>. QED
  BY <1>6, <1>7, <1>8 DEF Next, Start, vars, bus

(* No interleaving of deploys and deletes deletes a rule stefunny does not *)
(* manage, or takes a target of it away (eventbridge_service.go:288-316).  *)
THEOREM HandMadeSafe == Spec => HandMadeRulesKept
<1>1. IInv /\ [Next]_vars =>
        [\A r \in exists \ managed :
           /\ r \in exists'
           /\ \A i \in Targets(r) : target'[r][i] # target[r][i] =>
                i = OwnId /\ \E p \in Procs : r \in req[p].wanted /\ mem[p].cur = {r}]_vars
  BY HandMadeStep
<1>. QED  BY <1>1, Invariance, PTL DEF Spec, HandMadeRulesKept


-----------------------------------------------------------------------------
(* What a command knows while nobody works beside it *)

(* What a successful command leaves. *)
Settled(q) ==
  /\ q.wanted \subseteq exists \cap managed
  /\ \A r \in q.wanted : target[r][OwnId] = q.alias
  /\ q.alias # Unknown => \A r \in managed \ q.wanted : ~Related(r, q.alias)

(* A move of p, running for q, that knows what it does. *)
InformedMove(p, q) ==
  \E l, m : /\ Goto(p, l, m)
            /\ l = "ok" => q.op = "look" \/ Settled(q)'
            /\ l \in Ended \/ Informed(l, q, m)'

LEMMA InformedMoves ==
  ASSUME ProcsOK, NEW p \in Procs, NEW q, q = req[p], InformedMove(p, q)
  PROVE  /\ Informed(pc[p], req[p], mem[p])'
         /\ pc'[p] = "ok" => q.op = "look" \/ Settled(q)'
<1>1. PICK l, m : /\ Goto(p, l, m)
                  /\ l = "ok" => q.op = "look" \/ Settled(q)'
                  /\ l \in Ended \/ Informed(l, q, m)'
  BY DEF InformedMove
<1>2. pc'[p] = l
  BY <1>1 DEF Goto, ProcsOK
<1>3. ASSUME l \in Ended PROVE Informed(pc[p], req[p], mem[p])'
  <2>1. pc'[p] = l /\ mem'[p] = Fresh
    BY <1>1, <1>3 DEF Goto, ProcsOK
  <2>. QED  BY <1>3, <2>1 DEF Informed, Fresh, Ended, Calls, Writes
<1>4. ASSUME l \notin Ended PROVE Informed(pc[p], req[p], mem[p])'
  <2>1. pc'[p] = l /\ mem'[p] = m /\ req'[p] = q
    BY <1>1, <1>4 DEF Goto, ProcsOK
  <2>2. Informed(l, q, m)'
    BY <1>1, <1>4
  <2>. QED  BY <2>1, <2>2 DEF Informed, Cached, Found, Lacks, Sought, Related, Pointing
<1>. QED  BY <1>1, <1>2, <1>3, <1>4

(* A move to a call while nothing is written. *)
LEMMA ReadMove ==
  ASSUME UNCHANGED bus, NEW p, NEW q, NEW l \in Calls, NEW m, Goto(p, l, m),
         Informed(l, q, m)
  PROVE  InformedMove(p, q)
<1>1. Informed(l, q, m)'
  BY DEF Informed, Cached, Found, Lacks, Sought, Related, Pointing, bus
<1>2. l \notin Ended
  BY DEF Calls, Ended
<1>. QED  BY <1>1, <1>2 DEF InformedMove, Ended

LEMMA NextWriteInforms ==
  ASSUME NEW p, NEW q, NEW m, NextWrite(p, m), Lacks(q, m)', m.cur = {}
  PROVE  InformedMove(p, q)
<1>1. CASE m.remove # {}
  <2>1. Informed("RemoveTargets", q, m)'
    BY DEF Informed, Calls, Writes
  <2>. QED  BY <1>1, <2>1 DEF NextWrite, InformedMove
<1>2. CASE m.remove = {} /\ m.change \cup m.add # {}
  <2>1. Informed("PutRule", q, m)'
    BY DEF Informed, Calls, Writes
  <2>. QED  BY <1>2, <2>1 DEF NextWrite, InformedMove
<1>3. CASE m.remove = {} /\ m.change \cup m.add = {}
  <2>1. Settled(q)'
    BY <1>3 DEF Lacks, Settled
  <2>. QED  BY <1>3, <2>1 DEF NextWrite, InformedMove, Ended
<1>. QED  BY <1>1, <1>2, <1>3

(* Once all is cached and found, the plan is what is lacking. *)
LEMMA PlanInforms ==
  ASSUME BusOK, UNCHANGED bus, NEW p, NEW q, q = req[p], q \in RequestSet,
         NEW m \in Memory, Plan(p, m),
         Cached(m), Found(q, m), m.cur = {}, m.listed \subseteq m.known
  PROVE  InformedMove(p, q)
<1> DEFINE diff == Diff(m.listed, q.wanted)
           R == {r \in diff.remove : IsManagedBy(r, m)}
<1>1. PICK n : n = [m EXCEPT !.remove = R, !.change = diff.change, !.add = diff.add]
  OBVIOUS
<1>2. NextWrite(p, n)
  BY <1>1 DEF Plan
<1>3. /\ n.remove = (m.listed \ q.wanted) \cap m.managed
      /\ n.change = m.listed \cap q.wanted /\ n.add = q.wanted \ m.listed
      /\ n.cur = {} /\ n.listed = m.listed /\ n.on = m.on
  BY <1>1 DEF Memory, Diff, IsManagedBy
<1> HIDE DEF R, diff
<1>4. m.managed \subseteq Rules /\ m.listed \subseteq Rules /\ managed \subseteq exists
      /\ exists \subseteq Rules
  BY DEF Memory, BusOK
<1>5. \A r \in n.remove : Related(r, q.alias)
  BY <1>3 DEF Found, Sought
<1>6. ASSUME q.alias # Unknown, NEW r \in managed \ (q.wanted \cup n.remove)
      PROVE  ~Related(r, q.alias)
  <2>1. SUFFICES ASSUME Related(r, q.alias) PROVE FALSE
    OBVIOUS
  <2>2. r \in m.listed
    BY <1>4, <1>6, <2>1 DEF Found, Sought
  <2>. QED  BY <1>3, <1>6, <2>2 DEF Cached
<1>7. ASSUME NEW r \in exists \cap q.wanted
      PROVE  r \in m.listed /\ (r \in m.on <=> r \in on)
  BY <1>4, <1>7 DEF Found, Sought, Cached
<1>8. Lacks(q, n)
  BY <1>3, <1>5, <1>6, <1>7 DEF Lacks
<1>9. Lacks(q, n)'
  BY <1>8 DEF Lacks, Related, bus
<1>. QED  BY <1>2, <1>3, <1>9, NextWriteInforms

LEMMA DescribeInforms ==
  ASSUME BusOK, UNCHANGED bus, NEW p, NEW q, q = req[p], q \in RequestSet,
         NEW m \in Memory, Describe(p, m),
         Cached(m), Found(q, m), m.cur = {}
  PROVE  InformedMove(p, q)
<1>1. CASE ~ (m.listed \subseteq m.known)
  <2>1. Informed("DescribeRule", q, m) /\ "DescribeRule" \in Calls
    BY DEF Informed, Writes, Calls
  <2>. QED  BY <1>1, <2>1, ReadMove DEF Describe
<1>2. CASE m.listed \subseteq m.known /\ q.op = "look"
  BY <1>2 DEF Describe, EndSearch, InformedMove, Ended
<1>3. CASE m.listed \subseteq m.known /\ q.op = "delete" /\ ~m.again
  <2>1. Informed("DeleteStateMachine", q, m) /\ "DeleteStateMachine" \in Calls
    BY <1>3 DEF Informed, Writes, Calls
  <2>. QED  BY <1>3, <2>1, ReadMove DEF Describe, EndSearch
<1>4. CASE m.listed \subseteq m.known /\ q.op # "look" /\ ~ (q.op = "delete" /\ ~m.again)
  BY <1>4, PlanInforms DEF Describe, EndSearch
<1>. QED  BY <1>1, <1>2, <1>3, <1>4


(* What p knows at the call it is at. *)
Knows(p, q) == q = req[p] /\ q \in RequestSet /\ Informed(pc[p], q, mem[p])

LEMMA KnowsCall ==
  ASSUME NEW p, NEW q, Knows(p, q), pc[p] \in Calls
  PROVE  /\ pc[p] \notin Writes => Cached(mem[p])
         /\ pc[p] \in Writes => Lacks(q, mem[p])
BY DEF Knows, Informed

LEMMA SearchInforms ==
  ASSUME BusOK, ProcsInv, NEW p \in Procs, NEW q, Knows(p, q),
         ListByAlias(p) \/ ListByArn(p)
  PROVE  InformedMove(p, q)
<1>0. UNCHANGED bus /\ pc[p] \in Calls \ Writes /\ mem[p].cur = {} /\ Cached(mem[p])
      /\ q = req[p]
  BY DEF ListByAlias, ListByArn, Knows, Informed, Calls, Writes
<1>1. CASE ListByAlias(p)
  <2>1. PICK m : m = [mem[p] EXCEPT !.listed = Pointing(q.alias)]
    OBVIOUS
  <2>2. Goto(p, "ListByArn", m)
    BY <1>0, <1>1, <2>1 DEF ListByAlias
  <2>3. Informed("ListByArn", q, m)
    BY <1>0, <2>1, MyFacts, MemoryTypes DEF Informed, Cached, Memory, Writes
  <2>. QED  BY <1>0, <2>2, <2>3, ReadMove DEF Calls
<1>2. CASE ListByArn(p)
  <2> DEFINE bare == IF q.alias = Unknown THEN {} ELSE Pointing("bare")
  <2>1. PICK m : m = [mem[p] EXCEPT !.listed = @ \cup bare \cup q.wanted]
    OBVIOUS
  <2>2. Describe(p, m)
    BY <1>0, <1>2, <2>1 DEF ListByArn
  <2>3. /\ mem[p].listed = Pointing(q.alias)
        /\ bare \subseteq Rules /\ q.wanted \subseteq Rules
    BY <1>2, MyFacts, RequestTypes DEF ListByArn, Pointing, Knows, Informed
  <2>4. m \in Memory /\ m.listed = Pointing(q.alias) \cup bare \cup q.wanted
        /\ m.cur = {} /\ m.known = mem[p].known /\ m.managed = mem[p].managed
        /\ m.on = mem[p].on
    <3> HIDE DEF bare
    <3>. QED  BY <1>0, <2>1, <2>3, MyFacts, MemoryTypes DEF Memory
  <2>5. Cached(m)
    BY <1>0, <2>4 DEF Cached
  <2>6. q.alias = Unknown => Pointing(q.alias) = {}
    BY ArnsAssumption DEF BusOK, Pointing, Arns, Nothing, Unknown
  <2>7. Pointing(q.alias) \cup bare = {r \in Rules : Related(r, q.alias) /\ q.alias # Unknown}
    BY <2>6 DEF Pointing, Related
  <2>8. Found(q, m)
    BY <2>4, <2>7 DEF Found, Sought
  <2>. QED  BY <1>0, <2>2, <2>4, <2>5, <2>8, DescribeInforms DEF Knows
<1>. QED  BY <1>1, <1>2

LEMMA DescribeRuleInforms ==
  ASSUME BusOK, ProcsInv, NEW p \in Procs, NEW q, Knows(p, q), DescribeRule(p)
  PROVE  InformedMove(p, q)
<1>0. UNCHANGED bus /\ mem[p].cur = {} /\ Cached(mem[p]) /\ Found(q, mem[p])
      /\ q = req[p] /\ q \in RequestSet
  BY DEF DescribeRule, Knows, Informed, Calls, Writes
<1>1. PICK r \in mem[p].listed \ mem[p].known :
        IF r \in exists
        THEN Goto(p, "ListTargets",
                  [mem[p] EXCEPT !.cur = {r}, !.on = @ \cup (on \cap {r})])
        ELSE Describe(p, [mem[p] EXCEPT !.listed = @ \ {r}])
  BY DEF DescribeRule
<1>2. CASE r \in exists
  <2>1. PICK m : m = [mem[p] EXCEPT !.cur = {r}, !.on = @ \cup (on \cap {r})]
    OBVIOUS
  <2>2. m.cur = {r} /\ m.on = mem[p].on \cup (on \cap {r}) /\ m.known = mem[p].known
        /\ m.managed = mem[p].managed /\ m.listed = mem[p].listed
    BY <2>1, MyFacts, MemoryTypes DEF Memory
  <2>3. Informed("ListTargets", q, m)
    BY <1>0, <2>2 DEF Informed, Cached, Found, Writes
  <2>. QED  BY <1>0, <1>1, <1>2, <2>1, <2>3, ReadMove DEF Calls
<1>3. CASE r \notin exists
  <2>1. PICK m : m = [mem[p] EXCEPT !.listed = @ \ {r}]
    OBVIOUS
  <2>2. m \in Memory /\ m.cur = {} /\ m.on = mem[p].on /\ m.known = mem[p].known
        /\ m.managed = mem[p].managed /\ m.listed = mem[p].listed \ {r}
    BY <1>0, <2>1, MyFacts, MemoryTypes DEF Memory
  <2>3. Cached(m) /\ Found(q, m)
    BY <1>0, <1>3, <2>2 DEF Cached, Found
  <2>. QED  BY <1>0, <1>1, <1>3, <2>1, <2>2, <2>3, DescribeInforms
<1>. QED  BY <1>2, <1>3

LEMMA ListTargetsInforms ==
  ASSUME ProcsInv, NEW p \in Procs, NEW q, Knows(p, q), ListTargets(p)
  PROVE  InformedMove(p, q)
<1>0. UNCHANGED bus /\ Cached(mem[p]) /\ Found(q, mem[p])
  BY DEF ListTargets, Knows, Informed, Calls, Writes
<1> DEFINE mine == IF req[p].alias = Unknown THEN {} ELSE Aliases \cup {"bare"}
           aimed(r, S) == \E i \in S : target[r][i] \in mine
           M(r, S) == [mem[p] EXCEPT !.ids[r] = S,
                                     !.aimed = IF aimed(r, S) THEN @ \cup {r} ELSE @]
<1>1. PICK r, S : Goto(p, "ListTags", M(r, S))
  BY DEF ListTargets
<1> HIDE DEF aimed
<1>2. PICK m : m = M(r, S)
  OBVIOUS
<1>3. m.cur = mem[p].cur /\ m.on = mem[p].on /\ m.known = mem[p].known
      /\ m.managed = mem[p].managed /\ m.listed = mem[p].listed
  BY <1>2, MyFacts, MemoryTypes DEF Memory
<1> HIDE DEF M
<1>4. Informed("ListTags", q, m)
  BY <1>0, <1>3 DEF Informed, Cached, Found, Writes
<1>. QED  BY <1>0, <1>1, <1>2, <1>4, ReadMove DEF Calls

LEMMA ListTagsInforms ==
  ASSUME BusOK, ProcsInv, NEW p \in Procs, NEW q, Knows(p, q), ListTags(p)
  PROVE  InformedMove(p, q)
<1>0. UNCHANGED bus /\ Cached(mem[p]) /\ Found(q, mem[p]) /\ q = req[p] /\ q \in RequestSet
      /\ mem[p].cur \subseteq exists
  BY DEF ListTags, Knows, Informed, Calls, Writes
<1>1. PICK m : m = [mem[p] EXCEPT !.known = @ \cup mem[p].cur, !.cur = {},
                                  !.managed = @ \cup (managed \cap mem[p].cur)]
  OBVIOUS
<1>2. Describe(p, m)
  BY <1>1 DEF ListTags
<1>3. /\ m.cur = {} /\ m.on = mem[p].on /\ m.known = mem[p].known \cup mem[p].cur
      /\ m.managed = mem[p].managed \cup (managed \cap mem[p].cur)
      /\ m.listed = mem[p].listed
  BY <1>1, MyFacts, MemoryTypes DEF Memory
<1>4. m \in Memory
  BY <1>1, MyFacts, MemoryTypes DEF Memory
<1>5. Cached(m) /\ Found(q, m)
  BY <1>0, <1>3 DEF Cached, Found
<1>. QED  BY <1>0, <1>2, <1>3, <1>4, <1>5, DescribeInforms

LEMMA DeleteStateMachineInforms ==
  ASSUME BusOK, ProcsInv, NEW p \in Procs, NEW q, Knows(p, q), DeleteStateMachine(p)
  PROVE  InformedMove(p, q)
<1>0. /\ UNCHANGED bus /\ Cached(mem[p]) /\ Found(q, mem[p]) /\ mem[p].cur = {}
      /\ q = req[p] /\ q \in RequestSet /\ managed \subseteq exists /\ exists \subseteq Rules
  BY DEF DeleteStateMachine, Knows, Informed, Calls, Writes, BusOK
<1>1. q.wanted = {}
  BY <1>0, MyFacts DEF DeleteStateMachine, Phase, RequestSet
<1>2. CASE mem[p].listed = {}
  <2>1. Settled(q)
    BY <1>0, <1>1, <1>2 DEF Settled, Found, Sought
  <2>2. Settled(q)'
    BY <1>0, <2>1 DEF Settled, Related, bus
  <2>. QED  BY <1>2, <2>2 DEF DeleteStateMachine, InformedMove, Ended
<1>3. CASE mem[p].listed # {}
  <2>1. PICK m : m = [mem[p] EXCEPT !.again = TRUE]
    OBVIOUS
  <2>2. m.cur = {} /\ m.on = mem[p].on /\ m.known = mem[p].known
        /\ m.managed = mem[p].managed
    BY <1>0, <2>1, MyFacts, MemoryTypes DEF Memory
  <2>3. Informed("ListByAlias", q, m)
    BY <1>0, <2>2 DEF Informed, Cached, Writes
  <2>. QED  BY <1>0, <1>3, <2>1, <2>3, ReadMove DEF DeleteStateMachine, Calls
<1>. QED  BY <1>2, <1>3


LEMMA RemoveTargetsInforms ==
  ASSUME BusOK, ProcsInv, NEW p \in Procs, NEW q, Knows(p, q), RemoveTargets(p)
  PROVE  InformedMove(p, q)
<1>0. /\ UNCHANGED <<exists, managed, on>> /\ Lacks(q, mem[p]) /\ mem[p].cur = {}
      /\ q.alias \in Aliases \cup {Unknown} /\ q.wanted \subseteq Rules
      /\ managed \subseteq Rules
  BY DEF RemoveTargets, Knows, Informed, Calls, Writes, BusOK, RequestSet
<1>1. PICK r \in mem[p].remove :
        /\ target' = [target EXCEPT ![r] =
             [i \in Ids |-> IF i \in mem[p].ids[r] THEN Nothing ELSE @[i]]]
        /\ Goto(p, "DeleteRule", [mem[p] EXCEPT !.cur = {r}])
  BY DEF RemoveTargets
<1>2. PICK m : m = [mem[p] EXCEPT !.cur = {r}]
  OBVIOUS
<1>3. /\ m.cur = {r} /\ m.remove = mem[p].remove /\ m.change = mem[p].change
      /\ m.add = mem[p].add /\ m.listed = mem[p].listed /\ m.on = mem[p].on
      /\ r \in Rules /\ mem[p].remove \subseteq Rules
  BY <1>2, MyFacts, MemoryTypes DEF Memory
<1>4. \A x \in Rules \ {r} : target'[x] = target[x]
  BY <1>1 DEF BusOK
<1>5. ASSUME NEW x \in Rules, Related(x, q.alias)' PROVE Related(x, q.alias)
  <2>1. CASE x = r
    <3>1. PICK i \in Ids : target'[r][i] \in {q.alias, "bare"}
      BY <1>5, <2>1 DEF Related
    <3>2. target'[r][i] \in {Nothing, target[r][i]}
      BY <1>1, <1>3 DEF BusOK
    <3>3. Nothing \notin {q.alias, "bare"}
      BY <1>0, ArnsAssumption DEF Nothing, Unknown
    <3>. QED  BY <2>1, <3>1, <3>2, <3>3 DEF Related
  <2>2. CASE x # r
    BY <1>4, <1>5, <2>2 DEF Related
  <2>. QED  BY <2>1, <2>2
<1>6. \A x \in m.remove \ m.cur : Related(x, q.alias)'
  BY <1>0, <1>3, <1>4 DEF Lacks, Related
<1>7. \A x \in q.wanted \ (m.change \cup m.add) :
        x \in exists \cap managed /\ target'[x][OwnId] = q.alias
  BY <1>0, <1>3, <1>4 DEF Lacks
<1>8. Lacks(q, m)'
  BY <1>0, <1>3, <1>5, <1>6, <1>7 DEF Lacks
<1>9. Informed("DeleteRule", q, m)'
  BY <1>8 DEF Informed, Writes
<1>. QED  BY <1>1, <1>2, <1>9 DEF InformedMove

LEMMA DeleteRuleInforms ==
  ASSUME BusOK, ProcsInv, NEW p \in Procs, NEW q, Knows(p, q), DeleteRule(p)
  PROVE  InformedMove(p, q)
<1>0. Lacks(q, mem[p]) /\ q = req[p]
  BY DEF DeleteRule, Knows, Informed, Writes
<1>1. PICK m : m = [mem[p] EXCEPT !.remove = @ \ mem[p].cur, !.cur = {}]
  OBVIOUS
<1>2. /\ m.cur = {} /\ m.remove = mem[p].remove \ mem[p].cur /\ m.change = mem[p].change
      /\ m.add = mem[p].add /\ m.listed = mem[p].listed /\ m.on = mem[p].on
      /\ mem[p].cur \subseteq mem[p].remove /\ m.change \cup m.add \subseteq q.wanted
  BY <1>0, <1>1, MyFacts, MemoryTypes DEF Memory, Phase, DeleteRule
<1>3. /\ exists' = exists \ mem[p].cur /\ managed' = managed \ mem[p].cur
      /\ on' = on \ mem[p].cur /\ target' = target /\ NextWrite(p, m)
  BY <1>1 DEF DeleteRule
<1>4. Lacks(q, m)'
  BY <1>0, <1>2, <1>3 DEF Lacks, Related
<1>. QED  BY <1>2, <1>3, <1>4, NextWriteInforms

LEMMA PutRuleInforms ==
  ASSUME BusOK, ProcsInv, NEW p \in Procs, NEW q, Knows(p, q), PutRule(p)
  PROVE  InformedMove(p, q)
<1>0. Lacks(q, mem[p]) /\ q = req[p] /\ UNCHANGED target /\ mem[p].cur = {}
  BY DEF PutRule, Knows, Informed, Writes
<1>1. PICK r \in mem[p].change \cup mem[p].add :
        /\ exists' = exists \cup {r}
        /\ managed' = IF r \in exists THEN managed ELSE managed \cup {r}
        /\ on' = IF WantsOn(p, r) THEN on \cup {r} ELSE on \ {r}
        /\ Goto(p, "PutTargets", [mem[p] EXCEPT !.cur = {r}])
  BY DEF PutRule
<1>2. PICK m : m = [mem[p] EXCEPT !.cur = {r}]
  OBVIOUS
<1>3. /\ m.cur = {r} /\ m.remove = mem[p].remove /\ m.change = mem[p].change
      /\ m.add = mem[p].add /\ m.listed = mem[p].listed /\ m.on = mem[p].on
      /\ r \in q.wanted
  BY <1>0, <1>2, MyFacts, MemoryTypes DEF Memory, Phase
<1>4. Lacks(q, m)'
  BY <1>0, <1>1, <1>3 DEF Lacks, Related
<1>5. Informed("PutTargets", q, m)'
  BY <1>4 DEF Informed, Writes
<1>. QED  BY <1>1, <1>2, <1>5 DEF InformedMove

LEMMA PutTargetsInforms ==
  ASSUME BusOK, ProcsInv, NEW p \in Procs, NEW q, Knows(p, q), PutTargets(p)
  PROVE  InformedMove(p, q)
<1>0. /\ Lacks(q, mem[p]) /\ q = req[p] /\ UNCHANGED <<exists, managed, on>>
      /\ Goto(p, "TagResource", mem[p]) /\ managed \subseteq Rules
  BY DEF PutTargets, Knows, Informed, Writes, BusOK
<1>1. PICK r \in q.wanted : mem[p].cur = {r}
  BY <1>0, MyFacts DEF PutTargets, Phase
<1>2. /\ target' = [target EXCEPT ![r][OwnId] = q.alias]
      /\ r \in Rules /\ q.wanted \subseteq Rules /\ mem[p].remove \subseteq Rules
  BY <1>0, <1>1, MyFacts, RequestTypes, MemoryTypes DEF PutTargets
<1>3. \A x \in Rules \ {r} : target'[x] = target[x]
  BY <1>2 DEF BusOK
<1>4. target'[r][OwnId] = q.alias
  BY <1>2, OwnIdAssumption DEF BusOK
<1>5. PICK m : m = mem[p]
  OBVIOUS
<1>6. Lacks(q, m)'
  <2>1. \A x \in m.remove \ m.cur : Related(x, q.alias)'
    BY <1>0, <1>1, <1>2, <1>3, <1>5 DEF Lacks, Related
  <2>2. \A x \in q.wanted \ (m.change \cup m.add) :
          x \in exists \cap managed /\ target'[x][OwnId] = q.alias
    BY <1>0, <1>2, <1>3, <1>4, <1>5 DEF Lacks
  <2>3. q.alias # Unknown =>
          \A x \in managed \ (q.wanted \cup m.remove) : ~Related(x, q.alias)'
    BY <1>0, <1>1, <1>2, <1>3, <1>5 DEF Lacks, Related
  <2>. QED  BY <1>0, <1>5, <2>1, <2>2, <2>3 DEF Lacks
<1>7. Informed("TagResource", q, m)'
  BY <1>1, <1>4, <1>5, <1>6 DEF Informed, Writes
<1>. QED  BY <1>0, <1>5, <1>7 DEF InformedMove

LEMMA TagResourceInforms ==
  ASSUME BusOK, ProcsInv, NEW p \in Procs, NEW q, Knows(p, q), TagResource(p)
  PROVE  InformedMove(p, q)
<1>0. /\ Lacks(q, mem[p]) /\ q = req[p] /\ UNCHANGED <<exists, on, target>>
      /\ mem[p].cur \subseteq exists /\ managed' = managed \cup mem[p].cur
      /\ \A r \in mem[p].cur : target[r][OwnId] = q.alias
  BY DEF TagResource, Knows, Informed, Writes
<1>1. PICK m : m = [mem[p] EXCEPT !.change = @ \ mem[p].cur,
                                  !.add = @ \ mem[p].cur, !.cur = {}]
  OBVIOUS
<1>2. /\ m.cur = {} /\ m.remove = mem[p].remove /\ m.change = mem[p].change \ mem[p].cur
      /\ m.add = mem[p].add \ mem[p].cur /\ m.listed = mem[p].listed /\ m.on = mem[p].on
      /\ mem[p].cur \subseteq q.wanted
  BY <1>0, <1>1, MyFacts, MemoryTypes DEF Memory, Phase, TagResource
<1>3. NextWrite(p, m)
  BY <1>1 DEF TagResource
<1>4. Lacks(q, m)'
  BY <1>0, <1>2 DEF Lacks, Related
<1>. QED  BY <1>2, <1>3, <1>4, NextWriteInforms

(* Alone, a command goes on knowing, and what it leaves is settled. *)
LEMMA WorkInforms ==
  ASSUME IInv, NEW p \in Procs, Work(p) \/ Crash(p), Informed(pc[p], req[p], mem[p])
  PROVE  /\ Informed(pc[p], req[p], mem[p])'
         /\ \A q : q = req[p] /\ pc'[p] = "ok" => q.op = "look" \/ Settled(q)'
<1>0. BusOK /\ ProcsInv /\ ProcsOK
  BY DEF IInv, TypeOK, ProcsInv
<1>1. PICK q : q = req[p]
  OBVIOUS
<1>2. Knows(p, q)
  BY <1>0, <1>1, RequestTypes, RequestsAssumption DEF Knows
<1>3. ASSUME CallFails(p) \/ Crash(p) PROVE InformedMove(p, q)
  BY <1>3 DEF CallFails, Crash, InformedMove, Ended
<1>4. InformedMove(p, q)
  BY <1>0, <1>2, <1>3, SearchInforms, DescribeRuleInforms, ListTargetsInforms,
     ListTagsInforms, DeleteStateMachineInforms, RemoveTargetsInforms,
     DeleteRuleInforms, PutRuleInforms, PutTargetsInforms, TagResourceInforms DEF Work
<1>. QED  BY <1>0, <1>1, <1>4, InformedMoves


(* The steps of p that change targets. *)
LEMMA InformedAim ==
  ASSUME IInv, NEW p \in Procs, Work(p) \/ Crash(p), Informed(pc[p], req[p], mem[p]),
         NEW r \in Rules, Targets(r)' # Targets(r), r \notin req[p].wanted
  PROVE  Related(r, req[p].alias)
<1>0. BusOK /\ ProcsInv
  BY DEF IInv, TypeOK, ProcsInv
<1>1. CASE RemoveTargets(p)
  <2>1. Lacks(req[p], mem[p]) /\ mem[p].cur = {}
    BY <1>1 DEF RemoveTargets, Informed, Writes
  <2>2. PICK x \in mem[p].remove :
          target' = [target EXCEPT ![x] =
            [i \in Ids |-> IF i \in mem[p].ids[x] THEN Nothing ELSE @[i]]]
    BY <1>1 DEF RemoveTargets
  <2>3. r = x
    BY <1>0, <2>2 DEF BusOK, Targets
  <2>. QED  BY <2>1, <2>3 DEF Lacks
<1>2. CASE PutTargets(p)
  <2>1. PICK x \in req[p].wanted : mem[p].cur = {x}
    BY <1>0, <1>2, MyFacts DEF PutTargets, Phase
  <2>2. target' = [target EXCEPT ![x][OwnId] = req[p].alias]
    BY <1>2, <2>1 DEF PutTargets
  <2>. QED  BY <1>0, <2>1, <2>2 DEF BusOK, Targets
<1>3. CASE UNCHANGED target
  BY <1>3 DEF Targets
<1>. QED  BY <1>1, <1>2, <1>3, OtherCallsAim

(* The steps of p that switch rules. *)
LEMMA InformedSwitch ==
  ASSUME IInv, NEW p \in Procs, Work(p) \/ Crash(p), Informed(pc[p], req[p], mem[p]),
         req[p].keepState
  PROVE  on' \cap exists \cap exists' = on \cap exists \cap exists'
<1>1. CASE PutRule(p)
  <2>1. Lacks(req[p], mem[p]) /\ mem[p].cur = {}
    BY <1>1 DEF PutRule, Informed, Writes
  <2>2. PICK r \in mem[p].change \cup mem[p].add :
          on' = IF WantsOn(p, r) THEN on \cup {r} ELSE on \ {r}
    BY <1>1 DEF PutRule
  <2>3. r \in exists => (WantsOn(p, r) <=> r \in on)
    BY <2>1 DEF Lacks, WantsOn
  <2>. QED  BY <2>2, <2>3
<1>2. CASE DeleteRule(p)
  BY <1>2 DEF DeleteRule
<1>3. ASSUME ~PutRule(p), ~DeleteRule(p) PROVE UNCHANGED on
  BY <1>3 DEF Work, Crash, ListByAlias, ListByArn, DescribeRule, ListTargets, ListTags,
     DeleteStateMachine, RemoveTargets, PutTargets, TagResource, CallFails, bus
<1>. QED  BY <1>1, <1>2, <1>3

-----------------------------------------------------------------------------
(* One command at a time *)

OneProcess == \A p, q \in Procs : p = q

Informs == \A p \in Procs : Informed(pc[p], req[p], mem[p])

LEMMA InformsInit == Init => Informs
BY DEF Init, Informs, Informed, Fresh, Calls, Writes

LEMMA StartInforms ==
  ASSUME IInv, NEW p \in Procs, NEW q \in Requests, Start(p, q)
  PROVE  Informed(pc[p], req[p], mem[p])'
<1>1. pc'[p] = "ListByAlias" /\ mem'[p] = Fresh
  BY DEF Start, IInv, TypeOK, ProcsOK, Phase
<1>. QED  BY <1>1 DEF Informed, Cached, Fresh, Writes

LEMMA InformsNext ==
  ASSUME OneProcess, IInv, Informs, [Next]_vars
  PROVE  Informs'
<1>1. ASSUME NEW p \in Procs, NEW q \in Requests, Start(p, q) PROVE Informs'
  BY <1>1, StartInforms DEF OneProcess, Informs
<1>2. ASSUME NEW p \in Procs, Work(p) \/ Crash(p) PROVE Informs'
  BY <1>2, WorkInforms DEF OneProcess, Informs
<1>3. CASE Operator
  <2>1. UNCHANGED <<pc, req, mem>> /\ \A p \in Procs : pc[p] \in Ended
    BY <1>3 DEF Operator, OperatorCreates, OperatorAddsTarget, OperatorSwitches,
       OperatorWorks, Running, IInv, TypeOK, ProcsOK
  <2>. QED  BY <2>1 DEF Informs, Informed, Ended, Calls, Writes
<1>4. CASE UNCHANGED vars
  BY <1>4 DEF vars, Informs, Informed, Cached, Found, Lacks, Sought, Related, Pointing
<1>. QED  BY <1>1, <1>2, <1>3, <1>4 DEF Next

LEMMA OneInformed ==
  ASSUME OneProcess
  PROVE  Spec => [](IInv /\ Informs)
<1>1. Init => IInv /\ Informs
  BY InitInv, InformsInit
<1>2. IInv /\ Informs /\ [Next]_vars => (IInv /\ Informs)'
  BY NextInv, InformsNext
<1>. QED  BY <1>1, <1>2, PTL DEF Spec

(* While a process runs alone the steps are its own. *)
LEMMA OneWorks ==
  ASSUME OneProcess, [Next]_vars, NEW p \in Procs, Running(p)
  PROVE  Work(p) \/ Crash(p) \/ UNCHANGED vars
BY DEF OneProcess, Running, Next, Start, Ended, Calls, Operator, OperatorCreates,
   OperatorAddsTarget, OperatorSwitches, OperatorWorks

(* One command at a time, a deploy or delete that ends well leaves the     *)
(* rules as they are configured, whatever earlier commands failed or were  *)
(* killed and whatever was done by hand between them                       *)
(* (eventbridge_service.go:211-245; delete.go:69-74).                      *)
THEOREM ConfiguredRules ==
  ASSUME OneProcess
  PROVE  Spec => RulesAsConfigured
<1>1. ASSUME IInv, Informs, [Next]_vars, NEW p \in Procs, Ends(p, "ok"), req[p].op # "look"
      PROVE  /\ req[p].wanted \subseteq exists' \cap managed'
             /\ \A r \in req[p].wanted : target'[r][OwnId] = req[p].alias
             /\ req[p].alias # Unknown =>
                  \A r \in managed' \ req[p].wanted, i \in Ids :
                    target'[r][i] \notin {req[p].alias, "bare"}
  <2>1. Work(p) \/ Crash(p)
    BY <1>1, OneWorks DEF Ends, Running, Calls, vars
  <2>2. PICK q : q = req[p]
    OBVIOUS
  <2>3. Settled(q)'
    BY <1>1, <2>1, <2>2, WorkInforms DEF Informs, Ends
  <2>. QED  BY <2>2, <2>3 DEF Settled, Related
<1>2. IInv /\ Informs /\ [Next]_vars =>
        [\A p \in Procs : Ends(p, "ok") /\ req[p].op # "look" =>
           /\ req[p].wanted \subseteq exists' \cap managed'
           /\ \A r \in req[p].wanted : target'[r][OwnId] = req[p].alias
           /\ req[p].alias # Unknown =>
                \A r \in managed' \ req[p].wanted, i \in Ids :
                  target'[r][i] \notin {req[p].alias, "bare"}]_vars
  BY <1>1
<1>. QED  BY <1>2, OneInformed, PTL DEF Spec, RulesAsConfigured

(* One command at a time, a deploy without --trigger-enabled and           *)
(* --trigger-disabled switches no rule (eventbridge_rules.go:158-171).     *)
THEOREM StatesKept ==
  ASSUME OneProcess
  PROVE  Spec => StateKept
<1>1. IInv /\ Informs /\ [Next]_vars =>
        [\A p \in Procs : Running(p) /\ req[p].keepState =>
           on' \cap exists \cap exists' = on \cap exists \cap exists']_vars
  BY OneWorks, InformedSwitch DEF Informs, vars
<1>. QED  BY <1>1, OneInformed, PTL DEF Spec, StateKept

(* One command at a time, a command takes targets only from rules of its   *)
(* own alias or of the state machine itself                                *)
(* (eventbridge_service.go:62-76).                                         *)
THEOREM OtherAliasesSafe ==
  ASSUME OneProcess
  PROVE  Spec => OtherAliasesKept
<1>1. IInv /\ Informs /\ [Next]_vars =>
        [\A p \in Procs, r \in Rules :
           Running(p) /\ Targets(r)' # Targets(r) /\ r \notin req[p].wanted =>
             Related(r, req[p].alias)]_vars
  <2>1. UNCHANGED vars => \A r \in Rules : Targets(r)' = Targets(r)
    BY DEF vars, Targets
  <2>. QED  BY <2>1, OneWorks, InformedAim DEF Informs
<1>. QED  BY <1>1, OneInformed, PTL DEF Spec, OtherAliasesKept

=============================================================================
