-------------------------- MODULE SchedulerProofs --------------------------
(***************************************************************************)
(* Proofs about SchedulerService for every set of processes, names,        *)
(* groups, aliases and requests, every timing and every choice of faults.  *)
(***************************************************************************)
EXTENDS SchedulerProps, TLAPS

-----------------------------------------------------------------------------
(* Types *)

LEMMA FreshType == Fresh \in Memory
BY GroupsAssumption DEF Fresh, Memory, Groups

LEMMA AnyRequestType == AnyRequest \in Requests
BY RequestsAssumption DEF AnyRequest

LEMMA RequestTypes ==
  ASSUME ProcsOK, NEW p \in Procs
  PROVE  /\ req[p] \in Requests
         /\ req[p].alias # Unknown => req[p].alias \in Arns
         /\ req[p].wanted \in SUBSET Names
BY RequestsAssumption DEF ProcsOK, RequestSet, Arns

(* The fields of a process's memory. *)
LEMMA MemoryTypes ==
  ASSUME ProcsOK, NEW p \in Procs
  PROVE  /\ mem[p] \in Memory
         /\ mem[p].wanted \in SUBSET Names
         /\ mem[p].group \in Groups
         /\ mem[p].listed \in SUBSET Names
         /\ mem[p].name \in SUBSET Names
         /\ mem[p].found \in [Names -> 0..NGroups]
         /\ mem[p].absent \in SUBSET Names
         /\ mem[p].on \in SUBSET Names
         /\ mem[p].again \in BOOLEAN
         /\ mem[p].remove \in SUBSET Names
         /\ mem[p].change \in SUBSET Names
         /\ mem[p].add \in SUBSET Names
BY DEF ProcsOK, Memory

-----------------------------------------------------------------------------
(* Moves of one process *)

(* Call l and memory m fit what the invariant says of process p. *)
Fits(p, l, m) ==
  l \in Ended \/ (l \in Calls /\ m \in Memory /\ Planned(l, req[p], m))

GoodMove(p) == \E l, m : Fits(p, l, m) /\ Goto(p, l, m)

(* What has passed has passed. *)
TimeGoesOn ==
  \A n \in Names : HasItPassed(n) =>
    \/ Timing[n].end # 0 /\ now' > Timing[n].end
    \/ Timing[n].at # 0 /\ Timing[n].readable /\ now' > Timing[n].at

ProcsInv == ProcsOK /\ \A p \in Procs : Planned(pc[p], req[p], mem[p])

(* What a process has left out stays left out. *)
LEMMA PlannedStays ==
  ASSUME TimeGoesOn, NEW l, NEW q \in Requests, NEW m, Planned(l, q, m)
  PROVE  /\ l \in Ended => m = Fresh
         /\ l \in Writes => MayWrite(q, m)
         /\ l = "DeleteStateMachine" => q.op = "delete"
         /\ l \in Calls =>
              /\ m.wanted \subseteq q.wanted
              /\ \A n \in q.wanted \ m.wanted :
                   \/ Timing[n].end # 0 /\ now' > Timing[n].end
                   \/ Timing[n].at # 0 /\ Timing[n].readable /\ now' > Timing[n].at
              /\ m.remove \cap m.wanted = {}
              /\ m.change \cup m.add \subseteq m.wanted
<1>1. q.wanted \subseteq Names
  BY RequestsAssumption DEF RequestSet
<1>. QED  BY <1>1 DEF TimeGoesOn, Planned

(* A process that makes a fitting move keeps the invariant of all. *)
LEMMA MoveKeeps ==
  ASSUME ProcsInv, NEW p \in Procs, GoodMove(p), TimeGoesOn
  PROVE  ProcsInv'
<1>1. PICK l, m : Fits(p, l, m) /\ Goto(p, l, m)
  BY DEF GoodMove
<1> DEFINE mm == IF l \in Ended THEN Fresh ELSE m
           qq == IF l \in Ended THEN AnyRequest ELSE req[p]
<1>2. /\ pc' = [pc EXCEPT ![p] = l]
      /\ mem' = [mem EXCEPT ![p] = mm]
      /\ req' = [req EXCEPT ![p] = qq]
  BY <1>1 DEF Goto
<1>3. l \in Ended \cup Calls /\ mm \in Memory /\ qq \in Requests
  BY <1>1, FreshType, AnyRequestType DEF Fits, ProcsInv, ProcsOK
<1>4. Planned(l, qq, mm)
  <2>1. CASE l \in Ended
    BY <2>1 DEF Planned, Ended, Calls, Writes
  <2>2. CASE l \notin Ended
    BY <1>1, <2>2 DEF Fits
  <2>. QED  BY <2>1, <2>2
<1> HIDE DEF mm, qq
<1>5. ProcsOK'
  BY <1>2, <1>3 DEF ProcsInv, ProcsOK
<1>6. ASSUME NEW o \in Procs PROVE Planned(pc[o], req[o], mem[o])'
  <2>1. CASE o = p
    <3>1. pc'[o] = l /\ req'[o] = qq /\ mem'[o] = mm
      BY <1>2, <2>1 DEF ProcsInv, ProcsOK
    <3>. QED  BY <1>3, <1>4, <3>1, PlannedStays DEF Planned, HasItPassed, Fresh, MayWrite
  <2>2. CASE o # p
    <3>1. pc'[o] = pc[o] /\ req'[o] = req[o] /\ mem'[o] = mem[o]
      BY <1>2, <2>2 DEF ProcsInv, ProcsOK
    <3>2. Planned(pc[o], req[o], mem[o]) /\ req[o] \in Requests
      BY DEF ProcsInv, ProcsOK
    <3>. QED  BY <3>1, <3>2, PlannedStays DEF Planned, HasItPassed, Fresh, MayWrite
  <2>. QED  BY <2>1, <2>2
<1>. QED  BY <1>5, <1>6 DEF ProcsInv

LEMMA SameTime ==
  ASSUME UNCHANGED now
  PROVE  TimeGoesOn
BY DEF TimeGoesOn, HasItPassed

(* What the invariant says of one process. *)
LEMMA MyFacts ==
  ASSUME ProcsInv, NEW p \in Procs
  PROVE  ProcsOK /\ Planned(pc[p], req[p], mem[p])
BY DEF ProcsInv

LEMMA EndMove ==
  ASSUME NEW p \in Procs, NEW l \in Ended, NEW m, Goto(p, l, m)
  PROVE  GoodMove(p)
BY DEF GoodMove, Fits

(* What every memory of a running process obeys. *)
Sound(q, m) ==
  /\ m.wanted \subseteq q.wanted
  /\ \A n \in q.wanted \ m.wanted : HasItPassed(n)
  /\ m.remove \cap m.wanted = {}
  /\ m.change \cup m.add \subseteq m.wanted

LEMMA PlainMove ==
  ASSUME NEW p \in Procs, NEW m \in Memory, Sound(req[p], m),
         NEW l \in Ended \cup Calls, Goto(p, l, m),
         l \in Writes => MayWrite(req[p], m),
         l = "DeleteStateMachine" => req[p].op = "delete"
  PROVE  GoodMove(p)
<1>1. l \notin Ended => Planned(l, req[p], m)
  BY DEF Planned, Sound
<1>. QED  BY <1>1 DEF GoodMove, Fits

LEMMA MySound ==
  ASSUME ProcsInv, NEW p \in Procs, pc[p] \in Calls
  PROVE  mem[p] \in Memory /\ Sound(req[p], mem[p])
BY MyFacts, MemoryTypes DEF Planned, Sound

(* A memory that differs in what the search has found only. *)
LEMMA SoundSearch ==
  ASSUME NEW q, NEW m, Sound(q, m), NEW mm,
         mm.wanted = m.wanted, mm.remove = m.remove,
         mm.change = m.change, mm.add = m.add
  PROVE  Sound(q, mm)
BY DEF Sound

LEMMA NextWriteMove ==
  ASSUME NEW p \in Procs, NEW m \in Memory, Sound(req[p], m),
         MayWrite(req[p], m), NextWrite(p, m)
  PROVE  GoodMove(p)
<1>1. CASE m.remove # {}
  BY <1>1, PlainMove DEF NextWrite, Calls, Ended
<1>2. CASE m.remove = {} /\ m.change # {}
  BY <1>2, PlainMove DEF NextWrite, Calls, Ended
<1>3. CASE m.remove \cup m.change = {} /\ m.add # {}
  BY <1>3, PlainMove DEF NextWrite, Calls, Ended
<1>4. CASE m.remove = {} /\ m.change = {} /\ m.add = {}
  BY <1>4, PlainMove DEF NextWrite, Calls, Ended
<1>. QED  BY <1>1, <1>2, <1>3, <1>4

LEMMA PlanMove ==
  ASSUME NEW p \in Procs, NEW m \in Memory, Sound(req[p], m),
         MayWrite(req[p], m), Plan(p, m)
  PROVE  GoodMove(p)
<1> DEFINE diff == Diff(Found(m), m.wanted)
           mm == [m EXCEPT !.remove = diff.remove,
                           !.change = diff.change, !.add = diff.add]
<1>1. diff.remove \subseteq Names /\ diff.change \subseteq Names /\ diff.add \subseteq Names
  BY DEF Diff, Found, Memory
<1>2. diff.remove \cap m.wanted = {} /\ diff.change \cup diff.add \subseteq m.wanted
  BY DEF Diff
<1> HIDE DEF diff
<1>3. mm \in Memory
  BY <1>1 DEF Memory
<1>4. Sound(req[p], mm) /\ MayWrite(req[p], mm)
  BY <1>2 DEF Sound, Memory, MayWrite
<1>5. NextWrite(p, mm)
  BY DEF Plan, diff
<1> HIDE DEF mm
<1>. QED  BY <1>3, <1>4, <1>5, NextWriteMove

LEMMA LookupMove ==
  ASSUME NEW p \in Procs, NEW m \in Memory, Sound(req[p], m), Lookup(p, m)
  PROVE  GoodMove(p)
<1>1. CASE Unseen(m) # {}
  BY <1>1, PlainMove DEF Lookup, Calls, Writes
<1>2. CASE Unseen(m) = {} /\ req[p].op = "look"
  BY <1>2, EndMove DEF Lookup, EndSearch, Ended
<1>3. CASE Unseen(m) = {} /\ req[p].op = "delete" /\ ~m.again
  BY <1>3, PlainMove DEF Lookup, EndSearch, Calls, Writes
<1>4. CASE /\ Unseen(m) = {} /\ req[p].op # "look"
           /\ ~ (req[p].op = "delete" /\ ~m.again)
  <2>1. MayWrite(req[p], m)
    BY <1>4 DEF MayWrite
  <2>. QED  BY <1>4, <2>1, PlanMove DEF Lookup, EndSearch
<1>. QED  BY <1>1, <1>2, <1>3, <1>4

LEMMA ListGroupsMove ==
  ASSUME ProcsInv, NEW p \in Procs, ListGroups(p)
  PROVE  GoodMove(p)
<1>1. pc[p] \in Calls /\ Goto(p, "ListSchedules", mem[p])
  BY DEF ListGroups, Calls
<1>. QED  BY <1>1, MySound, PlainMove DEF Calls, Writes

LEMMA ListSchedulesMove ==
  ASSUME ProcsInv, NEW p \in Procs, ListSchedules(p)
  PROVE  GoodMove(p)
<1> DEFINE g == mem[p].group
           m == [mem[p] EXCEPT !.listed = @ \cup Related(g, req[p].alias)]
<1>0. pc[p] \in Calls
  BY DEF ListSchedules, Calls
<1>1. m \in Memory /\ Sound(req[p], m)
  <2>1. m \in Memory
    BY MyFacts, MemoryTypes DEF Memory, Related
  <2>. QED  BY <1>0, <2>1, MySound, SoundSearch DEF Memory
<1>2. CASE g < NGroups
  <2> DEFINE mm == [m EXCEPT !.group = g + 1]
  <2>1. Goto(p, "ListSchedules", mm)
    BY <1>2 DEF ListSchedules
  <2>2. g + 1 \in Groups
    BY <1>2, GroupsAssumption, MyFacts, MemoryTypes DEF Groups
  <2> HIDE DEF m
  <2>3. mm \in Memory
    BY <1>1, <2>2 DEF Memory
  <2>4. Sound(req[p], mm)
    BY <1>1, SoundSearch DEF Memory
  <2> HIDE DEF mm
  <2>. QED  BY <2>1, <2>3, <2>4, PlainMove DEF Calls, Writes
<1>3. CASE ~ (g < NGroups)
  <2> DEFINE mm == [m EXCEPT !.group = 1]
  <2>1. Lookup(p, mm)
    BY <1>3 DEF ListSchedules
  <2>2. 1 \in Groups
    BY GroupsAssumption DEF Groups
  <2> HIDE DEF m
  <2>3. mm \in Memory
    BY <1>1, <2>2 DEF Memory
  <2>4. Sound(req[p], mm)
    BY <1>1, SoundSearch DEF Memory
  <2> HIDE DEF mm
  <2>. QED  BY <2>1, <2>3, <2>4, LookupMove
<1>. QED  BY <1>2, <1>3

LEMMA UnseenType ==
  ASSUME ProcsInv, NEW p \in Procs
  PROVE  Unseen(mem[p]) \cup mem[p].name \subseteq Names
BY MyFacts, MemoryTypes DEF Unseen

LEMMA GetScheduleMove ==
  ASSUME ProcsInv, NEW p \in Procs, GetSchedule(p)
  PROVE  GoodMove(p)
<1> DEFINE g == mem[p].group
           A(n) == [mem[p] EXCEPT
                      !.name = {}, !.group = 1, !.found[n] = g,
                      !.on = IF <<g, n>> \in on THEN @ \cup {n} ELSE @]
           B(n) == [mem[p] EXCEPT !.name = {n}, !.group = g + 1]
           C(n) == [mem[p] EXCEPT !.name = {}, !.group = 1, !.absent = @ \cup {n}]
<1>1. PICK n \in Unseen(mem[p]) \cup mem[p].name :
        \/ Lookup(p, A(n))
        \/ g < NGroups /\ Goto(p, "GetSchedule", B(n))
        \/ Lookup(p, C(n))
  BY DEF GetSchedule
<1>2. pc[p] \in Calls
  BY DEF GetSchedule, Calls
<1>3. n \in Names /\ g \in Groups /\ g \in 0..NGroups /\ 1 \in Groups
  BY UnseenType, GroupsAssumption, MyFacts, MemoryTypes DEF Groups
<1>4. mem[p] \in Memory /\ Sound(req[p], mem[p])
  BY <1>2, MySound
<1>5. CASE Lookup(p, A(n))
  <2>1. [mem[p].found EXCEPT ![n] = g] \in [Names -> 0..NGroups]
    BY <1>3, <1>4 DEF Memory
  <2>2. (IF <<g, n>> \in on THEN mem[p].on \cup {n} ELSE mem[p].on) \in SUBSET Names
    BY <1>3, <1>4 DEF Memory
  <2>3. A(n) \in Memory
    BY <1>3, <1>4, <2>1, <2>2 DEF Memory
  <2>4. Sound(req[p], A(n))
    <3>1. /\ A(n).wanted = mem[p].wanted /\ A(n).remove = mem[p].remove
          /\ A(n).change = mem[p].change /\ A(n).add = mem[p].add
      BY <1>4 DEF Memory
    <3> HIDE DEF A
    <3>. QED  BY <1>4, <3>1, SoundSearch
  <2> HIDE DEF A
  <2>. QED  BY <1>5, <2>3, <2>4, LookupMove
<1>6. CASE g < NGroups /\ Goto(p, "GetSchedule", B(n))
  <2>1. g + 1 \in Groups
    BY <1>3, <1>6, GroupsAssumption DEF Groups
  <2>2. B(n) \in Memory
    BY <1>3, <1>4, <2>1 DEF Memory
  <2>3. Sound(req[p], B(n))
    <3>1. /\ B(n).wanted = mem[p].wanted /\ B(n).remove = mem[p].remove
          /\ B(n).change = mem[p].change /\ B(n).add = mem[p].add
      BY <1>4 DEF Memory
    <3> HIDE DEF B
    <3>. QED  BY <1>4, <3>1, SoundSearch
  <2> HIDE DEF B
  <2>. QED  BY <1>6, <2>2, <2>3, PlainMove DEF Calls, Writes
<1>7. CASE Lookup(p, C(n))
  <2>1. C(n) \in Memory
    BY <1>3, <1>4 DEF Memory
  <2>2. Sound(req[p], C(n))
    <3>1. /\ C(n).wanted = mem[p].wanted /\ C(n).remove = mem[p].remove
          /\ C(n).change = mem[p].change /\ C(n).add = mem[p].add
      BY <1>4 DEF Memory
    <3> HIDE DEF C
    <3>. QED  BY <1>4, <3>1, SoundSearch
  <2> HIDE DEF C
  <2>. QED  BY <1>7, <2>1, <2>2, LookupMove
<1>. QED  BY <1>1, <1>5, <1>6, <1>7

LEMMA DeleteStateMachineMove ==
  ASSUME ProcsInv, NEW p \in Procs, DeleteStateMachine(p)
  PROVE  GoodMove(p)
<1>1. CASE Found(mem[p]) = {}
  BY <1>1, EndMove DEF DeleteStateMachine, Ended
<1>2. CASE Found(mem[p]) # {}
  <2> DEFINE m == [mem[p] EXCEPT !.again = TRUE, !.absent = {}]
  <2>1. pc[p] \in Calls /\ Lookup(p, m)
    BY <1>2 DEF DeleteStateMachine, Calls
  <2>2. m \in Memory
    BY MyFacts, MemoryTypes DEF Memory
  <2>3. Sound(req[p], m)
    <3>1. /\ m.wanted = mem[p].wanted /\ m.remove = mem[p].remove
          /\ m.change = mem[p].change /\ m.add = mem[p].add
      BY MyFacts, MemoryTypes DEF Memory
    <3> HIDE DEF m
    <3>. QED  BY <2>1, <3>1, MySound, SoundSearch
  <2> HIDE DEF m
  <2>. QED  BY <2>1, <2>2, <2>3, LookupMove
<1>. QED  BY <1>1, <1>2

(* A write done leaves the rest of the plan. *)
LEMMA WriteMove ==
  ASSUME ProcsInv, NEW p \in Procs, pc[p] \in Writes, NEW R, NEW C, NEW A,
         R \subseteq mem[p].remove, C \subseteq mem[p].change, A \subseteq mem[p].add,
         NextWrite(p, [mem[p] EXCEPT !.remove = R, !.change = C, !.add = A])
  PROVE  GoodMove(p)
<1> DEFINE m == [mem[p] EXCEPT !.remove = R, !.change = C, !.add = A]
<1>1. m \in Memory
  BY MyFacts, MemoryTypes DEF Memory
<1>2. Sound(req[p], m) /\ MayWrite(req[p], m)
  <2>1. pc[p] \in Calls
    BY DEF Writes, Calls
  <2>2. MayWrite(req[p], mem[p])
    BY MyFacts DEF Planned
  <2>. QED  BY <2>1, <2>2, MySound DEF Sound, Memory, MayWrite
<1> HIDE DEF m
<1>3. NextWrite(p, m)
  BY DEF m
<1>. QED  BY <1>1, <1>2, <1>3, NextWriteMove

LEMMA DeleteScheduleMove ==
  ASSUME ProcsInv, NEW p \in Procs, DeleteSchedule(p)
  PROVE  GoodMove(p)
<1>1. PICK n \in mem[p].remove : NextWrite(p, [mem[p] EXCEPT !.remove = @ \ {n}])
  BY DEF DeleteSchedule
<1> DEFINE m == [mem[p] EXCEPT !.remove = mem[p].remove \ {n},
                               !.change = mem[p].change, !.add = mem[p].add]
<1>2. [mem[p] EXCEPT !.remove = @ \ {n}] = m
  BY MyFacts, MemoryTypes DEF Memory
<1>3. NextWrite(p, m)
  BY <1>1, <1>2
<1>4. pc[p] \in Writes
  BY DEF DeleteSchedule, Writes
<1>. QED  BY <1>3, <1>4, WriteMove

LEMMA UpdateScheduleMove ==
  ASSUME ProcsInv, NEW p \in Procs, UpdateSchedule(p)
  PROVE  GoodMove(p)
<1>1. PICK n \in mem[p].change : NextWrite(p, [mem[p] EXCEPT !.change = @ \ {n}])
  BY DEF UpdateSchedule
<1> DEFINE m == [mem[p] EXCEPT !.remove = mem[p].remove,
                               !.change = mem[p].change \ {n}, !.add = mem[p].add]
<1>2. [mem[p] EXCEPT !.change = @ \ {n}] = m
  BY MyFacts, MemoryTypes DEF Memory
<1>3. NextWrite(p, m)
  BY <1>1, <1>2
<1>4. pc[p] \in Writes
  BY DEF UpdateSchedule, Writes
<1>. QED  BY <1>3, <1>4, WriteMove

LEMMA CreateScheduleMove ==
  ASSUME ProcsInv, NEW p \in Procs, CreateSchedule(p)
  PROVE  GoodMove(p)
<1>1. PICK n \in mem[p].add : NextWrite(p, [mem[p] EXCEPT !.add = @ \ {n}])
  BY DEF CreateSchedule
<1> DEFINE m == [mem[p] EXCEPT !.remove = mem[p].remove,
                               !.change = mem[p].change, !.add = mem[p].add \ {n}]
<1>2. [mem[p] EXCEPT !.add = @ \ {n}] = m
  BY MyFacts, MemoryTypes DEF Memory
<1>3. NextWrite(p, m)
  BY <1>1, <1>2
<1>4. pc[p] \in Writes
  BY DEF CreateSchedule, Writes
<1>. QED  BY <1>3, <1>4, WriteMove

-----------------------------------------------------------------------------
(* The store *)

LEMMA ReadKeeps ==
  ASSUME StoreOK, UNCHANGED <<store, now>>
  PROVE  StoreOK' /\ TimeGoesOn
BY SameTime DEF StoreOK, store, Exists

(* A schedule is deleted. *)
LEMMA DropKeeps ==
  ASSUME StoreOK, NEW g \in Groups, NEW n \in Names, UNCHANGED now,
         target' = [target EXCEPT ![g][n] = Nothing], on' = on \ {<<g, n>>}
  PROVE  StoreOK'
<1>1. target' \in [Groups -> [Names -> Arns \cup {Nothing}]]
  BY DEF StoreOK
<1>2. ASSUME NEW k \in on' PROVE Exists(k[1], k[2])'
  <2>1. k \in on /\ k \in Groups \X Names /\ k # <<g, n>> /\ Exists(k[1], k[2])
    BY DEF StoreOK
  <2>2. target'[k[1]][k[2]] = target[k[1]][k[2]]
    BY <2>1 DEF StoreOK
  <2>. QED  BY <2>1, <2>2 DEF Exists
<1>. QED  BY <1>1, <1>2 DEF StoreOK

(* A schedule is put. *)
LEMMA PutKeeps ==
  ASSUME StoreOK, NEW g \in Groups, NEW n \in Names, NEW arn \in Arns, UNCHANGED now,
         target' = [target EXCEPT ![g][n] = arn],
         on' \subseteq on \cup {<<g, n>>}
  PROVE  StoreOK'
<1>0. arn # Nothing
  BY ArnsAssumption DEF Arns, Nothing
<1>1. target' \in [Groups -> [Names -> Arns \cup {Nothing}]]
  BY DEF StoreOK
<1>2. ASSUME NEW k \in on' PROVE k \in Groups \X Names /\ Exists(k[1], k[2])'
  <2>1. CASE k = <<g, n>>
    BY <1>0, <2>1 DEF StoreOK, Exists
  <2>2. CASE k # <<g, n>>
    <3>1. k \in on /\ k \in Groups \X Names /\ Exists(k[1], k[2])
      BY <2>2 DEF StoreOK
    <3>2. target'[k[1]][k[2]] = target[k[1]][k[2]]
      BY <2>2, <3>1 DEF StoreOK
    <3>. QED  BY <3>1, <3>2 DEF Exists
  <2>. QED  BY <2>1, <2>2
<1>. QED  BY <1>1, <1>2 DEF StoreOK

LEMMA DeleteScheduleStore ==
  ASSUME StoreOK, ProcsInv, NEW p \in Procs, DeleteSchedule(p)
  PROVE  StoreOK' /\ TimeGoesOn
<1>1. PICK n \in mem[p].remove :
        /\ target' = [target EXCEPT ![DefaultGroup][n] = Nothing]
        /\ on' = on \ {<<DefaultGroup, n>>}
  BY DEF DeleteSchedule
<1>2. n \in Names /\ DefaultGroup \in Groups /\ UNCHANGED now
  BY MyFacts, MemoryTypes, GroupsAssumption DEF DeleteSchedule
<1>. QED  BY <1>1, <1>2, DropKeeps, SameTime

LEMMA PutStore ==
  ASSUME StoreOK, ProcsInv, NEW p \in Procs, NEW n \in Names, Put(p, n),
         req[p].alias # Unknown
  PROVE  StoreOK' /\ TimeGoesOn
<1>1. /\ target' = [target EXCEPT ![ConfigGroup[n]][n] = req[p].alias]
      /\ on' \subseteq on \cup {<<ConfigGroup[n], n>>} /\ UNCHANGED now
  BY DEF Put
<1>2. ConfigGroup[n] \in Groups /\ req[p].alias \in Arns
  BY GroupsAssumption, MyFacts, RequestTypes
<1>. QED  BY <1>1, <1>2, PutKeeps, SameTime

-----------------------------------------------------------------------------
(* Steps *)

LEMMA WorkMove ==
  ASSUME StoreOK, ProcsInv, NEW p \in Procs, Work(p) \/ Crash(p)
  PROVE  GoodMove(p) /\ StoreOK' /\ TimeGoesOn
<1>1. CASE ListGroups(p)
  BY <1>1, ListGroupsMove, ReadKeeps DEF ListGroups
<1>2. CASE ListSchedules(p)
  BY <1>2, ListSchedulesMove, ReadKeeps DEF ListSchedules
<1>3. CASE GetSchedule(p)
  BY <1>3, GetScheduleMove, ReadKeeps DEF GetSchedule
<1>4. CASE DeleteStateMachine(p)
  BY <1>4, DeleteStateMachineMove, ReadKeeps DEF DeleteStateMachine
<1>5. CASE DeleteSchedule(p)
  BY <1>5, DeleteScheduleMove, DeleteScheduleStore
<1>6. CASE UpdateSchedule(p)
  <2>1. PICK n \in mem[p].change : Put(p, n) /\ req[p].alias # Unknown
    BY <1>6 DEF UpdateSchedule
  <2>. QED  BY <1>6, <2>1, UpdateScheduleMove, PutStore, MyFacts, MemoryTypes
<1>7. CASE CreateSchedule(p)
  <2>1. PICK n \in mem[p].add : Put(p, n) /\ req[p].alias # Unknown
    BY <1>7 DEF CreateSchedule
  <2>. QED  BY <1>7, <2>1, CreateScheduleMove, PutStore, MyFacts, MemoryTypes
<1>8. CASE CallFails(p)
  BY <1>8, EndMove, ReadKeeps DEF CallFails, Ended
<1>9. CASE Crash(p)
  BY <1>9, EndMove, ReadKeeps DEF Crash, Ended
<1>. QED
  BY <1>1, <1>2, <1>3, <1>4, <1>5, <1>6, <1>7, <1>8, <1>9 DEF Work

LEMMA StartStep ==
  ASSUME StoreOK, ProcsInv, NEW p \in Procs, NEW q \in Requests, Start(p, q)
  PROVE  StoreOK' /\ ProcsInv'
<1> DEFINE m == [mem[p] EXCEPT !.wanted = NewSchedules(q)]
<1>1. mem[p] = Fresh
  BY MyFacts DEF Start, Planned
<1>2. /\ pc' = [pc EXCEPT ![p] = "ListGroups"] /\ req' = [req EXCEPT ![p] = q]
      /\ mem' = [mem EXCEPT ![p] = m] /\ UNCHANGED <<store, now>>
  BY DEF Start, ProcsInv, ProcsOK
<1>3. NewSchedules(q) \subseteq Names /\ NewSchedules(q) \subseteq q.wanted
  BY RequestsAssumption DEF NewSchedules, RequestSet
<1>4. m \in Memory
  BY <1>3, MyFacts, MemoryTypes DEF Memory
<1>5. ProcsOK'
  BY <1>2, <1>4 DEF ProcsInv, ProcsOK, Calls
<1>6. Planned("ListGroups", q, m)
  BY <1>1, <1>3 DEF Planned, Fresh, NewSchedules, Ended, Writes
<1> HIDE DEF m
<1>7. ASSUME NEW o \in Procs PROVE Planned(pc[o], req[o], mem[o])'
  <2>1. CASE o = p
    <3>1. pc'[o] = "ListGroups" /\ req'[o] = q /\ mem'[o] = m
      BY <1>2, <2>1 DEF ProcsInv, ProcsOK
    <3>. QED  BY <1>2, <1>6, <3>1 DEF Planned, HasItPassed, Fresh, MayWrite, Writes
  <2>2. CASE o # p
    <3>1. pc'[o] = pc[o] /\ req'[o] = req[o] /\ mem'[o] = mem[o]
      BY <1>2, <2>2 DEF ProcsInv, ProcsOK
    <3>. QED  BY <1>2, <3>1, MyFacts DEF Planned, HasItPassed, Fresh, MayWrite
  <2>. QED  BY <2>1, <2>2
<1>. QED  BY <1>2, <1>5, <1>7, ReadKeeps DEF ProcsInv

LEMMA TimePassesStep ==
  ASSUME StoreOK, ProcsInv, TimePasses
  PROVE  StoreOK' /\ ProcsInv'
<1>1. now \in Nat /\ now' = now + 1 /\ UNCHANGED <<store, pc, req, mem>>
  BY DEF TimePasses, StoreOK
<1>2. TimeGoesOn
  BY <1>1, TimingAssumption DEF TimeGoesOn, HasItPassed
<1>3. ASSUME NEW o \in Procs PROVE Planned(pc[o], req[o], mem[o])'
  <2>1. Planned(pc[o], req[o], mem[o]) /\ req[o] \in Requests
    BY DEF ProcsInv, ProcsOK
  <2>. QED  BY <1>1, <1>2, <2>1, PlannedStays DEF Planned, HasItPassed, Fresh, MayWrite
<1>. QED  BY <1>1, <1>3 DEF ProcsInv, ProcsOK, StoreOK, store, Exists

LEMMA OperatorStep ==
  ASSUME StoreOK, Operator
  PROVE  StoreOK' /\ UNCHANGED <<now, pc, req, mem>>
<1>1. PICK g \in Groups, n \in Names :
        \/ \E arn \in Arns : OperatorCreates(g, n, arn)
        \/ OperatorDeletes(g, n)
        \/ OperatorSwitches(g, n)
  BY DEF Operator
<1>2. ASSUME NEW arn \in Arns, OperatorCreates(g, n, arn)
      PROVE  StoreOK' /\ UNCHANGED <<now, pc, req, mem>>
  BY <1>2, PutKeeps DEF OperatorCreates
<1>3. CASE OperatorDeletes(g, n)
  BY <1>3, DropKeeps DEF OperatorDeletes
<1>4. CASE OperatorSwitches(g, n)
  BY <1>4 DEF OperatorSwitches, StoreOK, Exists
<1>. QED  BY <1>1, <1>2, <1>3, <1>4

LEMMA StillKeeps ==
  ASSUME ProcsInv, UNCHANGED <<now, pc, req, mem>>
  PROVE  ProcsInv'
BY DEF ProcsInv, ProcsOK, Planned, HasItPassed, Fresh, MayWrite

LEMMA InitInv == Init => IInv
<1> SUFFICES ASSUME Init PROVE IInv
  OBVIOUS
<1>1. StoreOK
  BY DEF Init, StoreOK
<1>2. ProcsOK
  BY FreshType, AnyRequestType DEF Init, ProcsOK, Ended
<1>3. \A p \in Procs : Planned(pc[p], req[p], mem[p])
  BY DEF Init, Planned, Calls, Writes
<1>. QED  BY <1>1, <1>2, <1>3 DEF IInv, TypeOK

LEMMA NextInv == IInv /\ [Next]_vars => IInv'
<1> SUFFICES ASSUME IInv, [Next]_vars PROVE IInv'
  OBVIOUS
<1>1. StoreOK /\ ProcsInv
  BY DEF IInv, TypeOK, ProcsInv
<1>2. StoreOK' /\ ProcsInv'
  <2>1. ASSUME NEW p \in Procs, NEW q \in Requests, Start(p, q)
        PROVE  StoreOK' /\ ProcsInv'
    BY <1>1, <2>1, StartStep
  <2>2. ASSUME NEW p \in Procs, Work(p) \/ Crash(p)
        PROVE  StoreOK' /\ ProcsInv'
    BY <1>1, <2>2, WorkMove, MoveKeeps
  <2>3. CASE TimePasses
    BY <1>1, <2>3, TimePassesStep
  <2>4. CASE Operator
    BY <1>1, <2>4, OperatorStep, StillKeeps
  <2>5. CASE UNCHANGED vars
    BY <1>1, <2>5, ReadKeeps, StillKeeps DEF vars, store
  <2>. QED  BY <2>1, <2>2, <2>3, <2>4, <2>5 DEF Next
<1>. QED  BY <1>2 DEF IInv, TypeOK, ProcsInv

(* Every reachable state satisfies the inductive invariant, whatever the   *)
(* number of processes, groups and schedules (scheduler_service.go:        *)
(* 220-276).                                                               *)
THEOREM Invariance == Spec => []IInv
<1>. QED  BY InitInv, NextInv, PTL DEF Spec

(* Every state is well typed, and only a schedule that exists has a state. *)
THEOREM TypeCorrect == Spec => []TypeOK
<1>1. IInv => TypeOK
  BY DEF IInv
<1>. QED  BY <1>1, Invariance, PTL

-----------------------------------------------------------------------------
(* What one command does, for the modules that run it with others *)

(* A step of p moves p alone, and only an end changes its request. *)
LEMMA WorkFrame ==
  ASSUME IInv, NEW p \in Procs, Work(p) \/ Crash(p)
  PROVE  /\ \A q \in Procs \ {p} :
              pc'[q] = pc[q] /\ req'[q] = req[q] /\ mem'[q] = mem[q]
         /\ pc'[p] \notin Ended => req'[p] = req[p]
<1>1. StoreOK /\ ProcsInv
  BY DEF IInv, TypeOK, ProcsInv
<1>2. PICK l, m : Goto(p, l, m)
  BY <1>1, WorkMove DEF GoodMove
<1>. QED  BY <1>1, <1>2 DEF Goto, ProcsInv, ProcsOK

(* The calls of p that change no schedule. *)
LEMMA OtherCallsRead ==
  ASSUME NEW p, Work(p) \/ Crash(p),
         ~ (DeleteSchedule(p) \/ UpdateSchedule(p) \/ CreateSchedule(p))
  PROVE  UNCHANGED store
BY DEF Work, Crash, ListGroups, ListSchedules, GetSchedule, DeleteStateMachine, CallFails

(* A command takes one schedule away, or puts one of its configuration,    *)
(* when it may write.                                                      *)
LEMMA TargetMoves ==
  ASSUME IInv, NEW p \in Procs, Work(p) \/ Crash(p)
  PROVE  \/ UNCHANGED target
         \/ /\ MayWrite(req[p], mem[p])
            /\ \E g \in Groups, n \in Names : target' = [target EXCEPT ![g][n] = Nothing]
         \/ /\ MayWrite(req[p], mem[p]) /\ req[p].alias # Unknown
            /\ \E n \in req[p].wanted :
                 target' = [target EXCEPT ![ConfigGroup[n]][n] = req[p].alias]
<1>0. StoreOK /\ ProcsInv
  BY DEF IInv, TypeOK, ProcsInv
<1>1. CASE DeleteSchedule(p)
  <2>1. PICK n \in mem[p].remove : target' = [target EXCEPT ![DefaultGroup][n] = Nothing]
    BY <1>1 DEF DeleteSchedule
  <2>2. n \in Names /\ DefaultGroup \in Groups /\ MayWrite(req[p], mem[p])
    BY <1>0, <1>1, MyFacts, MemoryTypes, GroupsAssumption DEF DeleteSchedule, Planned, Writes
  <2>. QED  BY <2>1, <2>2
<1>2. CASE UpdateSchedule(p) \/ CreateSchedule(p)
  <2>1. PICK n \in mem[p].change \cup mem[p].add : Put(p, n) /\ req[p].alias # Unknown
    BY <1>2 DEF UpdateSchedule, CreateSchedule
  <2>2. n \in req[p].wanted /\ MayWrite(req[p], mem[p])
    BY <1>0, <1>2, MyFacts DEF UpdateSchedule, CreateSchedule, Planned, Writes, Calls
  <2>. QED  BY <2>1, <2>2 DEF Put
<1>. QED  BY <1>1, <1>2, OtherCallsRead DEF store

(* A command that only looks changes nothing (deploy.go:202-219). *)
LEMMA LookReads ==
  ASSUME IInv, NEW p \in Procs, Work(p) \/ Crash(p), req[p].op = "look"
  PROVE  UNCHANGED store
<1>1. pc[p] \notin Writes
  BY DEF IInv, Planned, MayWrite
<1>. QED
  BY <1>1, OtherCallsRead DEF Writes, DeleteSchedule, UpdateSchedule, CreateSchedule

(* Planning and looking up keep in mind whether the search is the second.  *)
LEMMA LookupKeepsAgain ==
  ASSUME ProcsOK, NEW p \in Procs, NEW m \in Memory, Lookup(p, m), mem'[p].again
  PROVE  m.again /\ pc'[p] # "DeleteStateMachine"
<1>0. pc \in [Procs -> Ended \cup Calls] /\ mem \in [Procs -> Memory]
  BY DEF ProcsOK
<1>1. ASSUME NEW l, NEW mm, Goto(p, l, mm), mm.again = m.again,
             l = "DeleteStateMachine" => ~m.again
      PROVE  m.again /\ pc'[p] # "DeleteStateMachine"
  <2>1. pc'[p] = l /\ mem'[p] = IF l \in Ended THEN Fresh ELSE mm
    BY <1>0, <1>1 DEF Goto
  <2>2. Fresh.again = FALSE
    BY DEF Fresh
  <2>3. mem'[p] = Fresh \/ mem'[p] = mm
    BY <2>1
  <2>. QED  BY <1>1, <2>1, <2>2, <2>3
<1>2. CASE Plan(p, m)
  <2> DEFINE diff == Diff(Found(m), m.wanted)
             mm == [m EXCEPT !.remove = diff.remove, !.change = diff.change,
                             !.add = diff.add]
  <2>1. NextWrite(p, mm)
    BY <1>2 DEF Plan
  <2> HIDE DEF diff
  <2>2. mm.again = m.again
    BY DEF Memory
  <2> HIDE DEF mm
  <2>3. PICK l : Goto(p, l, mm) /\ l # "DeleteStateMachine"
    <3>1. CASE mm.remove # {}
      BY <2>1, <3>1 DEF NextWrite
    <3>2. CASE mm.remove = {} /\ mm.change # {}
      BY <2>1, <3>2 DEF NextWrite
    <3>3. CASE mm.remove = {} /\ mm.change = {} /\ mm.add # {}
      BY <2>1, <3>3 DEF NextWrite
    <3>4. CASE mm.remove = {} /\ mm.change = {} /\ mm.add = {}
      BY <2>1, <3>4 DEF NextWrite
    <3>. QED  BY <3>1, <3>2, <3>3, <3>4
  <2>. QED  BY <1>1, <2>2, <2>3
<1>3. CASE Goto(p, "ok", Fresh)
  <2>1. Fresh.again = FALSE /\ mem'[p] = Fresh
    BY <1>0, <1>3 DEF Goto, Fresh
  <2>. QED  BY <2>1
<1>4. CASE Goto(p, "GetSchedule", m)
  BY <1>1, <1>4
<1>5. CASE ~m.again /\ Goto(p, "DeleteStateMachine", m)
  BY <1>1, <1>5
<1>. QED  BY <1>2, <1>3, <1>4, <1>5 DEF Lookup, EndSearch

(* Only the deletion of the state machine lets a process search again.     *)
LEMMA SearchesAgain ==
  ASSUME IInv, NEW p \in Procs, Work(p) \/ Crash(p), mem'[p].again, ~mem[p].again
  PROVE  DeleteStateMachine(p)
<1>0. ProcsOK /\ mem[p] \in Memory /\ StoreOK /\ ProcsInv
  BY DEF IInv, TypeOK, ProcsOK, ProcsInv
<1>1. ASSUME NEW l, NEW m, Goto(p, l, m), m.again = mem[p].again \/ m.again = FALSE
      PROVE  FALSE
  <2>1. mem'[p] = IF l \in Ended THEN Fresh ELSE m
    BY <1>0, <1>1 DEF Goto, ProcsOK
  <2>2. mem'[p] = Fresh \/ mem'[p] = m
    BY <2>1
  <2>. QED  BY <1>1, <2>2 DEF Fresh
<1>2. ASSUME NEW m, NextWrite(p, m), m.again = mem[p].again PROVE FALSE
  BY <1>1, <1>2 DEF NextWrite
<1>3. CASE ListGroups(p)
  BY <1>1, <1>3 DEF ListGroups
<1>4. CASE ListSchedules(p)
  <2> DEFINE g == mem[p].group
             L == mem[p].listed \cup Related(g, req[p].alias)
             m(h) == [mem[p] EXCEPT !.listed = L, !.group = h]
  <2>1. Goto(p, "ListSchedules", m(g + 1)) \/ Lookup(p, m(1))
    BY <1>0, <1>4 DEF ListSchedules, Memory
  <2>2. L \in SUBSET Names /\ 1 \in Groups
    BY <1>0, GroupsAssumption DEF Memory, Related, Groups
  <2> HIDE DEF L
  <2>3. m(1) \in Memory /\ \A h : m(h).again = mem[p].again
    BY <1>0, <2>2 DEF Memory
  <2> HIDE DEF m
  <2>. QED  BY <1>0, <1>1, <2>1, <2>3, LookupKeepsAgain
<1>5. CASE GetSchedule(p)
  <2> DEFINE g == mem[p].group
             A(n) == [mem[p] EXCEPT
                        !.name = {}, !.group = 1, !.found[n] = g,
                        !.on = IF <<g, n>> \in on THEN @ \cup {n} ELSE @]
             B(n) == [mem[p] EXCEPT !.name = {n}, !.group = g + 1]
             C(n) == [mem[p] EXCEPT !.name = {}, !.group = 1, !.absent = @ \cup {n}]
  <2>1. PICK n \in Unseen(mem[p]) \cup mem[p].name :
          Lookup(p, A(n)) \/ Goto(p, "GetSchedule", B(n)) \/ Lookup(p, C(n))
    BY <1>5 DEF GetSchedule
  <2>2. n \in Names /\ g \in 0..NGroups /\ 1 \in Groups
    BY <1>0, UnseenType, GroupsAssumption DEF Groups, Memory
  <2>3. A(n) \in Memory /\ A(n).again = mem[p].again
    <3>1. [mem[p].found EXCEPT ![n] = g] \in [Names -> 0..NGroups]
      BY <1>0, <2>2 DEF Memory
    <3>2. (IF <<g, n>> \in on THEN mem[p].on \cup {n} ELSE mem[p].on) \in SUBSET Names
      BY <1>0, <2>2 DEF Memory
    <3>. QED  BY <1>0, <2>2, <3>1, <3>2 DEF Memory
  <2>4. C(n) \in Memory /\ C(n).again = mem[p].again /\ B(n).again = mem[p].again
    BY <1>0, <2>2 DEF Memory
  <2> HIDE DEF A, B, C
  <2>. QED  BY <1>0, <1>1, <2>1, <2>3, <2>4, LookupKeepsAgain
<1>6. CASE DeleteSchedule(p) \/ UpdateSchedule(p) \/ CreateSchedule(p)
  <2>1. PICK n : \/ NextWrite(p, [mem[p] EXCEPT !.remove = @ \ {n}])
                 \/ NextWrite(p, [mem[p] EXCEPT !.change = @ \ {n}])
                 \/ NextWrite(p, [mem[p] EXCEPT !.add = @ \ {n}])
    BY <1>6 DEF DeleteSchedule, UpdateSchedule, CreateSchedule
  <2> DEFINE A == [mem[p] EXCEPT !.remove = @ \ {n}]
             B == [mem[p] EXCEPT !.change = @ \ {n}]
             C == [mem[p] EXCEPT !.add = @ \ {n}]
  <2>2. A.again = mem[p].again /\ B.again = mem[p].again /\ C.again = mem[p].again
    BY <1>0 DEF Memory
  <2>3. NextWrite(p, A) \/ NextWrite(p, B) \/ NextWrite(p, C)
    BY <2>1
  <2> HIDE DEF A, B, C
  <2>. QED  BY <1>2, <2>2, <2>3
<1>7. CASE CallFails(p) \/ Crash(p)
  <2>1. \E l : Goto(p, l, Fresh) /\ Fresh.again = FALSE
    BY <1>7 DEF CallFails, Crash, Fresh
  <2>. QED  BY <1>1, <2>1
<1>. QED  BY <1>3, <1>4, <1>5, <1>6, <1>7 DEF Work

(* Having deleted the state machine, a process does not come back to it.   *)
LEMMA DeletionGoesOn ==
  ASSUME IInv, NEW p \in Procs, DeleteStateMachine(p)
  PROVE  pc'[p] \in {"ok"} \cup (Calls \ {"DeleteStateMachine"})
<1>0. ProcsOK /\ pc \in [Procs -> Ended \cup Calls] /\ mem[p] \in Memory
  BY DEF IInv, TypeOK, ProcsOK
<1>1. CASE Found(mem[p]) = {}
  BY <1>0, <1>1 DEF DeleteStateMachine, Goto
<1>2. CASE Found(mem[p]) # {}
  <2>0. {"ok", "GetSchedule", "DeleteSchedule", "UpdateSchedule", "CreateSchedule"}
          \subseteq {"ok"} \cup (Calls \ {"DeleteStateMachine"})
    BY DEF Calls
  <2> DEFINE m == [mem[p] EXCEPT !.again = TRUE, !.absent = {}]
  <2>1. Lookup(p, m)
    BY <1>2 DEF DeleteStateMachine
  <2>2. m.again
    BY <1>0 DEF Memory
  <2> HIDE DEF m
  <2>3. PICK l, mm :
          /\ Goto(p, l, mm)
          /\ l \in {"ok", "GetSchedule", "DeleteSchedule", "UpdateSchedule", "CreateSchedule"}
    <3>1. CASE Unseen(m) # {}
      BY <2>1, <3>1 DEF Lookup
    <3>2. CASE Unseen(m) = {}
      <4>1. Goto(p, "ok", Fresh) \/ Plan(p, m)
        BY <2>1, <2>2, <3>2 DEF Lookup, EndSearch
      <4>. QED  BY <4>1 DEF Plan, NextWrite
    <3>. QED  BY <3>1, <3>2
  <2>. QED  BY <1>0, <2>0, <2>3 DEF Goto
<1>. QED  BY <1>1, <1>2

-----------------------------------------------------------------------------
(* Schedules still to fire *)

(* What the program takes for passed is over when it is as many hours      *)
(* later as the zone is behind UTC.                                        *)
LEMMA PassedIsOver ==
  ASSUME StoreOK, NEW n \in Names, HasItPassed(n)
  PROVE  OverBy(n, now + HoursBehindUTC(n))
<1>1. /\ Timing[n].end \in Nat /\ Timing[n].at \in Nat /\ Timing[n].zone \in Int
      /\ now \in Nat
  BY TimingAssumption DEF StoreOK
<1>. QED  BY <1>1 DEF HasItPassed, OverBy, HoursBehindUTC

LEMMA OnlyDeleteScheduleMoves ==
  ASSUME IInv, Next, NEW p \in Procs, pc[p] = "DeleteSchedule", mem'[p] # mem[p],
         NEW g \in Groups, NEW n \in Names, Exists(g, n), ~Exists(g, n)'
  PROVE  n \in mem[p].remove
<1>1. pc \in [Procs -> Ended \cup Calls] /\ mem \in [Procs -> Memory]
  BY DEF IInv, TypeOK, ProcsOK
<1>2. ASSUME NEW o \in Procs, NEW l, NEW m, Goto(o, l, m) PROVE o = p
  BY <1>1, <1>2 DEF Goto
<1>3. UNCHANGED target => FALSE
  BY DEF Exists
<1>4. ASSUME NEW o \in Procs, NEW q \in Requests, Start(o, q) PROVE FALSE
  BY <1>3, <1>4 DEF Start, store
<1>5. ASSUME NEW o \in Procs, Work(o) \/ Crash(o) PROVE o = p
  BY <1>2, <1>5, WorkMove DEF GoodMove, IInv, TypeOK, ProcsInv
<1>6. CASE DeleteSchedule(p)
  <2>1. PICK x \in mem[p].remove : target' = [target EXCEPT ![DefaultGroup][x] = Nothing]
    BY <1>6 DEF DeleteSchedule
  <2>2. x # n => target'[g][n] = target[g][n]
    BY <2>1 DEF IInv, TypeOK, StoreOK
  <2>. QED  BY <2>1, <2>2 DEF Exists
<1>7. ASSUME Work(p) \/ Crash(p) PROVE DeleteSchedule(p)
  BY <1>3, <1>7 DEF Work, Crash, ListGroups, ListSchedules, GetSchedule,
       DeleteStateMachine, UpdateSchedule, CreateSchedule, CallFails, store
<1>8. ~Operator /\ ~TimePasses
  BY DEF Operator, OperatorCreates, OperatorDeletes, OperatorSwitches, TimePasses
<1>. QED  BY <1>4, <1>5, <1>6, <1>7, <1>8 DEF Next

LEMMA EarlyStep ==
  ASSUME IInv, [Next]_vars, NEW p \in Procs, NEW g \in Groups, NEW n \in Names,
         Removes(p, g, n)
  PROVE  n \notin req[p].wanted \/ OverBy(n, now + HoursBehindUTC(n))
<1>1. Next /\ n \in mem[p].remove
  BY OnlyDeleteScheduleMoves DEF Removes, vars
<1>2. pc[p] \in Calls
  BY DEF Removes, Calls
<1>3. n \in req[p].wanted => HasItPassed(n)
  BY <1>1, <1>2 DEF IInv, Planned
<1>. QED  BY <1>3, PassedIsOver DEF IInv, TypeOK

(* In any time zones no interleaving of deploys and deletes deletes a      *)
(* schedule that the deleting command configures earlier than by the hours *)
(* its zone is behind UTC: with a zone at or ahead of UTC never before it  *)
(* has fired (schedule.go:53-87; scheduler_service.go:220-247).            *)
THEOREM EarlyByItsZone == Spec => EarlyByItsZoneOnly
<1>1. IInv /\ [Next]_vars =>
        [\A p \in Procs, g \in Groups, n \in Names :
           Removes(p, g, n) =>
             n \notin req[p].wanted \/ OverBy(n, now + HoursBehindUTC(n))]_vars
  BY EarlyStep
<1>. QED  BY <1>1, Invariance, PTL DEF Spec, EarlyByItsZoneOnly

-----------------------------------------------------------------------------
(* What a command knows while nobody works beside it *)

(* What a successful command leaves, that was to put the schedules W. *)
Settled(q, W) ==
  /\ \A n \in W : target[ConfigGroup[n]][n] = q.alias
  /\ RelatedNames(q.alias) \subseteq W

(* A move of p, running for q and W, that knows what it does. *)
InformedMove(p, q, W) ==
  \E l, m : /\ Goto(p, l, m)
            /\ l = "ok" => q.op = "look" \/ Settled(q, W)'
            /\ l \in Ended \/ Informed(l, q, m)'

LEMMA InformedMoves ==
  ASSUME ProcsOK, NEW p \in Procs, NEW q, q = req[p], NEW W, InformedMove(p, q, W)
  PROVE  /\ Informed(pc[p], req[p], mem[p])'
         /\ pc'[p] = "ok" => q.op = "look" \/ Settled(q, W)'
<1>1. PICK l, m : /\ Goto(p, l, m)
                  /\ l = "ok" => q.op = "look" \/ Settled(q, W)'
                  /\ l \in Ended \/ Informed(l, q, m)'
  BY DEF InformedMove
<1>2. pc'[p] = l
  BY <1>1 DEF Goto, ProcsOK
<1>3. ASSUME l \in Ended PROVE Informed(pc[p], req[p], mem[p])'
  BY <1>2, <1>3 DEF Informed, Ended, Calls, Writes
<1>4. ASSUME l \notin Ended PROVE Informed(pc[p], req[p], mem[p])'
  <2>1. pc'[p] = l /\ mem'[p] = m /\ req'[p] = q
    BY <1>1, <1>4 DEF Goto, ProcsOK
  <2>2. Informed(l, q, m)'
    BY <1>1, <1>4
  <2>. QED
    BY <2>1, <2>2 DEF Informed, Cached, Listed, LookedFor, Lacks, RelatedNames, Related,
       Exists, Found, Unseen
<1>. QED  BY <1>1, <1>2, <1>3, <1>4

(* What is known of the schedules stays known while they stay. *)
LEMMA StoreStays ==
  ASSUME UNCHANGED store, NEW l, NEW q, NEW m, NEW W
  PROVE  /\ Informed(l, q, m)' <=> Informed(l, q, m)
         /\ Settled(q, W)' <=> Settled(q, W)
         /\ Lacks(q, m)' <=> Lacks(q, m)
BY DEF Informed, Cached, Listed, LookedFor, Lacks, RelatedNames, Related, Exists, store,
   Settled

LEMMA ReadMove ==
  ASSUME UNCHANGED store, NEW p, NEW q, NEW W, NEW l \in Calls, NEW m, Goto(p, l, m),
         Informed(l, q, m)
  PROVE  InformedMove(p, q, W)
<1>1. l \notin Ended
  BY DEF Calls, Ended
<1>2. Informed(l, q, m)'
  BY StoreStays
<1>. QED  BY <1>1, <1>2 DEF InformedMove, Ended

LEMMA NextWriteInforms ==
  ASSUME NEW p, NEW q, NEW m, NEW W, W = m.wanted, NextWrite(p, m), Lacks(q, m)'
  PROVE  InformedMove(p, q, W)
<1>1. ASSUME NEW l \in Writes PROVE Informed(l, q, m)' /\ l \notin Ended
  BY <1>1 DEF Informed, Calls, Writes, Ended
<1>2. CASE m.remove # {}
  BY <1>1, <1>2 DEF NextWrite, InformedMove, Writes
<1>3. CASE m.remove = {} /\ m.change # {}
  BY <1>1, <1>3 DEF NextWrite, InformedMove, Writes
<1>4. CASE m.remove \cup m.change = {} /\ m.add # {}
  BY <1>1, <1>4 DEF NextWrite, InformedMove, Writes
<1>5. CASE m.remove = {} /\ m.change = {} /\ m.add = {}
  <2>1. Settled(q, W)'
    BY <1>5 DEF Lacks, Settled
  <2>. QED  BY <1>5, <2>1 DEF NextWrite, InformedMove, Ended
<1>. QED  BY <1>2, <1>3, <1>4, <1>5

(* Once all is cached and listed, the plan is what is lacking. *)
LEMMA PlanInforms ==
  ASSUME UNCHANGED store, NEW p, NEW q \in RequestSet, NEW m \in Memory, Plan(p, m),
         Cached(m), Listed(q, m), Unseen(m) = {}, NEW W, W = m.wanted
  PROVE  InformedMove(p, q, W)
<1> DEFINE diff == Diff(Found(m), m.wanted)
<1>1. PICK n : n = [m EXCEPT !.remove = diff.remove, !.change = diff.change, !.add = diff.add]
  OBVIOUS
<1>2. NextWrite(p, n)
  BY <1>1 DEF Plan
<1>3. /\ n.remove = Found(m) \ m.wanted /\ n.change = Found(m) \cap m.wanted
      /\ n.add = m.wanted \ Found(m) /\ n.wanted = m.wanted
      /\ n.found = m.found /\ n.on = m.on
  BY <1>1 DEF Memory, Diff
<1> HIDE DEF diff
<1>4. \A x \in RelatedNames(q.alias) : x \in Names /\ \E g \in Groups : Exists(g, x)
  <2>1. q.alias \in Aliases \cup {Unknown}
    BY DEF RequestSet
  <2>. QED
    BY <2>1, ArnsAssumption DEF RelatedNames, Related, Exists, Nothing
<1>5. RelatedNames(q.alias) \subseteq Found(m)
  BY <1>4 DEF Listed, Unseen, Cached
<1>6. m.wanted \ Found(m) \subseteq m.absent
  BY DEF Unseen
<1>7. \A x \in Found(m) : m.found[x] # 0
  BY DEF Found
<1>8. Lacks(q, n)
  BY <1>3, <1>5, <1>6, <1>7 DEF Lacks, Cached, Listed
<1>. QED  BY <1>2, <1>3, <1>8, StoreStays, NextWriteInforms


LEMMA LookupInforms ==
  ASSUME UNCHANGED store, NEW p, NEW q \in RequestSet, q = req[p],
         NEW m \in Memory, Lookup(p, m),
         Cached(m), Listed(q, m), m.name = {}, m.group = 1, NEW W, W = m.wanted
  PROVE  InformedMove(p, q, W)
<1>1. CASE Unseen(m) # {}
  <2>1. Informed("GetSchedule", q, m)
    BY DEF Informed, LookedFor, Writes
  <2>. QED  BY <1>1, <2>1, ReadMove DEF Lookup, Calls
<1>2. CASE Unseen(m) = {} /\ q.op = "look"
  BY <1>2 DEF Lookup, EndSearch, InformedMove, Ended
<1>3. CASE Unseen(m) = {} /\ q.op = "delete" /\ ~m.again
  <2>1. Informed("DeleteStateMachine", q, m)
    BY <1>3 DEF Informed, Writes
  <2>. QED  BY <1>3, <2>1, ReadMove DEF Lookup, EndSearch, Calls
<1>4. CASE Unseen(m) = {} /\ q.op # "look" /\ ~ (q.op = "delete" /\ ~m.again)
  BY <1>4, PlanInforms DEF Lookup, EndSearch
<1>. QED  BY <1>1, <1>2, <1>3, <1>4

(* What p knows at the call it is at. *)
Knows(p, q) == q = req[p] /\ q \in RequestSet /\ Informed(pc[p], q, mem[p])

LEMMA ListGroupsInforms ==
  ASSUME ProcsInv, NEW p \in Procs, NEW q, Knows(p, q), ListGroups(p), NEW W
  PROVE  InformedMove(p, q, W)
<1>1. PICK m : m = mem[p]
  OBVIOUS
<1>2. UNCHANGED store /\ Goto(p, "ListSchedules", m) /\ m.group = 1 /\ m.listed = {}
      /\ Cached(m) /\ Found(m) = {} /\ m.absent = {} /\ m.name = {}
  BY <1>1 DEF ListGroups, Knows, Informed, Calls, Writes
<1>3. Informed("ListSchedules", q, m)
  BY <1>2 DEF Informed, Writes
<1>. QED  BY <1>2, <1>3, ReadMove DEF Calls

LEMMA ListSchedulesInforms ==
  ASSUME ProcsInv, NEW p \in Procs, NEW q, Knows(p, q), ListSchedules(p),
         NEW W, W = mem[p].wanted
  PROVE  InformedMove(p, q, W)
<1>0. PICK g : g = mem[p].group
  OBVIOUS
<1>1. /\ UNCHANGED store /\ Cached(mem[p]) /\ Found(mem[p]) = {} /\ mem[p].absent = {}
      /\ mem[p].name = {} /\ q = req[p] /\ q \in RequestSet
      /\ mem[p].listed = UNION {Related(h, q.alias) : h \in 1..(g - 1)}
  BY <1>0 DEF ListSchedules, Knows, Informed, Calls, Writes
<1>2. g \in 1..NGroups /\ NGroups \in Nat
  BY <1>0, GroupsAssumption, MyFacts, MemoryTypes DEF Groups
<1>3. mem[p].listed \cup Related(g, q.alias) = UNION {Related(h, q.alias) : h \in 1..g}
  <2>1. 1..g = 1..(g - 1) \cup {g}
    BY <1>2
  <2>. QED  BY <1>1, <2>1
<1>4. ASSUME NEW k \in Groups,
             NEW m, m = [[mem[p] EXCEPT !.listed = @ \cup Related(g, q.alias)]
                           EXCEPT !.group = k]
      PROVE  /\ m \in Memory /\ m.group = k /\ m.name = {} /\ m.wanted = W
             /\ m.listed = UNION {Related(h, q.alias) : h \in 1..g}
             /\ Cached(m) /\ Found(m) = {} /\ m.absent = {}
  <2>1. /\ m.group = k /\ m.name = mem[p].name /\ m.wanted = W /\ m.absent = mem[p].absent
        /\ m.listed = mem[p].listed \cup Related(g, q.alias)
        /\ m.found = mem[p].found /\ m.on = mem[p].on
    BY <1>4, MyFacts, MemoryTypes DEF Memory
  <2>2. m \in Memory
    <3>1. Related(g, q.alias) \subseteq Names
      BY DEF Related
    <3>. QED  BY <1>4, <3>1, MyFacts, MemoryTypes DEF Memory
  <2>3. Found(m) = {}
    BY <1>1, <2>1 DEF Found
  <2>. QED  BY <1>1, <1>3, <2>1, <2>2, <2>3 DEF Cached
<1>5. CASE g < NGroups
  <2>1. PICK m : m = [[mem[p] EXCEPT !.listed = @ \cup Related(g, q.alias)]
                        EXCEPT !.group = g + 1]
    OBVIOUS
  <2>2. g + 1 \in Groups /\ (g + 1) - 1 = g
    BY <1>2, <1>5 DEF Groups
  <2>3. Goto(p, "ListSchedules", m)
    BY <1>0, <1>1, <1>5, <2>1 DEF ListSchedules
  <2>4. Informed("ListSchedules", q, m)
    BY <1>4, <2>1, <2>2 DEF Informed, Writes
  <2>. QED  BY <1>1, <2>3, <2>4, ReadMove DEF Calls
<1>6. CASE ~ (g < NGroups)
  <2>1. PICK m : m = [[mem[p] EXCEPT !.listed = @ \cup Related(g, q.alias)]
                        EXCEPT !.group = 1]
    OBVIOUS
  <2>2. 1 \in Groups /\ 1..g = Groups
    BY <1>2, <1>6 DEF Groups
  <2>3. Lookup(p, m)
    BY <1>0, <1>1, <1>6, <2>1 DEF ListSchedules
  <2>4. m \in Memory /\ Cached(m) /\ Listed(q, m) /\ m.name = {} /\ m.group = 1 /\ W = m.wanted
    BY <1>4, <2>1, <2>2 DEF Listed, RelatedNames
  <2>. QED  BY <1>1, <2>3, <2>4, LookupInforms
<1>. QED  BY <1>5, <1>6

LEMMA GetScheduleInforms ==
  ASSUME ProcsInv, NEW p \in Procs, NEW q, Knows(p, q), GetSchedule(p),
         NEW W, W = mem[p].wanted
  PROVE  InformedMove(p, q, W)
<1>0. PICK g : g = mem[p].group
  OBVIOUS
<1>1. /\ UNCHANGED store /\ Cached(mem[p]) /\ Listed(q, mem[p]) /\ LookedFor(mem[p])
      /\ mem[p].name = {} => g = 1
      /\ q = req[p] /\ q \in RequestSet
  BY <1>0 DEF GetSchedule, Knows, Informed, Calls, Writes
<1>2. PICK n \in IF mem[p].name = {} THEN Unseen(mem[p]) ELSE mem[p].name :
        \/ /\ Exists(g, n)
           /\ Lookup(p, [mem[p] EXCEPT
                !.name = {}, !.group = 1, !.found[n] = g,
                !.on = IF <<g, n>> \in on THEN @ \cup {n} ELSE @])
        \/ /\ ~Exists(g, n) /\ g < NGroups
           /\ Goto(p, "GetSchedule", [mem[p] EXCEPT !.name = {n}, !.group = g + 1])
        \/ /\ ~Exists(g, n) /\ g = NGroups
           /\ Lookup(p, [mem[p] EXCEPT
                !.name = {}, !.group = 1, !.absent = @ \cup {n}])
  BY <1>0 DEF GetSchedule
<1>3. g \in 1..NGroups /\ NGroups \in Nat /\ 1 \in Groups /\ g \in 0..NGroups
  BY <1>0, GroupsAssumption, MyFacts, MemoryTypes DEF Groups
<1>4. n \in Unseen(mem[p]) /\ n \in Names /\ \A h \in Groups : h < g => ~Exists(h, n)
  <2>1. n \in Unseen(mem[p]) /\ \A h \in Groups : h < g => ~Exists(h, n)
    BY <1>0, <1>1, <1>2, <1>3 DEF LookedFor, Groups
  <2>. QED  BY <2>1, UnseenType
<1>5. n \notin Found(mem[p]) /\ n \in mem[p].listed \cup mem[p].wanted
  BY <1>4 DEF Unseen
<1>6. CASE /\ Exists(g, n)
           /\ Lookup(p, [mem[p] EXCEPT
                !.name = {}, !.group = 1, !.found[n] = g,
                !.on = IF <<g, n>> \in on THEN @ \cup {n} ELSE @])
  <2> DEFINE O == IF <<g, n>> \in on THEN mem[p].on \cup {n} ELSE mem[p].on
             F == [mem[p].found EXCEPT ![n] = g]
  <2>1. PICK m : m = [mem[p] EXCEPT !.name = {}, !.group = 1, !.found = F, !.on = O]
    OBVIOUS
  <2>2. [mem[p] EXCEPT !.name = {}, !.group = 1, !.found[n] = g,
                       !.on = IF <<g, n>> \in on THEN @ \cup {n} ELSE @] = m
    BY <2>1, MyFacts, MemoryTypes DEF Memory
  <2>3. Lookup(p, m)
    BY <1>6, <2>2
  <2>4. F \in [Names -> 0..NGroups] /\ O \subseteq Names
    BY <1>3, <1>4, MyFacts, MemoryTypes
  <2>5. /\ F[n] = g /\ \A x \in Names \ {n} : F[x] = mem[p].found[x]
        /\ n \in O <=> n \in mem[p].on \/ <<g, n>> \in on
        /\ \A x \in Names \ {n} : x \in O <=> x \in mem[p].on
    BY <1>4, MyFacts, MemoryTypes
  <2> HIDE DEF F, O
  <2>6. /\ m.name = {} /\ m.group = 1 /\ m.found = F /\ m.on = O
        /\ m.wanted = mem[p].wanted /\ m.listed = mem[p].listed
        /\ m.absent = mem[p].absent
    BY <2>1, MyFacts, MemoryTypes DEF Memory
  <2>7. m \in Memory
    BY <1>3, <2>1, <2>4, MyFacts, MemoryTypes DEF Memory
  <2>8. Found(m) = Found(mem[p]) \cup {n}
    BY <1>3, <1>4, <2>5, <2>6 DEF Found
  <2>9. Cached(m)
    <3>1. m.on \subseteq Found(m)
      BY <1>1, <2>4, <2>5, <2>6, <2>8 DEF Cached
    <3>2. ASSUME NEW x \in Found(m)
          PROVE  Exists(m.found[x], x) /\ (x \in m.on <=> <<m.found[x], x>> \in on)
      BY <1>1, <1>5, <1>6, <2>5, <2>6, <2>8, <3>2 DEF Cached, Found
    <3>. QED  BY <1>1, <2>6, <3>1, <3>2 DEF Cached
  <2>10. Listed(q, m)
    BY <1>1, <1>5, <2>6, <2>8 DEF Listed
  <2>. QED  BY <1>1, <2>3, <2>6, <2>7, <2>9, <2>10, LookupInforms
<1>7. CASE /\ ~Exists(g, n) /\ g < NGroups
           /\ Goto(p, "GetSchedule", [mem[p] EXCEPT !.name = {n}, !.group = g + 1])
  <2>1. PICK m : m = [mem[p] EXCEPT !.name = {n}, !.group = g + 1]
    OBVIOUS
  <2>2. /\ m.name = {n} /\ m.group = g + 1 /\ m.found = mem[p].found /\ m.on = mem[p].on
        /\ m.wanted = mem[p].wanted /\ m.listed = mem[p].listed
        /\ m.absent = mem[p].absent
    BY <2>1, MyFacts, MemoryTypes DEF Memory
  <2>3. \A h \in Groups : h < g + 1 => ~Exists(h, n)
    BY <1>3, <1>4, <1>7 DEF Groups
  <2>4. Unseen(m) = Unseen(mem[p]) /\ Found(m) = Found(mem[p])
    BY <2>2 DEF Unseen, Found
  <2>5. Informed("GetSchedule", q, m)
    BY <1>1, <1>4, <2>2, <2>3, <2>4 DEF Informed, Cached, Listed, LookedFor, Writes
  <2>. QED  BY <1>1, <1>7, <2>1, <2>5, ReadMove DEF Calls
<1>8. CASE /\ ~Exists(g, n) /\ g = NGroups
           /\ Lookup(p, [mem[p] EXCEPT !.name = {}, !.group = 1, !.absent = @ \cup {n}])
  <2>1. PICK m : m = [mem[p] EXCEPT !.name = {}, !.group = 1, !.absent = @ \cup {n}]
    OBVIOUS
  <2>2. /\ m.name = {} /\ m.group = 1 /\ m.found = mem[p].found /\ m.on = mem[p].on
        /\ m.wanted = mem[p].wanted /\ m.listed = mem[p].listed
        /\ m.absent = mem[p].absent \cup {n} /\ m \in Memory
    <3>1. m \in Memory
      BY <1>3, <1>4, <2>1, MyFacts, MemoryTypes DEF Memory
    <3>. QED  BY <2>1, <3>1, MyFacts, MemoryTypes DEF Memory
  <2>3. \A h \in Groups : ~Exists(h, n)
    BY <1>3, <1>4, <1>8 DEF Groups
  <2>4. Found(m) = Found(mem[p])
    BY <2>2 DEF Found
  <2>5. Cached(m) /\ Listed(q, m)
    BY <1>1, <2>2, <2>3, <2>4 DEF Cached, Listed
  <2>. QED  BY <1>1, <1>8, <2>1, <2>2, <2>5, LookupInforms
<1>. QED  BY <1>2, <1>6, <1>7, <1>8

LEMMA DeleteStateMachineInforms ==
  ASSUME ProcsInv, NEW p \in Procs, NEW q, Knows(p, q), DeleteStateMachine(p),
         NEW W, W = mem[p].wanted
  PROVE  InformedMove(p, q, W)
<1>1. /\ UNCHANGED store /\ Cached(mem[p]) /\ Listed(q, mem[p]) /\ Unseen(mem[p]) = {}
      /\ mem[p].name = {} /\ mem[p].group = 1 /\ q = req[p] /\ q \in RequestSet
  BY DEF DeleteStateMachine, Knows, Informed, Calls, Writes
<1>2. W = {}
  BY <1>1, MyFacts DEF DeleteStateMachine, Planned, Calls, RequestSet
<1>3. CASE Found(mem[p]) = {}
  <2>1. \A x \in RelatedNames(q.alias) : \E g \in Groups : Exists(g, x)
    <3>1. q.alias \in Aliases \cup {Unknown}
      BY <1>1 DEF RequestSet
    <3>. QED
      BY <3>1, ArnsAssumption DEF RelatedNames, Related, Exists, Nothing
  <2>2. RelatedNames(q.alias) = {}
    BY <1>1, <1>3, <2>1 DEF Cached, Listed, Unseen
  <2>3. Settled(q, W)
    BY <1>2, <2>2 DEF Settled
  <2>. QED
    BY <1>1, <1>3, <2>3, StoreStays DEF DeleteStateMachine, InformedMove, Ended
<1>4. CASE Found(mem[p]) # {}
  <2>1. PICK m : m = [mem[p] EXCEPT !.again = TRUE, !.absent = {}]
    OBVIOUS
  <2>2. /\ m.name = {} /\ m.group = 1 /\ m.found = mem[p].found /\ m.on = mem[p].on
        /\ m.wanted = mem[p].wanted /\ m.listed = mem[p].listed /\ m.absent = {}
    BY <1>1, <2>1, MyFacts, MemoryTypes DEF Memory
  <2>3. m \in Memory
    BY <2>1, MyFacts, MemoryTypes DEF Memory
  <2>4. Found(m) = Found(mem[p])
    BY <2>2 DEF Found
  <2>5. Cached(m) /\ Listed(q, m)
    BY <1>1, <2>2, <2>4 DEF Cached, Listed
  <2>6. Lookup(p, m)
    BY <1>4, <2>1 DEF DeleteStateMachine
  <2>. QED  BY <1>1, <2>2, <2>3, <2>5, <2>6, LookupInforms
<1>. QED  BY <1>3, <1>4


LEMMA ConfiguredGroups == \A n \in Names : ConfigGroup[n] \in Groups
BY GroupsAssumption

LEMMA FoundGroups ==
  ASSUME NEW found \in [Names -> 0..NGroups]
  PROVE  \A n \in Names : found[n] # 0 => found[n] \in Groups
BY GroupsAssumption DEF Groups

(* What is done to the schedule of one name leaves the others. *)
LEMMA OthersStay ==
  ASSUME StoreOK, NEW h \in Groups, NEW n \in Names, NEW a,
         target' = [target EXCEPT ![h][n] = a],
         on' = on \cup {<<h, n>>} \/ on' = on \ {<<h, n>>}
  PROVE  /\ \A g \in Groups, x \in Names \ {n} :
              target'[g][x] = target[g][x] /\ (<<g, x>> \in on' <=> <<g, x>> \in on)
         /\ target'[h][n] = a /\ \A g \in Groups \ {h} : target'[g][n] = target[g][n]
<1>1. \A g \in Groups, x \in Names \ {n} :
        target'[g][x] = target[g][x] /\ (<<g, x>> \in on' <=> <<g, x>> \in on)
  BY DEF StoreOK
<1>2. target'[h][n] = a /\ \A g \in Groups \ {h} : target'[g][n] = target[g][n]
  BY DEF StoreOK
<1>. QED  BY <1>1, <1>2

LEMMA RelatedStays ==
  ASSUME NEW n, NEW alias, NEW x \in Names \ {n},
         \A g \in Groups : target'[g][x] = target[g][x]
  PROVE  x \in RelatedNames(alias)' <=> x \in RelatedNames(alias)
BY DEF RelatedNames, Related

LEMMA DeleteScheduleInforms ==
  ASSUME StoreOK, Unique, ProcsInv, NEW p \in Procs, NEW q, Knows(p, q), DeleteSchedule(p),
         NEW W, W = mem[p].wanted
  PROVE  InformedMove(p, q, W) /\ Unique'
<1>0. Lacks(q, mem[p]) /\ q = req[p] /\ q.alias \in Aliases \cup {Unknown}
  BY DEF DeleteSchedule, Knows, Informed, Writes, RequestSet
<1>1. PICK n \in mem[p].remove :
        /\ Exists(DefaultGroup, n)
        /\ target' = [target EXCEPT ![DefaultGroup][n] = Nothing]
        /\ on' = on \ {<<DefaultGroup, n>>}
        /\ NextWrite(p, [mem[p] EXCEPT !.remove = @ \ {n}])
  BY DEF DeleteSchedule
<1>2. n \in Names /\ DefaultGroup \in Groups
  BY GroupsAssumption, MyFacts, MemoryTypes
<1>3. /\ \A g \in Groups, x \in Names \ {n} :
           target'[g][x] = target[g][x] /\ (<<g, x>> \in on' <=> <<g, x>> \in on)
      /\ target'[DefaultGroup][n] = Nothing
      /\ \A g \in Groups \ {DefaultGroup} : target'[g][n] = target[g][n]
  BY <1>1, <1>2, OthersStay
<1>4. \A g \in Groups : target'[g][n] = Nothing
  BY <1>1, <1>2, <1>3 DEF Unique, Exists
<1>5. n \notin RelatedNames(q.alias)'
  BY <1>0, <1>4, ArnsAssumption DEF RelatedNames, Related, Nothing, Unknown
<1>6. PICK m : m = [mem[p] EXCEPT !.remove = @ \ {n}]
  OBVIOUS
<1>7. /\ m.wanted = mem[p].wanted /\ m.found = mem[p].found /\ m.on = mem[p].on
      /\ m.remove = mem[p].remove \ {n} /\ m.change = mem[p].change /\ m.add = mem[p].add
      /\ m.wanted \subseteq Names /\ mem[p].remove \subseteq Names
      /\ m.change \cup m.add \subseteq m.wanted
      /\ m.found \in [Names -> 0..NGroups]
  BY <1>6, MyFacts, MemoryTypes DEF Memory, Planned, DeleteSchedule, Calls
<1>8. /\ m.change \subseteq Names \ {n} /\ m.add \subseteq Names \ {n}
      /\ m.wanted \subseteq Names \ {n}
  BY <1>0, <1>7 DEF Lacks
<1>9. RelatedNames(q.alias)' \subseteq m.wanted \cup m.remove
      /\ m.remove \subseteq RelatedNames(q.alias)'
  <2>1. RelatedNames(q.alias)' \subseteq Names
    BY DEF RelatedNames, Related
  <2>2. ASSUME NEW x \in Names \ {n}
        PROVE  x \in RelatedNames(q.alias)' <=> x \in RelatedNames(q.alias)
    <3>1. \A g \in Groups : target'[g][x] = target[g][x]
      BY <1>3
    <3>2. PICK alias : alias = q.alias
      OBVIOUS
    <3>3. x \in RelatedNames(alias)' <=> x \in RelatedNames(alias)
      BY <3>1, RelatedStays
    <3>. QED  BY <3>2, <3>3
  <2>. QED  BY <1>0, <1>5, <1>7, <2>1, <2>2 DEF Lacks
<1>10. ASSUME NEW x \in m.wanted \ (m.change \cup m.add)
       PROVE  target'[ConfigGroup[x]][x] = q.alias
  <2>1. target[ConfigGroup[x]][x] = q.alias
    BY <1>0, <1>7, <1>10 DEF Lacks
  <2>. QED  BY <1>3, <1>8, <1>10, <2>1, ConfiguredGroups
<1>11. ASSUME NEW x \in m.change
       PROVE  /\ m.found[x] # 0 /\ target'[m.found[x]][x] # Nothing
              /\ x \in m.on <=> <<m.found[x], x>> \in on'
  <2>1. /\ m.found[x] # 0 /\ target[m.found[x]][x] # Nothing
        /\ x \in m.on <=> <<m.found[x], x>> \in on
    BY <1>0, <1>7, <1>11 DEF Lacks, Exists
  <2>2. x \in Names \ {n}
    BY <1>8, <1>11
  <2>3. m.found[x] \in Groups
    BY <1>7, <2>1, <2>2, FoundGroups
  <2>. QED  BY <1>3, <2>1, <2>2, <2>3
<1>12. ASSUME NEW x \in m.add, NEW g \in Groups PROVE target'[g][x] = Nothing
  <2>1. target[g][x] = Nothing
    BY <1>0, <1>7, <1>12 DEF Lacks, Exists
  <2>. QED  BY <1>3, <1>8, <1>12, <2>1
<1>13. Lacks(q, m)'
  <2>1. m.remove \cap m.wanted = {}
    BY <1>0, <1>7 DEF Lacks
  <2>. QED  BY <2>1, <1>9, <1>10, <1>11, <1>12 DEF Lacks, Exists
<1>14. Unique'
  <2>1. \A g \in Groups, x \in Names : Exists(g, x)' => Exists(g, x)
    BY <1>3, <1>4 DEF Exists
  <2>. QED  BY <2>1 DEF Unique
<1>. QED  BY <1>1, <1>6, <1>7, <1>13, <1>14, NextWriteInforms

(* p puts schedule n of its plan. *)
LEMMA PutInforms ==
  ASSUME StoreOK, Unique, ProcsInv, NEW p \in Procs, NEW q, Knows(p, q),
         pc[p] \in Writes, Lacks(q, mem[p]), q.alias # Unknown,
         NEW n \in mem[p].wanted, Put(p, n),
         \A g \in Groups : Exists(g, n) => g = ConfigGroup[n],
         NEW m, m.wanted = mem[p].wanted, m.found = mem[p].found, m.on = mem[p].on,
         m.remove = mem[p].remove,
         m.change = mem[p].change \ {n}, m.add = mem[p].add \ {n}
  PROVE  Lacks(q, m)' /\ Unique'
<1>0. /\ q = req[p] /\ q.alias \in Aliases /\ n \in Names /\ m.wanted \subseteq Names
      /\ mem[p].remove \subseteq Names /\ pc[p] \in Calls
      /\ m.found \in [Names -> 0..NGroups]
  BY MyFacts, MemoryTypes DEF Knows, RequestSet, Writes, Calls
<1>1. mem[p].change \cup mem[p].add \subseteq mem[p].wanted
  BY <1>0, MyFacts DEF Planned
<1>2. ConfigGroup[n] \in Groups /\ q.alias # Nothing
  BY <1>0, ConfiguredGroups, ArnsAssumption
<1>3. /\ target' = [target EXCEPT ![ConfigGroup[n]][n] = q.alias]
      /\ on' = on \cup {<<ConfigGroup[n], n>>} \/ on' = on \ {<<ConfigGroup[n], n>>}
  BY <1>0 DEF Put
<1>4. /\ \A g \in Groups, x \in Names \ {n} :
           target'[g][x] = target[g][x] /\ (<<g, x>> \in on' <=> <<g, x>> \in on)
      /\ target'[ConfigGroup[n]][n] = q.alias
      /\ \A g \in Groups \ {ConfigGroup[n]} : target'[g][n] = target[g][n]
  <2>0. n \in Names
    BY <1>0
  <2>1. PICK h \in Groups : h = ConfigGroup[n]
    BY <1>2
  <2>2. PICK a : a = q.alias
    OBVIOUS
  <2>3. /\ target' = [target EXCEPT ![h][n] = a]
        /\ on' = on \cup {<<h, n>>} \/ on' = on \ {<<h, n>>}
    BY <1>3, <2>1, <2>2
  <2>4. /\ \A g \in Groups, x \in Names \ {n} :
             target'[g][x] = target[g][x] /\ (<<g, x>> \in on' <=> <<g, x>> \in on)
        /\ target'[h][n] = a /\ \A g \in Groups \ {h} : target'[g][n] = target[g][n]
    BY <2>0, <2>3, OthersStay
  <2>. QED  BY <2>1, <2>2, <2>4
<1>5. n \notin m.remove
  BY DEF Lacks
<1>6. RelatedNames(q.alias)' \subseteq m.wanted \cup m.remove
      /\ m.remove \subseteq RelatedNames(q.alias)'
  <2>1. RelatedNames(q.alias)' \subseteq Names
    BY DEF RelatedNames, Related
  <2>2. ASSUME NEW x \in Names \ {n}
        PROVE  x \in RelatedNames(q.alias)' <=> x \in RelatedNames(q.alias)
    <3>1. \A g \in Groups : target'[g][x] = target[g][x]
      BY <1>4
    <3>2. PICK alias : alias = q.alias
      OBVIOUS
    <3>3. x \in RelatedNames(alias)' <=> x \in RelatedNames(alias)
      BY <3>1, RelatedStays
    <3>. QED  BY <3>2, <3>3
  <2>. QED  BY <1>0, <1>5, <2>1, <2>2 DEF Lacks
<1>7. ASSUME NEW x \in m.wanted \ (m.change \cup m.add)
      PROVE  target'[ConfigGroup[x]][x] = q.alias
  <2>1. x # n => target[ConfigGroup[x]][x] = q.alias
    BY <1>7 DEF Lacks
  <2>2. x \in Names /\ ConfigGroup[x] \in Groups
    BY <1>0, <1>7, ConfiguredGroups
  <2>. QED  BY <1>4, <2>1, <2>2
<1>8. ASSUME NEW x \in m.change
      PROVE  /\ m.found[x] # 0 /\ target'[m.found[x]][x] # Nothing
             /\ x \in m.on <=> <<m.found[x], x>> \in on'
  <2>1. /\ m.found[x] # 0 /\ target[m.found[x]][x] # Nothing
        /\ x \in m.on <=> <<m.found[x], x>> \in on
    BY <1>8 DEF Lacks, Exists
  <2>2. x \in Names \ {n}
    BY <1>0, <1>1, <1>8
  <2>3. m.found[x] \in Groups
    BY <1>0, <2>1, <2>2, FoundGroups
  <2>. QED  BY <1>4, <2>1, <2>2, <2>3
<1>9. ASSUME NEW x \in m.add, NEW g \in Groups PROVE target'[g][x] = Nothing
  <2>1. target[g][x] = Nothing
    BY <1>9 DEF Lacks, Exists
  <2>2. x \in Names \ {n}
    BY <1>0, <1>1, <1>9
  <2>. QED  BY <1>4, <2>1, <2>2
<1>10. Lacks(q, m)'
  <2>1. m.remove \cap m.wanted = {}
    BY DEF Lacks
  <2>. QED  BY <2>1, <1>6, <1>7, <1>8, <1>9 DEF Lacks, Exists
<1>11. Unique'
  <2>1. \A g \in Groups : Exists(g, n)' => g = ConfigGroup[n]
    BY <1>4 DEF Exists
  <2>2. \A g \in Groups, x \in Names \ {n} : Exists(g, x)' => Exists(g, x)
    BY <1>4 DEF Exists
  <2>. QED  BY <2>1, <2>2 DEF Unique
<1>. QED  BY <1>10, <1>11

LEMMA UpdateScheduleInforms ==
  ASSUME StoreOK, Unique, ProcsInv, NEW p \in Procs, NEW q, Knows(p, q), UpdateSchedule(p),
         NEW W, W = mem[p].wanted
  PROVE  InformedMove(p, q, W) /\ Unique'
<1>0. /\ Lacks(q, mem[p]) /\ q = req[p] /\ pc[p] \in Writes /\ q.alias # Unknown
      /\ mem[p].change \subseteq mem[p].wanted
  BY MyFacts DEF UpdateSchedule, Knows, Informed, Writes, Planned, Calls
<1>1. PICK n \in mem[p].change :
        /\ Exists(ConfigGroup[n], n) /\ Put(p, n)
        /\ NextWrite(p, [mem[p] EXCEPT !.change = @ \ {n}])
  BY DEF UpdateSchedule
<1>2. n \in Names /\ ConfigGroup[n] \in Groups
  BY GroupsAssumption, MyFacts, MemoryTypes
<1>3. n \notin mem[p].add /\ \A g \in Groups : Exists(g, n) => g = ConfigGroup[n]
  BY <1>0, <1>1, <1>2 DEF Lacks, Unique
<1>4. PICK m : m = [mem[p] EXCEPT !.change = @ \ {n}]
  OBVIOUS
<1>5. /\ m.wanted = mem[p].wanted /\ m.found = mem[p].found /\ m.on = mem[p].on
      /\ m.remove = mem[p].remove /\ m.change = mem[p].change \ {n}
      /\ m.add = mem[p].add \ {n}
  BY <1>3, <1>4, MyFacts, MemoryTypes DEF Memory
<1>6. Lacks(q, m)' /\ Unique'
  BY <1>0, <1>1, <1>3, <1>5, PutInforms
<1>. QED  BY <1>1, <1>4, <1>5, <1>6, NextWriteInforms

LEMMA CreateScheduleInforms ==
  ASSUME StoreOK, Unique, ProcsInv, NEW p \in Procs, NEW q, Knows(p, q), CreateSchedule(p),
         NEW W, W = mem[p].wanted
  PROVE  InformedMove(p, q, W) /\ Unique'
<1>0. /\ Lacks(q, mem[p]) /\ q = req[p] /\ pc[p] \in Writes /\ q.alias # Unknown
      /\ mem[p].add \subseteq mem[p].wanted
  BY MyFacts DEF CreateSchedule, Knows, Informed, Writes, Planned, Calls
<1>1. PICK n \in mem[p].add :
        Put(p, n) /\ NextWrite(p, [mem[p] EXCEPT !.add = @ \ {n}])
  BY DEF CreateSchedule
<1>2. mem[p].found \in [Names -> 0..NGroups] /\ n \in Names
  BY MyFacts, MemoryTypes
<1>3. n \notin mem[p].change /\ \A g \in Groups : Exists(g, n) => g = ConfigGroup[n]
  <2>1. \A g \in Groups : ~Exists(g, n)
    BY <1>0, <1>1 DEF Lacks
  <2>2. n \in mem[p].change => mem[p].found[n] # 0 /\ Exists(mem[p].found[n], n)
    BY <1>0 DEF Lacks
  <2>. QED  BY <1>2, <2>1, <2>2, FoundGroups
<1>4. PICK m : m = [mem[p] EXCEPT !.add = @ \ {n}]
  OBVIOUS
<1>5. /\ m.wanted = mem[p].wanted /\ m.found = mem[p].found /\ m.on = mem[p].on
      /\ m.remove = mem[p].remove /\ m.change = mem[p].change \ {n}
      /\ m.add = mem[p].add \ {n}
  BY <1>3, <1>4, MyFacts, MemoryTypes DEF Memory
<1>6. Lacks(q, m)' /\ Unique'
  BY <1>0, <1>1, <1>3, <1>5, PutInforms
<1>. QED  BY <1>1, <1>4, <1>5, <1>6, NextWriteInforms

(* Alone, a command goes on knowing, and what it leaves is settled. *)
LEMMA WorkInforms ==
  ASSUME IInv, Unique, NEW p \in Procs, Work(p) \/ Crash(p),
         Informed(pc[p], req[p], mem[p])
  PROVE  /\ Informed(pc[p], req[p], mem[p])' /\ Unique'
         /\ \A q, W : q = req[p] /\ W = mem[p].wanted /\ pc'[p] = "ok" =>
              q.op = "look" \/ Settled(q, W)'
<1>0. StoreOK /\ ProcsInv /\ ProcsOK
  BY DEF IInv, TypeOK, ProcsInv
<1>1. PICK q : q = req[p]
  OBVIOUS
<1>2. PICK W : W = mem[p].wanted
  OBVIOUS
<1>3. Knows(p, q)
  BY <1>0, <1>1, RequestTypes, RequestsAssumption DEF Knows
<1>4. ASSUME UNCHANGED store PROVE Unique'
  BY <1>4 DEF store, Unique, Exists
<1>5. ASSUME CallFails(p) \/ Crash(p) PROVE InformedMove(p, q, W) /\ Unique'
  BY <1>4, <1>5 DEF CallFails, Crash, InformedMove, Ended
<1>6. InformedMove(p, q, W) /\ Unique'
  <2>1. CASE ListGroups(p) \/ ListSchedules(p) \/ GetSchedule(p) \/ DeleteStateMachine(p)
    <3>1. UNCHANGED store
      BY <2>1 DEF ListGroups, ListSchedules, GetSchedule, DeleteStateMachine
    <3>. QED
      BY <1>0, <1>2, <1>3, <1>4, <2>1, <3>1, ListGroupsInforms, ListSchedulesInforms,
         GetScheduleInforms, DeleteStateMachineInforms
  <2>2. CASE DeleteSchedule(p) \/ UpdateSchedule(p) \/ CreateSchedule(p)
    BY <1>0, <1>2, <1>3, <2>2, DeleteScheduleInforms, UpdateScheduleInforms,
       CreateScheduleInforms
  <2>. QED  BY <1>5, <2>1, <2>2 DEF Work
<1>. QED  BY <1>0, <1>1, <1>2, <1>6, InformedMoves


(* The steps of p that change targets. *)
LEMMA InformedAim ==
  ASSUME IInv, Unique, NEW p \in Procs, Work(p) \/ Crash(p),
         Informed(pc[p], req[p], mem[p]), NEW g \in Groups, NEW n \in Names,
         n \notin req[p].wanted, target'[g][n] # target[g][n]
  PROVE  target[g][n] \in {req[p].alias, "bare", Nothing}
<1>0. StoreOK /\ ProcsInv /\ ProcsOK
  BY DEF IInv, TypeOK, ProcsInv
<1>1. CASE DeleteSchedule(p)
  <2>1. Lacks(req[p], mem[p])
    BY <1>1 DEF DeleteSchedule, Informed, Writes
  <2>2. PICK x \in mem[p].remove :
          /\ Exists(DefaultGroup, x)
          /\ target' = [target EXCEPT ![DefaultGroup][x] = Nothing]
    BY <1>1 DEF DeleteSchedule
  <2>3. n = x /\ g = DefaultGroup
    BY <1>0, <2>2 DEF StoreOK
  <2>4. PICK h \in Groups : target[h][n] \in {req[p].alias, "bare"}
    <3>1. n \in RelatedNames(req[p].alias)
      BY <2>1, <2>2, <2>3 DEF Lacks
    <3>2. PICK h \in Groups : n \in Related(h, req[p].alias)
      BY <3>1 DEF RelatedNames
    <3>. QED  BY <3>2 DEF Related
  <2>5. target[h][n] # Nothing
    <3>1. req[p].alias \in Aliases \cup {Unknown}
      BY <1>0, RequestTypes, RequestsAssumption DEF RequestSet
    <3>. QED  BY <2>4, <3>1, ArnsAssumption DEF Nothing, Unknown
  <2>. QED  BY <2>2, <2>3, <2>4, <2>5 DEF Unique, Exists
<1>2. CASE UpdateSchedule(p) \/ CreateSchedule(p)
  <2>1. PICK x \in mem[p].change \cup mem[p].add : Put(p, x)
    BY <1>2 DEF UpdateSchedule, CreateSchedule
  <2>2. x \in req[p].wanted
    BY <1>0, <1>2, <2>1, MyFacts DEF UpdateSchedule, CreateSchedule, Planned, Calls
  <2>. QED  BY <1>0, <2>1, <2>2 DEF Put, StoreOK
<1>3. ASSUME ~DeleteSchedule(p), ~UpdateSchedule(p), ~CreateSchedule(p)
      PROVE  UNCHANGED target
  BY <1>3 DEF Work, Crash, ListGroups, ListSchedules, GetSchedule, DeleteStateMachine,
     CallFails, store
<1>. QED  BY <1>1, <1>2, <1>3

(* The steps of p that switch schedules. *)
LEMMA InformedSwitch ==
  ASSUME IInv, Unique, NEW p \in Procs, Work(p) \/ Crash(p),
         Informed(pc[p], req[p], mem[p]), req[p].keepState,
         NEW g \in Groups, NEW n \in Names, Exists(g, n), Exists(g, n)'
  PROVE  <<g, n>> \in on <=> <<g, n>> \in on'
<1>0. StoreOK /\ ProcsInv
  BY DEF IInv, TypeOK, ProcsInv
<1>1. CASE DeleteSchedule(p)
  <2>1. PICK x \in mem[p].remove :
          /\ target' = [target EXCEPT ![DefaultGroup][x] = Nothing]
          /\ on' = on \ {<<DefaultGroup, x>>}
    BY <1>1 DEF DeleteSchedule
  <2>2. g = DefaultGroup /\ n = x => target'[g][n] = Nothing
    BY <1>0, <2>1 DEF StoreOK
  <2>. QED  BY <2>1, <2>2 DEF Exists
<1>2. CASE UpdateSchedule(p)
  <2>1. Lacks(req[p], mem[p])
    BY <1>2 DEF UpdateSchedule, Informed, Writes
  <2>2. PICK x \in mem[p].change : Exists(ConfigGroup[x], x) /\ Put(p, x)
    BY <1>2 DEF UpdateSchedule
  <2>3. /\ mem[p].found[x] # 0 /\ Exists(mem[p].found[x], x)
        /\ x \in mem[p].on <=> <<mem[p].found[x], x>> \in on
    BY <2>1, <2>2 DEF Lacks
  <2>4. x \in Names /\ ConfigGroup[x] \in Groups /\ mem[p].found[x] \in Groups
    <3>1. x \in Names /\ mem[p].found \in [Names -> 0..NGroups]
      BY <1>0, <2>2, MyFacts, MemoryTypes
    <3>. QED  BY <2>3, <3>1, ConfiguredGroups, FoundGroups
  <2>5. mem[p].found[x] = ConfigGroup[x]
    BY <2>2, <2>3, <2>4 DEF Unique
  <2>6. WantsOn(p, x) <=> <<ConfigGroup[x], x>> \in on
    BY <2>3, <2>5 DEF WantsOn
  <2>. QED  BY <2>2, <2>6 DEF Put
<1>3. CASE CreateSchedule(p)
  <2>1. PICK x \in mem[p].add : ~Exists(ConfigGroup[x], x) /\ Put(p, x)
    BY <1>3 DEF CreateSchedule
  <2>2. <<g, n>> # <<ConfigGroup[x], x>>
    BY <2>1
  <2>. QED  BY <2>1, <2>2 DEF Put
<1>4. ASSUME ~DeleteSchedule(p), ~UpdateSchedule(p), ~CreateSchedule(p)
      PROVE  UNCHANGED on
  BY <1>4 DEF Work, Crash, ListGroups, ListSchedules, GetSchedule, DeleteStateMachine,
     CallFails, store
<1>. QED  BY <1>1, <1>2, <1>3, <1>4

-----------------------------------------------------------------------------
(* One command at a time, and names that nobody uses in two groups *)

OneProcess == \A p, q \in Procs : p = q

NoClash == "clash" \notin Faults

Informs == Unique /\ \A p \in Procs : Informed(pc[p], req[p], mem[p])

LEMMA InformsInit == Init => Informs
BY DEF Init, Informs, Unique, Exists, Informed, Fresh, Calls, Writes

LEMMA StartInforms ==
  ASSUME IInv, NEW p \in Procs, NEW q \in Requests, Start(p, q)
  PROVE  Informed(pc[p], req[p], mem[p])'
<1>1. pc'[p] = "ListGroups" /\ mem'[p] = [Fresh EXCEPT !.wanted = NewSchedules(q)]
  BY DEF Start, IInv, TypeOK, ProcsOK, Planned
<1>2. /\ mem'[p].found = [n \in Names |-> 0] /\ mem'[p].on = {} /\ mem'[p].absent = {}
      /\ mem'[p].name = {} /\ mem'[p].group = 1 /\ mem'[p].listed = {}
  BY <1>1 DEF Fresh
<1>3. Found(mem'[p]) = {}
  BY <1>2 DEF Found
<1>4. Cached(mem[p])'
  BY <1>2, <1>3 DEF Cached
<1>. QED  BY <1>1, <1>2, <1>3, <1>4 DEF Informed, Writes

LEMMA OperatorInforms ==
  ASSUME NoClash, IInv, Informs, Operator
  PROVE  Informs'
<1>1. UNCHANGED <<pc, req, mem>> /\ \A p \in Procs : pc[p] \in Ended
  BY DEF Operator, OperatorCreates, OperatorDeletes, OperatorSwitches,
     OperatorWorks, Running, IInv, TypeOK, ProcsOK
<1>2. PICK g \in Groups, n \in Names :
        \/ \E arn \in Arns : OperatorCreates(g, n, arn)
        \/ OperatorDeletes(g, n)
        \/ OperatorSwitches(g, n)
  BY DEF Operator
<1>3. ASSUME \E arn \in Arns : OperatorCreates(g, n, arn) PROVE Unique'
  <2>1. /\ \A h \in Groups : ~Exists(h, n)
        /\ \A h \in Groups, x \in Names : h # g \/ x # n => target'[h][x] = target[h][x]
    BY <1>3 DEF OperatorCreates, NoClash, IInv, TypeOK, StoreOK
  <2>. QED  BY <2>1 DEF Informs, Unique, Exists
<1>4. ASSUME OperatorDeletes(g, n) PROVE Unique'
  <2>1. target'[g][n] = Nothing
        /\ \A h \in Groups, x \in Names : h # g \/ x # n => target'[h][x] = target[h][x]
    BY <1>4 DEF OperatorDeletes, IInv, TypeOK, StoreOK
  <2>. QED  BY <2>1 DEF Informs, Unique, Exists
<1>5. ASSUME OperatorSwitches(g, n) PROVE Unique'
  BY <1>5 DEF OperatorSwitches, Informs, Unique, Exists
<1>6. Unique'
  BY <1>2, <1>3, <1>4, <1>5
<1>. QED  BY <1>1, <1>6 DEF Informs, Informed, Ended, Calls, Writes

LEMMA InformsNext ==
  ASSUME OneProcess, NoClash, IInv, Informs, [Next]_vars
  PROVE  Informs'
<1>1. ASSUME NEW p \in Procs, NEW q \in Requests, Start(p, q) PROVE Informs'
  <2>1. Unique'
    BY <1>1 DEF Start, store, Informs, Unique, Exists
  <2>. QED  BY <1>1, <2>1, StartInforms DEF OneProcess, Informs
<1>2. ASSUME NEW p \in Procs, Work(p) \/ Crash(p) PROVE Informs'
  BY <1>2, WorkInforms DEF OneProcess, Informs
<1>3. CASE Operator
  BY <1>3, OperatorInforms
<1>4. CASE UNCHANGED <<store, pc, req, mem>>
  BY <1>4 DEF store, Informs, Unique, Informed, Cached, Listed, LookedFor, Lacks,
     RelatedNames, Related, Exists, Found, Unseen
<1>. QED  BY <1>1, <1>2, <1>3, <1>4 DEF Next, TimePasses, store, vars

LEMMA OneInformed ==
  ASSUME OneProcess, NoClash
  PROVE  Spec => [](IInv /\ Informs)
<1>1. Init => IInv /\ Informs
  BY InitInv, InformsInit
<1>2. IInv /\ Informs /\ [Next]_vars => (IInv /\ Informs)'
  BY NextInv, InformsNext
<1>. QED  BY <1>1, <1>2, PTL DEF Spec

(* While a process runs alone the steps are its own, or time passes. *)
LEMMA OneWorks ==
  ASSUME OneProcess, [Next]_vars, NEW p \in Procs, Running(p)
  PROVE  Work(p) \/ Crash(p) \/ UNCHANGED <<store, pc, req, mem>>
<1>1. pc[p] \notin Ended
  BY DEF Running, Calls, Ended
<1>2. ~Operator /\ \A r \in Procs, q \in Requests : ~Start(r, q)
  BY <1>1 DEF OneProcess, Start, Operator, OperatorCreates, OperatorDeletes,
     OperatorSwitches, OperatorWorks
<1>3. TimePasses \/ UNCHANGED vars => UNCHANGED <<store, pc, req, mem>>
  BY DEF TimePasses, vars, store
<1>. QED  BY <1>2, <1>3 DEF OneProcess, Next

(* One command at a time, a deploy or delete that ends well leaves the     *)
(* schedules as they are configured, whatever earlier commands failed or   *)
(* were killed and whatever was done by hand between them, as long as no   *)
(* name is used in two groups (scheduler_service.go:220-276; delete.go:    *)
(* 75-80).                                                                 *)
THEOREM ConfiguredSchedules ==
  ASSUME OneProcess, NoClash
  PROVE  Spec => SchedulesAsConfigured
<1>1. ASSUME IInv, Informs, [Next]_vars, NEW p \in Procs, Ends(p, "ok"), req[p].op # "look"
      PROVE  /\ \A n \in mem[p].wanted : target'[ConfigGroup[n]][n] = req[p].alias
             /\ req[p].alias # Unknown =>
                  \A g \in Groups, n \in Names \ mem[p].wanted :
                    target'[g][n] \notin {req[p].alias, "bare"}
  <2>1. Work(p) \/ Crash(p)
    BY <1>1, OneWorks DEF Ends, Running, Calls
  <2>2. PICK q : q = req[p]
    OBVIOUS
  <2>3. PICK W : W = mem[p].wanted
    OBVIOUS
  <2>4. Settled(q, W)'
    BY <1>1, <2>1, <2>2, <2>3, WorkInforms DEF Informs, Ends
  <2>. QED  BY <2>2, <2>3, <2>4 DEF Settled, RelatedNames, Related
<1>2. IInv /\ Informs /\ [Next]_vars =>
        [\A p \in Procs : Ends(p, "ok") /\ req[p].op # "look" =>
           /\ \A n \in mem[p].wanted : target'[ConfigGroup[n]][n] = req[p].alias
           /\ req[p].alias # Unknown =>
                \A g \in Groups, n \in Names \ mem[p].wanted :
                  target'[g][n] \notin {req[p].alias, "bare"}]_vars
  BY <1>1
<1>. QED  BY <1>2, OneInformed, PTL DEF Spec, SchedulesAsConfigured

(* One command at a time, a deploy without --trigger-enabled and           *)
(* --trigger-disabled switches no schedule, as long as no name is used in  *)
(* two groups (scheduler_service.go:232-234; schedule.go:140-148).         *)
THEOREM StatesKept ==
  ASSUME OneProcess, NoClash
  PROVE  Spec => StateKept
<1>1. IInv /\ Informs /\ [Next]_vars =>
        [\A p \in Procs, g \in Groups, n \in Names :
           Running(p) /\ req[p].keepState /\ Exists(g, n) /\ Exists(g, n)' =>
             (<<g, n>> \in on <=> <<g, n>> \in on')]_vars
  BY OneWorks, InformedSwitch DEF Informs, store
<1>. QED  BY <1>1, OneInformed, PTL DEF Spec, StateKept

(* One command at a time, a schedule that starts something else is changed *)
(* only by a deployment that has one of its name, as long as no name is    *)
(* used in two groups (scheduler_service.go:79-133, 236-247).              *)
THEOREM OthersSafe ==
  ASSUME OneProcess, NoClash
  PROVE  Spec => OthersKept
<1>1. IInv /\ Informs /\ [Next]_vars =>
        [\A p \in Procs, g \in Groups, n \in Names :
           /\ Running(p) /\ n \notin req[p].wanted
           /\ target[g][n] \notin {req[p].alias, "bare", Nothing}
           => target'[g][n] = target[g][n]]_vars
  BY OneWorks, InformedAim DEF Informs, store
<1>. QED  BY <1>1, OneInformed, PTL DEF Spec, OthersKept

=============================================================================
