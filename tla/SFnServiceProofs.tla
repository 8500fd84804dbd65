-------------------------- MODULE SFnServiceProofs --------------------------
(***************************************************************************)
(* Proofs about SFnService for every set of processes, of aliases and of   *)
(* options, and every choice of faults and of the bounds.                  *)
(***************************************************************************)
EXTENDS SFnServiceProps, FiniteSetTheorems, WellFoundedInduction, TLAPS

USE BoundsAssumption

(* The natural numbers are well founded (library theorem, spelled out). *)
LEMMA NatWF == IsWellFoundedOn({ss \in Nat \X Nat : ss[1] < ss[2]}, Nat)
BY NatLessThanWellFounded, Zenon DEF OpToRel

(* A nonempty set of naturals up to n has the maximum Max chooses. *)
LEMMA MaxOfSet ==
  ASSUME NEW n \in Nat, NEW S, S \subseteq 0..n, S # {}
  PROVE  Max(S) \in S /\ \A x \in S : x <= Max(S)
<1>1. \E m \in S : \A x \in S : m >= x
  <2> DEFINE T == {n - x : x \in S}
             R == {ss \in Nat \X Nat : ss[1] < ss[2]}
  <2>1. T \subseteq Nat /\ T # {}
    <3>1. PICK x \in S : TRUE
      OBVIOUS
    <3>2. n - x \in T
      OBVIOUS
    <3>3. ASSUME NEW y \in S PROVE n - y \in Nat
      OBVIOUS
    <3>. QED  BY <3>2, <3>3
  <2>2. IsWellFoundedOn(R, Nat)
    BY NatWF
  <2>3. PICK t \in T : \A u \in T : <<u, t>> \notin R
    <3> HIDE DEF T, R
    <3>. QED  BY <2>1, <2>2, WFMin
  <2>4. PICK m \in S : t = n - m
    OBVIOUS
  <2>5. ASSUME NEW x \in S PROVE m >= x
    <3>1. n - x \in T /\ n - x \in Nat /\ n - m \in Nat
      BY <2>1
    <3>2. ~ (n - x < n - m)
      BY <2>3, <2>4, <3>1
    <3>. QED  BY <3>2
  <2>. QED  BY <2>5
<1>2. Max(S) \in S /\ \A x \in S : Max(S) >= x
  BY <1>1 DEF Max
<1>. QED
  BY <1>2

-----------------------------------------------------------------------------
(* Types *)

LEMMA FreshType == Fresh \in Memory
BY DEF Fresh, Memory

LEMMA AnyOptionType == AnyOption \in Options
BY OptionsAssumption DEF AnyOption

LEMMA OptionTypes ==
  ASSUME ProcsOK, NEW p \in Procs
  PROVE  /\ opt[p].op \in {"deploy", "rollback", "versions"}
         /\ opt[p].alias \in Aliases
         /\ opt[p].keep \in Nat
         /\ opt[p].keepVersion \in BOOLEAN
         /\ opt[p].dryRun \in BOOLEAN
BY OptionsAssumption DEF ProcsOK, OptionSet

(* The fields of a process's memory. *)
LEMMA MemoryTypes ==
  ASSUME ProcsOK, NEW p \in Procs
  PROVE  /\ mem[p] \in Memory
         /\ mem[p].seen \in [Aliases -> SUBSET Version]
         /\ mem[p].pending \in SUBSET Aliases
         /\ mem[p].target \in 0..MaxVersion
         /\ mem[p].todo \in SUBSET Version
         /\ mem[p].failed \in BOOLEAN
         /\ mem[p].attempts \in 0..(MaxRetry - 1)
BY DEF ProcsOK, Memory

LEMMA FirstCallType ==
  ASSUME ProcsOK, CloudOK, NEW p \in Procs
  PROVE  FirstCall(opt[p]) \in Ended \cup Calls
<1>1. CASE opt[p].op = "deploy"
  BY <1>1, OptionTypes DEF FirstCall, FirstOfDeploy, Ended, Calls
<1>2. CASE opt[p].op = "rollback"
  BY <1>2, OptionTypes DEF FirstCall, FirstOfRollback, Ended, Calls
<1>3. CASE opt[p].op = "versions"
  BY <1>3, OptionTypes DEF FirstCall, FirstOfVersions, Ended, Calls
<1>. QED  BY <1>1, <1>2, <1>3, OptionTypes

(* A process's next deletion is one of those it has still to do. *)
LEMMA VictimTodo ==
  ASSUME ProcsOK, NEW p \in Procs, mem[p].todo # {}
  PROVE  Victim(p) \in mem[p].todo
<1>1. mem[p].todo \subseteq 0..MaxVersion
  BY MemoryTypes DEF Version
<1>. QED  BY <1>1, MaxOfSet DEF Victim

-----------------------------------------------------------------------------
(* Moves of one process *)

(* Call l and memory m fit what the invariant says of process p. *)
Fits(p, l, m) ==
  \/ l \in Ended
  \/ /\ l \in Calls
     /\ m \in Memory
     /\ Phase(l, opt[p], m)
     /\ Known(opt[p], m)

GoodMove(p) == \E l, m : Fits(p, l, m) /\ Goto(p, l, m)

(* Numbers go up and aliases do not vanish. *)
Grows ==
  /\ published \in Nat /\ published' \in Nat /\ published <= published'
  /\ \A a \in Aliases : routing[a] # {} => routing'[a] # {}

ProcsInv ==
  /\ ProcsOK
  /\ \A p \in Procs : Phase(pc[p], opt[p], mem[p]) /\ Known(opt[p], mem[p])

(* What a process knows stays true while the cloud grows. *)
LEMMA KnownGrows ==
  ASSUME Grows, NEW o, NEW m \in Memory,
         \A a \in Aliases : m.seen[a] # {} => routing[a] # {},
         o.op # "rollback" => \A v \in m.todo : v < published
  PROVE  /\ \A a \in Aliases : m.seen[a] # {} => routing'[a] # {}
         /\ o.op # "rollback" => \A v \in m.todo : v < published'
<1>1. m.todo \subseteq Int
  BY DEF Memory, Version
<1>. QED  BY <1>1 DEF Grows

(* A process that makes a fitting move keeps the invariant of all. *)
LEMMA MoveKeeps ==
  ASSUME ProcsInv, NEW p \in Procs, GoodMove(p), Grows
  PROVE  ProcsInv'
<1>1. PICK l, m : Fits(p, l, m) /\ Goto(p, l, m)
  BY DEF GoodMove
<1> DEFINE mm == IF l \in Ended THEN Fresh ELSE m
           oo == IF l \in Ended THEN AnyOption ELSE opt[p]
<1>2. /\ pc' = [pc EXCEPT ![p] = l]
      /\ mem' = [mem EXCEPT ![p] = mm]
      /\ opt' = [opt EXCEPT ![p] = oo]
  BY <1>1 DEF Goto, ProcsInv, ProcsOK
<1>3. l \in Ended \cup Calls /\ mm \in Memory /\ oo \in Options
  BY <1>1, FreshType, AnyOptionType DEF Fits, ProcsInv, ProcsOK
<1>4. Phase(l, oo, mm)
  <2>1. CASE l \in Ended
    BY <2>1 DEF Phase, Ended, Calls, Fresh
  <2>2. CASE l \notin Ended
    BY <1>1, <2>2 DEF Fits
  <2>. QED  BY <2>1, <2>2
<1>5. Known(oo, mm)
  <2>1. CASE l \in Ended
    BY <2>1 DEF Known, Fresh
  <2>2. CASE l \notin Ended
    BY <1>1, <2>2 DEF Fits
  <2>. QED  BY <2>1, <2>2
<1> HIDE DEF mm, oo
<1>6. ProcsOK'
  BY <1>2, <1>3 DEF ProcsInv, ProcsOK
<1>7. ASSUME NEW q \in Procs
      PROVE  Phase(pc[q], opt[q], mem[q])' /\ Known(opt[q], mem[q])'
  <2>1. CASE q = p
    <3>1. pc'[q] = l /\ opt'[q] = oo /\ mem'[q] = mm
      BY <1>2, <2>1 DEF ProcsInv, ProcsOK
    <3>2. Phase(pc[q], opt[q], mem[q])'
      BY <3>1, <1>4 DEF Phase
    <3>3. Known(opt[q], mem[q])'
      BY <3>1, <1>3, <1>5, KnownGrows DEF Known
    <3>. QED  BY <3>2, <3>3
  <2>2. CASE q # p
    <3>1. pc'[q] = pc[q] /\ opt'[q] = opt[q] /\ mem'[q] = mem[q]
      BY <1>2, <2>2 DEF ProcsInv, ProcsOK
    <3>2. Phase(pc[q], opt[q], mem[q])'
      BY <3>1 DEF Phase, ProcsInv
    <3>3. mem[q] \in Memory
      BY DEF ProcsInv, ProcsOK
    <3>4. Known(opt[q], mem[q])'
      BY <3>1, <3>3, KnownGrows DEF Known, ProcsInv
    <3>. QED  BY <3>2, <3>4
  <2>. QED  BY <2>1, <2>2
<1>. QED  BY <1>6, <1>7 DEF ProcsInv

(* A step of one process that only reads. *)
LEMMA ReadKeeps ==
  ASSUME IInv, NEW p \in Procs, GoodMove(p), UNCHANGED cloud
  PROVE  IInv'
<1>1. ProcsInv
  BY DEF ProcsInv, IInv, TypeOK
<1>2. Grows
  BY DEF Grows, IInv, TypeOK, CloudOK, cloud
<1>3. ProcsInv'
  BY <1>1, <1>2, MoveKeeps
<1>4. CloudOK' /\ NewestOrServed'
  BY DEF IInv, TypeOK, CloudOK, NewestOrServed, Served, cloud
<1>. QED  BY <1>3, <1>4 DEF IInv, TypeOK, ProcsInv

(* A process may end at any call. *)
LEMMA EndMove ==
  ASSUME NEW p, NEW l \in Ended, NEW m, Goto(p, l, m)
  PROVE  GoodMove(p)
BY DEF GoodMove, Fits

(* What the invariant says of process p, in the terms the moves use. *)
LEMMA MyFacts ==
  ASSUME IInv, NEW p \in Procs
  PROVE  /\ mem[p] \in Memory
         /\ Phase(pc[p], opt[p], mem[p])
         /\ Known(opt[p], mem[p])
         /\ opt[p].op \in {"deploy", "rollback", "versions"}
         /\ MyAlias(p) \in Aliases /\ MyAlias(p) = opt[p].alias
BY OptionTypes, MemoryTypes DEF IInv, TypeOK, MyAlias

LEMMA DescribeStateMachineMove ==
  ASSUME IInv, NEW p \in Procs, DescribeStateMachine(p)
  PROVE  GoodMove(p)
<1>1. Goto(p, FirstCall(opt[p]), mem[p])
  BY DEF DescribeStateMachine
<1>2. FirstCall(opt[p]) \in Ended \cup Calls
  BY FirstCallType DEF IInv, TypeOK
<1>3. opt[p].op = "rollback" =>
        FirstCall(opt[p]) \in Ended \cup {"DescribeCurrentAlias"}
  BY DEF FirstCall, FirstOfRollback, Ended
<1>4. FirstCall(opt[p]) # "DeleteVersion"
  <2>1. CASE opt[p].op = "deploy"
    BY <2>1, OptionTypes DEF FirstCall, FirstOfDeploy, IInv, TypeOK
  <2>2. CASE opt[p].op = "rollback"
    BY <2>2 DEF FirstCall, FirstOfRollback
  <2>3. CASE opt[p].op = "versions"
    BY <2>3 DEF FirstCall, FirstOfVersions
  <2>. QED  BY <2>1, <2>2, <2>3, MyFacts
<1>5. /\ opt[p].op = "deploy" /\ opt[p].dryRun => FirstCall(opt[p]) = "ok"
      /\ opt[p].op # "rollback" => FirstCall(opt[p]) # "DescribeCurrentAlias"
  <2>1. CASE opt[p].op = "deploy"
    BY <2>1, OptionTypes DEF FirstCall, FirstOfDeploy, IInv, TypeOK
  <2>2. CASE opt[p].op = "rollback"
    BY <2>2
  <2>3. CASE opt[p].op = "versions"
    BY <2>3 DEF FirstCall, FirstOfVersions
  <2>. QED  BY <2>1, <2>2, <2>3, MyFacts
<1>6. Phase(FirstCall(opt[p]), opt[p], mem[p])
  BY <1>3, <1>4, <1>5, MyFacts DEF DescribeStateMachine, Phase, Ended, Calls, Looking
<1>. QED  BY <1>1, <1>2, <1>6, MyFacts DEF GoodMove, Fits

(* A move to call l that leaves the memory's routings, its aliases to      *)
(* describe and its versions to delete alone.                              *)
LEMMA PlainMove ==
  ASSUME IInv, NEW p \in Procs,
         NEW l \in Calls \ {"DeleteVersion", "DescribeCurrentAlias"},
         NEW m \in Memory, Goto(p, l, m),
         m.seen = mem[p].seen, m.pending = mem[p].pending, m.todo = mem[p].todo,
         opt[p].op # "rollback", 
         pc[p] \in Calls \ {"DescribeStateMachine", "DescribeAliases", "DeleteVersion"}
  PROVE  GoodMove(p)
BY MyFacts DEF GoodMove, Fits, Phase, Known

(* A process in these calls does not run a rollback. *)
LEMMA NotRollback ==
  ASSUME IInv, NEW p \in Procs,
         pc[p] \in {"CreateStateMachine", "UpdateStateMachine", "TagResource",
                    "WaitActive", "DescribeAlias", "CreateAlias"}
  PROVE  opt[p].op # "rollback"
BY MyFacts DEF Phase, Calls

LEMMA CreateStateMachineMove ==
  ASSUME IInv, NEW p \in Procs, CreateStateMachine(p)
  PROVE  GoodMove(p)
<1> DEFINE m == [mem[p] EXCEPT !.target = 1]
<1>1. m \in Memory
  BY MyFacts DEF Memory
<1>2. opt[p].op # "rollback" /\ Goto(p, "WaitActive", m) /\ pc[p] = "CreateStateMachine"
  BY NotRollback DEF CreateStateMachine
<1>3. m.seen = mem[p].seen /\ m.pending = mem[p].pending /\ m.todo = mem[p].todo
  BY MyFacts DEF Memory
<1> HIDE DEF m
<1>. QED  BY <1>1, <1>2, <1>3, PlainMove DEF Calls

LEMMA UpdateStateMachineMove ==
  ASSUME IInv, NEW p \in Procs, UpdateStateMachine(p)
  PROVE  GoodMove(p)
<1>1. PICK v \in 0..MaxVersion :
        Goto(p, "TagResource", [mem[p] EXCEPT !.target = v])
  BY DEF UpdateStateMachine, IInv, TypeOK, CloudOK, Version
<1> DEFINE m == [mem[p] EXCEPT !.target = v]
<1>2. m \in Memory
  BY MyFacts DEF Memory
<1>3. m.seen = mem[p].seen /\ m.pending = mem[p].pending /\ m.todo = mem[p].todo
  BY MyFacts DEF Memory
<1>4. opt[p].op # "rollback" /\ Goto(p, "TagResource", m) /\ pc[p] = "UpdateStateMachine"
  BY <1>1, NotRollback DEF UpdateStateMachine
<1> HIDE DEF m
<1>. QED  BY <1>2, <1>3, <1>4, PlainMove DEF Calls

LEMMA TagResourceMove ==
  ASSUME IInv, NEW p \in Procs, TagResource(p)
  PROVE  GoodMove(p)
BY MyFacts, NotRollback, PlainMove DEF TagResource, Calls, Phase

LEMMA WaitActiveMove ==
  ASSUME IInv, NEW p \in Procs, WaitActive(p)
  PROVE  GoodMove(p)
<1> DEFINE m == [mem[p] EXCEPT !.attempts = 0]
<1>1. m \in Memory
  BY MyFacts DEF Memory
<1>2. opt[p].op # "rollback" /\ Goto(p, "DescribeAlias", m) /\ pc[p] = "WaitActive"
  BY NotRollback DEF WaitActive
<1>3. m.seen = mem[p].seen /\ m.pending = mem[p].pending /\ m.todo = mem[p].todo
  BY MyFacts DEF Memory
<1> HIDE DEF m
<1>. QED  BY <1>1, <1>2, <1>3, PlainMove DEF Calls

(* Another try that is not the last one is counted within the bound. *)
LEMMA OneMoreTry ==
  ASSUME IInv, NEW p \in Procs, ~LastTry(p)
  PROVE  [mem[p] EXCEPT !.attempts = @ + 1] \in Memory
<1>1. mem[p].attempts + 1 \in 0..(MaxRetry - 1)
  BY MemoryTypes DEF LastTry, IInv, TypeOK
<1>. QED  BY <1>1, MyFacts DEF Memory

LEMMA WaitAgainMove ==
  ASSUME IInv, NEW p \in Procs, WaitAgain(p)
  PROVE  GoodMove(p)
<1>1. CASE LastTry(p)
  BY <1>1, EndMove DEF WaitAgain, Ended
<1>2. CASE ~LastTry(p)
  <2> DEFINE m == [mem[p] EXCEPT !.attempts = @ + 1]
  <2>1. m \in Memory
    BY <1>2, OneMoreTry
  <2>2. opt[p].op # "rollback" /\ Goto(p, "WaitActive", m) /\ pc[p] = "WaitActive"
    BY <1>2, NotRollback DEF WaitAgain
  <2>3. m.seen = mem[p].seen /\ m.pending = mem[p].pending /\ m.todo = mem[p].todo
    BY MyFacts DEF Memory
  <2> HIDE DEF m
  <2>. QED  BY <2>1, <2>2, <2>3, PlainMove DEF Calls
<1>. QED  BY <1>1, <1>2

(* Every routing is a set of versions. *)
LEMMA RoutingTypes ==
  ASSUME IInv, NEW a \in Aliases
  PROVE  routing[a] \in SUBSET versions /\ routing[a] \in SUBSET Version
<1>1. routing[a] \in SUBSET versions
  BY DEF IInv, TypeOK, CloudOK
<1>2. published \in Int /\ published <= MaxVersion /\ versions \subseteq 1..published
  BY DEF IInv, TypeOK, CloudOK
<1>3. versions \subseteq Version
  BY <1>2 DEF Version
<1>. QED  BY <1>1, <1>3

(* The memory of p once it has cached the routing of alias a. *)
Saw(p, a) == [mem[p] EXCEPT !.seen[a] = routing[a]]

LEMMA SeeAlias ==
  ASSUME IInv, NEW p \in Procs, NEW a \in Aliases
  PROVE  /\ Saw(p, a) \in Memory
         /\ Saw(p, a).seen = [mem[p].seen EXCEPT ![a] = routing[a]]
         /\ Saw(p, a).pending = mem[p].pending
         /\ Saw(p, a).todo = mem[p].todo
         /\ Known(opt[p], Saw(p, a))
<1> DEFINE m == Saw(p, a)
<1>1. m.seen = [mem[p].seen EXCEPT ![a] = routing[a]]
  BY MyFacts DEF Memory, Saw
<1>2. m.seen \in [Aliases -> SUBSET Version]
  BY <1>1, MemoryTypes, RoutingTypes DEF IInv, TypeOK
<1>3. m.pending = mem[p].pending /\ m.todo = mem[p].todo
  BY MyFacts DEF Memory, Saw
<1>4. m \in Memory
  BY <1>1, <1>2, MyFacts DEF Memory, Saw
<1>5. \A b \in Aliases : m.seen[b] # {} => routing[b] # {}
  BY <1>1, MyFacts DEF Known, Memory
<1>6. Known(opt[p], m)
  BY <1>3, <1>5, MyFacts DEF Known
<1>. QED  BY <1>1, <1>3, <1>4, <1>6

LEMMA DescribeAliasMove ==
  ASSUME IInv, NEW p \in Procs, DescribeAlias(p)
  PROVE  GoodMove(p)
<1> DEFINE l == IF routing[MyAlias(p)] = {} THEN "CreateAlias" ELSE "UpdateAlias"
           m == Saw(p, MyAlias(p))
<1>1. Goto(p, l, m) /\ opt[p].op # "rollback"
  BY NotRollback DEF DescribeAlias, Saw
<1>2. l \in Calls \ {"DeleteVersion", "DescribeAliases", "DescribeCurrentAlias"}
  BY DEF Calls
<1>3. /\ m \in Memory
      /\ m.pending = mem[p].pending /\ m.todo = mem[p].todo
      /\ Known(opt[p], m)
  BY MyFacts, SeeAlias
<1>4. m.pending = {} /\ m.todo = {}
  BY <1>3, MyFacts DEF DescribeAlias, Phase
<1> HIDE DEF l, m
<1>5. ~ (opt[p].dryRun /\ opt[p].op # "versions")
  BY <1>1, MyFacts DEF DescribeAlias, Phase, Calls
<1>. QED  BY <1>1, <1>2, <1>3, <1>4, <1>5 DEF GoodMove, Fits, Phase

LEMMA DescribeCurrentAliasMove ==
  ASSUME IInv, NEW p \in Procs, DescribeCurrentAlias(p)
  PROVE  GoodMove(p)
<1> DEFINE r == routing[MyAlias(p)]
           l == CASE r = {} -> "error"
                  [] Cardinality(r) > 1 \/ r = {1} -> "ok"
                  [] OTHER -> "ListAliases"
           m == Saw(p, MyAlias(p))
<1>1. Goto(p, l, m)
  BY DEF DescribeCurrentAlias, Saw
<1>2. l \in Ended \/ (l = "ListAliases" /\ r # {})
  BY DEF Ended
<1>3. CASE l \in Ended
  BY <1>1, <1>3, EndMove
<1>4. CASE l = "ListAliases" /\ r # {}
  <2>1. /\ m \in Memory
        /\ m.seen = [mem[p].seen EXCEPT ![MyAlias(p)] = r]
        /\ m.pending = mem[p].pending /\ m.todo = mem[p].todo
        /\ Known(opt[p], m)
    BY MyFacts, SeeAlias
  <2>2. m.seen[MyAlias(p)] # {}
    BY <1>4, <2>1, MyFacts DEF Memory
  <2>3. m.pending = {} /\ m.todo = {}
    BY <2>1, MyFacts DEF Phase, DescribeCurrentAlias
  <2> HIDE DEF m, r, l
  <2>. QED  BY <1>1, <1>4, <2>1, <2>2, <2>3, MyFacts
     DEF GoodMove, Fits, Phase, Calls, Looking, DescribeCurrentAlias
<1>. QED  BY <1>2, <1>3, <1>4

LEMMA ListAliasesMove ==
  ASSUME IInv, NEW p \in Procs, ListAliases(p)
  PROVE  GoodMove(p)
<1> DEFINE new == {a \in Aliases : routing[a] # {} /\ mem[p].seen[a] = {}}
           l == IF new = {} THEN "ListVersions" ELSE "DescribeAliases"
           m == [mem[p] EXCEPT !.pending = new]
<1>1. Goto(p, l, m) /\ pc[p] = "ListAliases"
  BY DEF ListAliases
<1>2. m \in Memory /\ m.pending = new /\ m.seen = mem[p].seen /\ m.todo = mem[p].todo
  BY MyFacts DEF Memory
<1>3. Known(opt[p], m)
  BY <1>2, MyFacts DEF Known
<1>4. Phase(l, opt[p], m)
  BY <1>1, <1>2, MyFacts DEF Phase, Calls, Looking
<1>5. l \in Calls
  BY DEF Calls
<1> HIDE DEF l, m
<1>. QED  BY <1>1, <1>2, <1>3, <1>4, <1>5 DEF GoodMove, Fits

LEMMA DescribeAliasesMove ==
  ASSUME IInv, NEW p \in Procs, DescribeAliases(p)
  PROVE  GoodMove(p)
<1>1. PICK a \in mem[p].pending :
        Goto(p, IF mem[p].pending = {a} THEN "ListVersions" ELSE "DescribeAliases",
                [mem[p] EXCEPT !.seen[a] = routing[a], !.pending = @ \ {a}])
  BY DEF DescribeAliases
<1> DEFINE l == IF mem[p].pending = {a} THEN "ListVersions" ELSE "DescribeAliases"
           s == Saw(p, a)
           m == [mem[p] EXCEPT !.seen[a] = routing[a], !.pending = @ \ {a}]
<1>2. a \in Aliases /\ pc[p] = "DescribeAliases"
  BY MyFacts DEF Memory, DescribeAliases
<1>3. /\ s \in Memory
      /\ s.seen = [mem[p].seen EXCEPT ![a] = routing[a]]
      /\ s.pending = mem[p].pending
      /\ s.todo = mem[p].todo
      /\ Known(opt[p], s)
  BY <1>2, SeeAlias
<1>4. m.seen = s.seen /\ m.todo = s.todo /\ m.pending = mem[p].pending \ {a}
  BY MyFacts DEF Memory, Saw
<1>5. m \in Memory
  <2>1. m.seen \in [Aliases -> SUBSET Version]
    BY <1>3, <1>4 DEF Memory
  <2>2. m = [mem[p] EXCEPT !.seen = m.seen, !.pending = @ \ {a}]
    BY MyFacts DEF Memory
  <2>. QED  BY <2>1, <2>2, MyFacts DEF Memory
<1>6. Known(opt[p], m)
  BY <1>3, <1>4 DEF Known
<1>7. Phase(l, opt[p], m)
  <2>1. l = "ListVersions" => m.pending = {}
    BY <1>4
  <2>2. ASSUME opt[p].op = "rollback"
        PROVE  m.seen[opt[p].alias] # {} /\ opt[p].alias \notin m.pending
    <3>1. mem[p].seen[opt[p].alias] # {} /\ opt[p].alias \notin mem[p].pending
      BY <1>2, <2>2, MyFacts DEF Phase, Calls
    <3>2. m.seen[opt[p].alias] = mem[p].seen[opt[p].alias]
      BY <1>3, <1>4, <3>1, MyFacts DEF Memory
    <3>. QED  BY <1>4, <3>1, <3>2
  <2>3. l # "DeleteVersion" /\ m.todo = {}
    BY <1>2, <1>3, <1>4, MyFacts DEF Phase
  <2>4. l \in {"ListVersions", "DescribeAliases"}
    OBVIOUS
  <2> HIDE DEF l, m, s
  <2>. QED  BY <1>2, <2>1, <2>2, <2>3, <2>4, MyFacts DEF Phase, Calls, Looking
<1>8. l \in Calls
  BY DEF Calls
<1> HIDE DEF l, m, s
<1>. QED  BY <1>1, <1>5, <1>6, <1>7, <1>8 DEF GoodMove, Fits, l, m

LEMMA VersionTypes ==
  ASSUME IInv
  PROVE  /\ published \in 0..MaxVersion
         /\ versions \subseteq 1..published
         /\ versions \subseteq Version
<1>1. published \in 0..MaxVersion /\ versions \subseteq 1..published
  BY DEF IInv, TypeOK, CloudOK
<1>. QED  BY <1>1 DEF Version

(* A purge does not set out to delete the newest release. *)
LEMMA PurgeableOld ==
  ASSUME IInv, NEW L \in SUBSET versions, NEW keep \in Nat, NEW seen,
         NEW v \in Purgeable(L, keep, seen)
  PROVE  v \in Version /\ v < published
<1>1. v \in L /\ Position(v, L) > 0
  BY DEF Purgeable
<1>2. {w \in L : w > v} # {}
  BY <1>1, FS_EmptySet DEF Position
<1>3. PICK w \in L : w > v
  BY <1>2
<1>. QED  BY <1>1, <1>3, VersionTypes

LEMMA ChoosePurgeMove ==
  ASSUME IInv, NEW p \in Procs, pc[p] = "ListVersions",
         opt[p].op # "rollback", NEW L \in SUBSET versions, ChoosePurge(p, L)
  PROVE  GoodMove(p)
<1> DEFINE old == Purgeable(L, opt[p].keep, mem[p].seen)
           m == [mem[p] EXCEPT !.todo = old]
<1>1. CASE old = {}
  BY <1>1, EndMove DEF ChoosePurge, Ended
<1>2. CASE old # {}
  <2>1. Goto(p, "DeleteVersion", m)
    BY <1>2 DEF ChoosePurge
  <2>2. \A v \in old : v \in Version /\ v < published
    BY PurgeableOld, OptionTypes DEF IInv, TypeOK
  <2> HIDE DEF old
  <2>3. m \in Memory /\ m.todo = old /\ m.seen = mem[p].seen /\ m.pending = mem[p].pending
    BY <2>2, MyFacts DEF Memory
  <2>4. Known(opt[p], m)
    BY <2>2, <2>3, MyFacts DEF Known
  <2>5. Phase("DeleteVersion", opt[p], m)
    BY <1>2, <2>3, MyFacts DEF Phase, Calls
  <2> HIDE DEF m
  <2>. QED  BY <2>1, <2>3, <2>4, <2>5 DEF GoodMove, Fits, Calls
<1>. QED  BY <1>1, <1>2

(* The version a rollback starts from is one it has seen. *)
LEMMA CurrentType ==
  ASSUME IInv, NEW p \in Procs, mem[p].seen[MyAlias(p)] # {}
  PROVE  Current(p) \in Version
<1> DEFINE r == mem[p].seen[MyAlias(p)]
<1>1. r \in SUBSET Version
  BY MyFacts DEF Memory
<1>2. r \subseteq 0..MaxVersion
  BY <1>1 DEF Version
<1>3. r # {}
  OBVIOUS
<1>4. Max(r) \in r
  <2> HIDE DEF r
  <2>. QED  BY <1>2, <1>3, MaxOfSet
<1>. QED  BY <1>1, <1>4 DEF Current

LEMMA ChooseTargetMove ==
  ASSUME IInv, NEW p \in Procs, pc[p] = "ListVersions",
         opt[p].op = "rollback", NEW L \in SUBSET versions, ChooseTarget(p, L)
  PROVE  GoodMove(p)
<1> DEFINE older == {v \in L : v < Current(p)}
           m == [mem[p] EXCEPT !.target = Max(older)]
<1>1. CASE older = {} \/ opt[p].dryRun
  BY <1>1, EndMove DEF ChooseTarget, Ended
<1>2. CASE older # {} /\ ~opt[p].dryRun
  <2>1. Goto(p, "UpdateAlias", m)
    BY <1>2 DEF ChooseTarget
  <2>2. older \subseteq 0..MaxVersion
    BY VersionTypes DEF Version
  <2>3. Max(older) \in 0..MaxVersion
    <3>1. older # {}
      BY <1>2
    <3> HIDE DEF older
    <3>. QED  BY <3>1, <2>2, MaxOfSet
  <2> HIDE DEF older
  <2>4. m \in Memory /\ m.todo = mem[p].todo /\ m.seen = mem[p].seen
        /\ m.pending = mem[p].pending
    BY <2>3, MyFacts DEF Memory
  <2>5. Known(opt[p], m)
    BY <2>4, MyFacts DEF Known
  <2>6. Phase("UpdateAlias", opt[p], m)
    BY <1>2, <2>4, MyFacts DEF Phase, Calls
  <2> HIDE DEF m
  <2>. QED  BY <2>1, <2>4, <2>5, <2>6 DEF GoodMove, Fits, Calls
<1>. QED  BY <1>1, <1>2

LEMMA ListVersionsMove ==
  ASSUME IInv, NEW p \in Procs, ListVersions(p)
  PROVE  GoodMove(p)
<1>1. PICK L \in SUBSET versions :
        IF opt[p].op = "rollback" THEN ChooseTarget(p, L) ELSE ChoosePurge(p, L)
  BY DEF ListVersions, Listings
<1>2. pc[p] = "ListVersions"
  BY DEF ListVersions
<1>. QED  BY <1>1, <1>2, ChooseTargetMove, ChoosePurgeMove

(* After a deletion, done or given up. *)
LEMMA NextVictimMove ==
  ASSUME IInv, NEW p \in Procs, pc[p] = "DeleteVersion",
         NEW bad \in BOOLEAN, NextVictim(p, bad)
  PROVE  GoodMove(p)
<1> DEFINE left == mem[p].todo \ {Victim(p)}
           m == [mem[p] EXCEPT !.todo = left, !.failed = bad, !.attempts = 0]
<1>1. CASE left = {}
  BY <1>1, EndMove DEF NextVictim, Ended
<1>2. CASE left # {}
  <2>1. Goto(p, "DeleteVersion", m)
    BY <1>2 DEF NextVictim
  <2>2. left \in SUBSET Version /\ 0 \in 0..(MaxRetry - 1)
    BY MyFacts DEF Memory
  <2>3. left \subseteq mem[p].todo
    OBVIOUS
  <2> HIDE DEF left
  <2>4. m \in Memory /\ m.todo = left /\ m.seen = mem[p].seen
        /\ m.pending = mem[p].pending
    BY <2>2, MyFacts DEF Memory
  <2>5. Known(opt[p], m)
    BY <2>3, <2>4, MyFacts DEF Known
  <2>6. Phase("DeleteVersion", opt[p], m)
    BY <1>2, <2>4, MyFacts DEF Phase, Calls
  <2> HIDE DEF m
  <2>. QED  BY <2>1, <2>4, <2>5, <2>6 DEF GoodMove, Fits, Calls
<1>. QED  BY <1>1, <1>2

LEMMA DeleteAgainMove ==
  ASSUME IInv, NEW p \in Procs, DeleteAgain(p)
  PROVE  GoodMove(p)
<1>1. CASE LastTry(p)
  BY <1>1, NextVictimMove DEF DeleteAgain
<1>2. CASE ~LastTry(p)
  <2> DEFINE m == [mem[p] EXCEPT !.attempts = @ + 1]
  <2>1. m \in Memory
    BY <1>2, OneMoreTry
  <2>2. Goto(p, "DeleteVersion", m) /\ pc[p] = "DeleteVersion"
    BY <1>2 DEF DeleteAgain
  <2>3. m.seen = mem[p].seen /\ m.pending = mem[p].pending /\ m.todo = mem[p].todo
    BY MyFacts DEF Memory
  <2> HIDE DEF m
  <2>4. Known(opt[p], m) /\ Phase("DeleteVersion", opt[p], m)
    BY <2>2, <2>3, MyFacts DEF Known, Phase
  <2>. QED  BY <2>1, <2>2, <2>4 DEF GoodMove, Fits, Calls
<1>. QED  BY <1>1, <1>2

LEMMA PointAliasMove ==
  ASSUME IInv, NEW p \in Procs, pc[p] \in {"CreateAlias", "UpdateAlias"},
         PointAlias(p)
  PROVE  GoodMove(p)
<1>1. CASE opt[p].op = "rollback" /\ (opt[p].keepVersion \/ TargetShared(p))
  <2>1. Goto(p, "ok", Fresh)
    BY <1>1 DEF PointAlias, AfterRollback
  <2>. QED  BY <2>1, EndMove DEF Ended
<1>2. CASE opt[p].op = "rollback" /\ ~(opt[p].keepVersion \/ TargetShared(p))
  <2> DEFINE m == [mem[p] EXCEPT !.todo = {Current(p)}]
  <2>1. Goto(p, "DeleteVersion", m)
    BY <1>2 DEF PointAlias, AfterRollback
  <2>2. mem[p].seen[MyAlias(p)] # {} /\ mem[p].pending = {}
    BY <1>2, MyFacts DEF Phase, Calls
  <2>3. Current(p) \in Version
    BY <2>2, CurrentType
  <2>4. m \in Memory /\ m.todo = {Current(p)} /\ m.seen = mem[p].seen
        /\ m.pending = mem[p].pending
    BY <2>3, MyFacts DEF Memory
  <2> HIDE DEF m
  <2>5. Known(opt[p], m) /\ Phase("DeleteVersion", opt[p], m)
    BY <1>2, <2>2, <2>4, MyFacts DEF Known, Phase, Calls, Looking
  <2>. QED  BY <2>1, <2>4, <2>5 DEF GoodMove, Fits, Calls
<1>3. CASE opt[p].op # "rollback"
  <2>1. Goto(p, IF opt[p].keep = 0 THEN "ok" ELSE "ListAliases", mem[p])
    BY <1>3 DEF PointAlias, AfterDeploy
  <2>2. CASE opt[p].keep = 0
    BY <2>1, <2>2, EndMove DEF Ended
  <2>3. CASE opt[p].keep # 0
    BY <1>3, <2>1, <2>3, MyFacts, PlainMove DEF Calls
  <2>. QED  BY <2>2, <2>3
<1>. QED  BY <1>1, <1>2, <1>3

-----------------------------------------------------------------------------
(* Steps *)

(* A step of one process that leaves the cloud as it may be left. *)
LEMMA WriteKeeps ==
  ASSUME IInv, NEW p \in Procs, GoodMove(p), Grows, CloudOK', NewestOrServed'
  PROVE  IInv'
BY MoveKeeps DEF IInv, TypeOK, ProcsInv

LEMMA StartStep ==
  ASSUME IInv, NEW p \in Procs, NEW o \in Options, Start(p, o)
  PROVE  IInv'
<1>1. CloudOK' /\ NewestOrServed'
  BY DEF IInv, TypeOK, CloudOK, NewestOrServed, Served, Start, cloud
<1>2. ProcsOK'
  BY DEF IInv, TypeOK, ProcsOK, Start, Calls
<1>3. mem[p].todo = {} /\ mem[p].pending = {}
  BY MyFacts DEF Phase, Start, Ended
<1>4. ASSUME NEW q \in Procs
      PROVE  Phase(pc[q], opt[q], mem[q])' /\ Known(opt[q], mem[q])'
  <2>1. CASE q = p
    <3>1. pc'[q] = "DescribeStateMachine" /\ opt'[q] = o /\ mem'[q] = mem[p]
      BY <2>1 DEF Start, IInv, TypeOK, ProcsOK
    <3>2. Phase(pc[q], opt[q], mem[q])'
      BY <1>3, <3>1 DEF Phase
    <3>3. Known(opt[q], mem[q])'
      BY <1>3, <3>1, MyFacts DEF Known, Start, cloud
    <3>. QED  BY <3>2, <3>3
  <2>2. CASE q # p
    <3>1. pc'[q] = pc[q] /\ opt'[q] = opt[q] /\ mem'[q] = mem[q]
      BY <2>2 DEF Start, IInv, TypeOK, ProcsOK
    <3>2. Phase(pc[q], opt[q], mem[q])'
      BY <3>1, MyFacts DEF Phase
    <3>3. Known(opt[q], mem[q])'
      BY <3>1, MyFacts DEF Known, Start, cloud
    <3>. QED  BY <3>2, <3>3
  <2>. QED  BY <2>1, <2>2
<1>. QED  BY <1>1, <1>2, <1>4 DEF IInv, TypeOK

LEMMA CreateStateMachineStep ==
  ASSUME IInv, NEW p \in Procs, CreateStateMachine(p)
  PROVE  IInv'
<1>1. published = 0 /\ versions = {}
  BY VersionTypes DEF CreateStateMachine, IInv, TypeOK, CloudOK
<1>2. routing' = routing /\ published' = 1 /\ versions' = {1} /\ status' = "ACTIVE"
  BY DEF CreateStateMachine
<1>3. CloudOK'
  BY <1>1, <1>2 DEF IInv, TypeOK, CloudOK
<1>4. NewestOrServed'
  BY <1>2 DEF NewestOrServed
<1>5. Grows
  BY <1>1, <1>2 DEF Grows
<1>. QED  BY <1>3, <1>4, <1>5, CreateStateMachineMove, WriteKeeps

LEMMA UpdateStateMachineStep ==
  ASSUME IInv, NEW p \in Procs, UpdateStateMachine(p)
  PROVE  IInv'
<1>1. PICK v \in (versions \cap {published}) \cup (Version \cap {published + 1}) :
        published' = v /\ versions' = versions \cup {v}
  BY DEF UpdateStateMachine
<1>2. routing' = routing /\ status' = status /\ status = "ACTIVE"
  BY DEF UpdateStateMachine
<1>3. v \in 1..MaxVersion /\ v >= published /\ published \in Nat
  BY <1>1, VersionTypes DEF Version
<1>4. CloudOK'
  <2>1. versions' \subseteq 1..published'
    BY <1>1, <1>3, VersionTypes
  <2>2. published' \in 0..MaxVersion
    BY <1>1, <1>3
  <2>3. routing' \in [Aliases -> SUBSET versions']
    BY <1>1, <1>2 DEF IInv, TypeOK, CloudOK
  <2>. QED  BY <1>2, <2>1, <2>2, <2>3 DEF IInv, TypeOK, CloudOK
<1>5. NewestOrServed'
  BY <1>1 DEF NewestOrServed
<1>6. Grows
  BY <1>1, <1>2, <1>3 DEF Grows
<1>. QED  BY <1>4, <1>5, <1>6, UpdateStateMachineMove, WriteKeeps

LEMMA PointAliasStep ==
  ASSUME IInv, NEW p \in Procs, pc[p] \in {"CreateAlias", "UpdateAlias"},
         PointAlias(p)
  PROVE  IInv'
<1>1. routing' = [routing EXCEPT ![MyAlias(p)] = {mem[p].target}]
      /\ mem[p].target \in versions
      /\ published' = published /\ versions' = versions /\ status' = status
  BY DEF PointAlias
<1>2. CloudOK'
  BY <1>1, MyFacts DEF IInv, TypeOK, CloudOK
<1>3. NewestOrServed'
  <2>1. Served'
    BY <1>1, MyFacts DEF Served, IInv, TypeOK, CloudOK
  <2>. QED  BY <2>1 DEF NewestOrServed
<1>4. Grows
  BY <1>1, VersionTypes, MyFacts DEF Grows, IInv, TypeOK, CloudOK
<1>. QED  BY <1>2, <1>3, <1>4, PointAliasMove, WriteKeeps

(* What a deletion that succeeds takes away: a version no alias routes to, *)
(* the newest one only while an alias routes somewhere.                    *)
LEMMA DeletionGuard ==
  ASSUME IInv, NEW p \in Procs, DeleteVersion(p)
  PROVE  /\ Victim(p) \in mem[p].todo
         /\ \A a \in Aliases : Victim(p) \notin routing[a]
         /\ opt[p].op # "rollback" => Victim(p) < published
         /\ Victim(p) = published => Served
<1>1. mem[p].todo # {}
  BY MyFacts DEF Phase, DeleteVersion
<1>2. Victim(p) \in mem[p].todo
  BY <1>1, VictimTodo DEF IInv, TypeOK
<1>3. \A a \in Aliases : Victim(p) \notin routing[a]
  BY DEF DeleteVersion, Referencing
<1>4. opt[p].op # "rollback" => Victim(p) < published
  BY <1>2, MyFacts DEF Known
<1>5. opt[p].op = "rollback" => Served
  BY MyFacts DEF Phase, Calls, Known, Served, DeleteVersion
<1>. QED  BY <1>2, <1>3, <1>4, <1>5, VersionTypes

LEMMA DeleteVersionStep ==
  ASSUME IInv, NEW p \in Procs, DeleteVersion(p)
  PROVE  IInv'
<1>1. /\ versions' = versions \ {Victim(p)}
      /\ routing' = routing /\ published' = published /\ status' = status
      /\ NextVictim(p, mem[p].failed) /\ pc[p] = "DeleteVersion"
  BY DEF DeleteVersion
<1>2. CloudOK'
  <2>1. routing' \in [Aliases -> SUBSET versions']
    BY <1>1, DeletionGuard DEF IInv, TypeOK, CloudOK
  <2>. QED  BY <1>1, <2>1 DEF IInv, TypeOK, CloudOK
<1>3. NewestOrServed'
  BY <1>1, DeletionGuard DEF NewestOrServed, Served, IInv
<1>4. Grows
  BY <1>1, VersionTypes DEF Grows
<1>5. GoodMove(p)
  BY <1>1, MemoryTypes, NextVictimMove DEF IInv, TypeOK
<1>. QED  BY <1>2, <1>3, <1>4, <1>5, WriteKeeps

LEMMA SkipReferencedStep ==
  ASSUME IInv, NEW p \in Procs, SkipReferenced(p)
  PROVE  IInv'
<1>1. mem[p].failed \in BOOLEAN
  BY MemoryTypes DEF IInv, TypeOK
<1>. QED  BY <1>1, NextVictimMove, ReadKeeps DEF SkipReferenced

LEMMA DeleteFailsStep ==
  ASSUME IInv, NEW p \in Procs, DeleteFails(p)
  PROVE  IInv'
BY NextVictimMove, ReadKeeps DEF DeleteFails

LEMMA EndingStep ==
  ASSUME IInv, NEW p \in Procs, WaitPanics(p) \/ CallFails(p) \/ Crash(p)
  PROVE  IInv'
BY EndMove, ReadKeeps DEF WaitPanics, CallFails, Crash, Ended

(* Every step of a running command keeps the invariant. *)
LEMMA WorkStep ==
  ASSUME IInv, NEW p \in Procs, Work(p)
  PROVE  IInv'
<1>1. CASE DescribeStateMachine(p)
  BY <1>1, DescribeStateMachineMove, ReadKeeps DEF DescribeStateMachine
<1>2. CASE CreateStateMachine(p)
  BY <1>2, CreateStateMachineStep
<1>3. CASE UpdateStateMachine(p)
  BY <1>3, UpdateStateMachineStep
<1>4. CASE TagResource(p)
  BY <1>4, TagResourceMove, ReadKeeps DEF TagResource
<1>5. CASE WaitActive(p)
  BY <1>5, WaitActiveMove, ReadKeeps DEF WaitActive
<1>6. CASE WaitAgain(p)
  BY <1>6, WaitAgainMove, ReadKeeps DEF WaitAgain
<1>7. CASE DescribeAlias(p)
  BY <1>7, DescribeAliasMove, ReadKeeps DEF DescribeAlias
<1>8. CASE CreateAlias(p) \/ UpdateAlias(p)
  BY <1>8, PointAliasStep DEF CreateAlias, UpdateAlias
<1>9. CASE DescribeCurrentAlias(p)
  BY <1>9, DescribeCurrentAliasMove, ReadKeeps DEF DescribeCurrentAlias
<1>10. CASE ListAliases(p)
  BY <1>10, ListAliasesMove, ReadKeeps DEF ListAliases
<1>11. CASE DescribeAliases(p)
  BY <1>11, DescribeAliasesMove, ReadKeeps DEF DescribeAliases
<1>12. CASE ListVersions(p)
  BY <1>12, ListVersionsMove, ReadKeeps DEF ListVersions
<1>13. CASE DeleteVersion(p)
  BY <1>13, DeleteVersionStep
<1>14. CASE DeleteAgain(p)
  BY <1>14, DeleteAgainMove, ReadKeeps DEF DeleteAgain
<1>15. CASE SkipReferenced(p)
  BY <1>15, SkipReferencedStep
<1>16. CASE DeleteFails(p)
  BY <1>16, DeleteFailsStep
<1>17. CASE WaitPanics(p) \/ CallFails(p)
  BY <1>17, EndingStep
<1>. QED
  BY <1>1, <1>2, <1>3, <1>4, <1>5, <1>6, <1>7, <1>8, <1>9, <1>10, <1>11,
     <1>12, <1>13, <1>14, <1>15, <1>16, <1>17 DEF Work

(* A step of the environment that leaves every process alone. *)
LEMMA WorldKeeps ==
  ASSUME IInv, UNCHANGED <<pc, opt, mem>>, Grows, CloudOK', NewestOrServed'
  PROVE  IInv'
<1>1. ProcsOK'
  BY DEF IInv, TypeOK, ProcsOK
<1>2. ASSUME NEW q \in Procs
      PROVE  Phase(pc[q], opt[q], mem[q])' /\ Known(opt[q], mem[q])'
  <2>1. pc'[q] = pc[q] /\ opt'[q] = opt[q] /\ mem'[q] = mem[q]
    OBVIOUS
  <2>2. Phase(pc[q], opt[q], mem[q])'
    BY <2>1, MyFacts DEF Phase
  <2>3. Known(opt[q], mem[q])'
    BY <2>1, MyFacts, KnownGrows DEF Known
  <2>. QED  BY <2>2, <2>3
<1>. QED  BY <1>1, <1>2 DEF IInv, TypeOK

LEMMA ShiftTrafficStep ==
  ASSUME IInv, NEW a \in Aliases, ShiftTraffic(a)
  PROVE  IInv'
<1>1. PICK v \in versions, w \in versions :
        routing' = [routing EXCEPT ![a] = {v, w}]
  BY DEF ShiftTraffic
<1>2. /\ UNCHANGED <<pc, opt, mem>>
      /\ published' = published /\ versions' = versions /\ status' = status
  BY DEF ShiftTraffic
<1>3. routing'[a] # {} /\ \A b \in Aliases \ {a} : routing'[b] = routing[b]
  BY <1>1 DEF IInv, TypeOK, CloudOK
<1>4. CloudOK'
  BY <1>1, <1>2 DEF IInv, TypeOK, CloudOK
<1>5. NewestOrServed'
  BY <1>3 DEF NewestOrServed, Served
<1>6. Grows
  BY <1>2, <1>3, VersionTypes DEF Grows
<1>. QED  BY <1>2, <1>4, <1>5, <1>6, WorldKeeps

LEMMA DeletionStartsStep ==
  ASSUME IInv, DeletionStarts
  PROVE  IInv'
<1>1. /\ UNCHANGED <<pc, opt, mem, published, versions, routing>>
      /\ status = "ACTIVE" /\ status' = "DELETING"
  BY DEF DeletionStarts
<1>2. CloudOK' /\ NewestOrServed'
  BY <1>1 DEF IInv, TypeOK, CloudOK, NewestOrServed, Served
<1>3. Grows
  BY <1>1, VersionTypes DEF Grows
<1>. QED  BY <1>1, <1>2, <1>3, WorldKeeps

LEMMA StutterStep ==
  ASSUME IInv, UNCHANGED vars
  PROVE  IInv'
<1>1. UNCHANGED <<pc, opt, mem, published, versions, routing, status>>
  BY DEF vars
<1>2. CloudOK' /\ NewestOrServed'
  BY <1>1 DEF IInv, TypeOK, CloudOK, NewestOrServed, Served
<1>3. Grows
  BY <1>1, VersionTypes DEF Grows
<1>. QED  BY <1>1, <1>2, <1>3, WorldKeeps

(* The invariant holds at the start. *)
LEMMA InitInv == Init => IInv
<1> SUFFICES ASSUME Init PROVE IInv
  OBVIOUS
<1>1. CloudOK /\ NewestOrServed
  BY DEF Init, CloudOK, NewestOrServed
<1>2. ProcsOK
  BY FreshType, AnyOptionType DEF Init, ProcsOK, Ended
<1>3. ASSUME NEW p \in Procs
      PROVE  Phase(pc[p], opt[p], mem[p]) /\ Known(opt[p], mem[p])
  BY DEF Init, Phase, Known, Fresh, Calls
<1>. QED  BY <1>1, <1>2, <1>3 DEF IInv, TypeOK

(* Every step of the system keeps it. *)
LEMMA NextInv == IInv /\ [Next]_vars => IInv'
<1> SUFFICES ASSUME IInv, [Next]_vars PROVE IInv'
  OBVIOUS
<1>1. CASE \E p \in Procs, o \in Options : Start(p, o)
  BY <1>1, StartStep
<1>2. CASE \E p \in Procs : Work(p)
  BY <1>2, WorkStep
<1>3. CASE \E p \in Procs : Crash(p)
  BY <1>3, EndingStep
<1>4. CASE \E a \in Aliases : ShiftTraffic(a)
  BY <1>4, ShiftTrafficStep
<1>5. CASE DeletionStarts
  BY <1>5, DeletionStartsStep
<1>6. CASE UNCHANGED vars
  BY <1>6, StutterStep
<1>. QED  BY <1>1, <1>2, <1>3, <1>4, <1>5, <1>6 DEF Next

-----------------------------------------------------------------------------
(* What one command does, for the modules that run it with others *)

(* A step of p moves p alone, and only an end changes its options. *)
LEMMA WorkFrame ==
  ASSUME ProcsOK, NEW p \in Procs, Work(p) \/ Crash(p)
  PROVE  /\ \A q \in Procs \ {p} :
              pc'[q] = pc[q] /\ opt'[q] = opt[q] /\ mem'[q] = mem[q]
         /\ pc'[p] \notin Ended => opt'[p] = opt[p]
<1>1. ASSUME NEW l, NEW m, Goto(p, l, m)
      PROVE  /\ \A q \in Procs \ {p} :
                  pc'[q] = pc[q] /\ opt'[q] = opt[q] /\ mem'[q] = mem[q]
             /\ pc'[p] \notin Ended => opt'[p] = opt[p]
  BY <1>1 DEF Goto, ProcsOK
<1>2. \E l, m : Goto(p, l, m)
  <2>1. CASE CreateAlias(p) \/ UpdateAlias(p)
    BY <2>1 DEF CreateAlias, UpdateAlias, PointAlias, AfterRollback, AfterDeploy
  <2>2. CASE ListVersions(p)
    <3>1. PICK L : IF opt[p].op = "rollback" THEN ChooseTarget(p, L) ELSE ChoosePurge(p, L)
      BY <2>2 DEF ListVersions
    <3>. QED  BY <3>1 DEF ChooseTarget, ChoosePurge
  <2>3. CASE DescribeStateMachine(p) \/ CreateStateMachine(p) \/ UpdateStateMachine(p)
             \/ TagResource(p) \/ WaitActive(p) \/ WaitAgain(p) \/ WaitPanics(p)
    BY <2>3 DEF DescribeStateMachine, CreateStateMachine, UpdateStateMachine,
         TagResource, WaitActive, WaitAgain, WaitPanics
  <2>4. CASE DescribeAlias(p) \/ DescribeCurrentAlias(p) \/ ListAliases(p)
             \/ DescribeAliases(p)
    BY <2>4 DEF DescribeAlias, DescribeCurrentAlias, ListAliases, DescribeAliases
  <2>5. CASE DeleteVersion(p) \/ DeleteAgain(p) \/ SkipReferenced(p) \/ DeleteFails(p)
             \/ CallFails(p) \/ Crash(p)
    BY <2>5 DEF DeleteVersion, DeleteAgain, SkipReferenced, DeleteFails,
         CallFails, Crash, NextVictim
  <2>. QED  BY <2>1, <2>2, <2>3, <2>4, <2>5 DEF Work
<1>. QED  BY <1>1, <1>2

(* The calls of p that change nothing in the cloud. *)
LEMMA OtherCallsRead ==
  ASSUME NEW p, Work(p) \/ Crash(p),
         ~ (CreateStateMachine(p) \/ UpdateStateMachine(p)
            \/ CreateAlias(p) \/ UpdateAlias(p) \/ DeleteVersion(p))
  PROVE  UNCHANGED cloud
BY DEF Work, DescribeStateMachine, TagResource, WaitActive, WaitAgain, WaitPanics,
       DescribeAlias, DescribeCurrentAlias, ListAliases, DescribeAliases,
       ListVersions, DeleteAgain, SkipReferenced, DeleteFails, CallFails, Crash

(* A command creates the state machine, or points its alias while there is *)
(* one, or leaves both alone.                                              *)
LEMMA CloudMoves ==
  ASSUME NEW p, Work(p) \/ Crash(p)
  PROVE  \/ status = "ABSENT" /\ status' = "ACTIVE" /\ routing' = routing
         \/ /\ status = "ACTIVE" /\ status' = "ACTIVE"
            /\ routing' = [routing EXCEPT ![MyAlias(p)] = {mem[p].target}]
         \/ UNCHANGED <<status, routing>>
<1>1. CASE CreateStateMachine(p)
  BY <1>1 DEF CreateStateMachine
<1>2. CASE UpdateStateMachine(p)
  BY <1>2 DEF UpdateStateMachine
<1>3. CASE CreateAlias(p) \/ UpdateAlias(p)
  BY <1>3 DEF CreateAlias, UpdateAlias, PointAlias
<1>4. CASE DeleteVersion(p)
  BY <1>4 DEF DeleteVersion
<1>. QED  BY <1>1, <1>2, <1>3, <1>4, OtherCallsRead DEF cloud

(* A dry run changes nothing (deploy.go:100-134; sfn_service.go:553-555).  *)
LEMMA DryRunReads ==
  ASSUME IInv, NEW p \in Procs, Work(p) \/ Crash(p), opt[p].dryRun, opt[p].op # "versions"
  PROVE  UNCHANGED cloud
<1>1. pc[p] \notin {"CreateStateMachine", "UpdateStateMachine", "CreateAlias",
                    "UpdateAlias", "DeleteVersion"}
  BY MyFacts DEF Phase, Calls, Looking
<1>. QED
  BY <1>1, OtherCallsRead DEF CreateStateMachine, UpdateStateMachine, CreateAlias,
     UpdateAlias, DeleteVersion

(* A deployment that purges, or ends well, has released its alias. *)
LEMMA DeployPoints ==
  ASSUME IInv, NEW p \in Procs, Work(p), opt[p].op = "deploy", ~opt[p].dryRun,
         pc[p] \in Purging => routing[MyAlias(p)] # {},
         pc'[p] \in Purging \cup {"ok"}
  PROVE  routing'[MyAlias(p)] # {}
<1>0. /\ ProcsOK /\ routing \in [Aliases -> SUBSET versions] /\ MyAlias(p) \in Aliases
      /\ pc \in [Procs -> Ended \cup Calls]
  BY MyFacts DEF IInv, TypeOK, ProcsOK, CloudOK
<1>1. ASSUME NEW l, NEW m, Goto(p, l, m) PROVE pc'[p] = l
  BY <1>0, <1>1 DEF Goto
<1>2. CASE CreateAlias(p) \/ UpdateAlias(p)
  BY <1>0, <1>2 DEF CreateAlias, UpdateAlias, PointAlias
<1>3. CASE pc[p] \in Purging /\ ~ (CreateAlias(p) \/ UpdateAlias(p))
  <2>1. routing' = routing
    BY <1>3, OtherCallsRead DEF CreateStateMachine, UpdateStateMachine, DeleteVersion, cloud
  <2>. QED  BY <1>3, <2>1
<1>4. CASE DescribeStateMachine(p)
  BY <1>1, <1>4 DEF DescribeStateMachine, FirstCall, FirstOfDeploy, Purging
<1>5. CASE CreateStateMachine(p) \/ UpdateStateMachine(p) \/ TagResource(p)
           \/ WaitActive(p) \/ WaitAgain(p) \/ WaitPanics(p) \/ DescribeAlias(p)
           \/ CallFails(p)
  <2>1. \E l, m : Goto(p, l, m) /\ l \notin Purging \cup {"ok"}
    <3>1. CASE CreateStateMachine(p)
      BY <3>1 DEF CreateStateMachine, Purging
    <3>6. CASE UpdateStateMachine(p)
      <4>1. PICK v : Goto(p, "TagResource", [mem[p] EXCEPT !.target = v])
        BY <3>6 DEF UpdateStateMachine
      <4>. QED  BY <4>1 DEF Purging
    <3>7. CASE TagResource(p)
      BY <3>7 DEF TagResource, Purging
    <3>2. CASE WaitActive(p)
      BY <3>2 DEF WaitActive, Purging
    <3>3. CASE WaitAgain(p)
      BY <3>3 DEF WaitAgain, Purging
    <3>4. CASE WaitPanics(p) \/ CallFails(p)
      BY <3>4 DEF WaitPanics, CallFails, Purging
    <3>5. CASE DescribeAlias(p)
      BY <3>5 DEF DescribeAlias, Purging
    <3>. QED  BY <1>5, <3>1, <3>2, <3>3, <3>4, <3>5, <3>6, <3>7
  <2>. QED  BY <1>1, <2>1
<1>6. ~DescribeCurrentAlias(p)
  BY MyFacts DEF DescribeCurrentAlias, Phase
<1>7. ASSUME ListAliases(p) \/ DescribeAliases(p) \/ ListVersions(p) \/ DeleteVersion(p)
             \/ DeleteAgain(p) \/ SkipReferenced(p) \/ DeleteFails(p)
      PROVE  pc[p] \in Purging
  BY <1>7 DEF ListAliases, DescribeAliases, ListVersions, DeleteVersion,
       DeleteAgain, SkipReferenced, DeleteFails, Purging
<1>. QED  BY <1>2, <1>3, <1>4, <1>5, <1>6, <1>7 DEF Work

-----------------------------------------------------------------------------
(* Theorems *)

(* The inductive invariant holds in every reachable state, for every       *)
(* number of commands, aliases and versions and every choice of faults.    *)
THEOREM Invariance == Spec => []IInv
<1>. QED  BY InitInv, NextInv, PTL DEF Spec

(* Every variable keeps its type; retries stay within retryPolicy.         *)
THEOREM TypeCorrect == Spec => []TypeOK
<1>1. IInv => TypeOK
  BY DEF IInv
<1>. QED  BY <1>1, Invariance, PTL

(* Whatever deploys, rollbacks and purges run at the same time, they never *)
(* delete the last version of the state machine.                           *)
THEOREM Safety == Spec => []SomeVersionLeft
<1>1. IInv => SomeVersionLeft
  BY DEF IInv, SomeVersionLeft, NewestOrServed, Served, TypeOK, CloudOK
<1>. QED  BY <1>1, Invariance, PTL

(* Of a process's steps only a deletion takes a version away. *)
LEMMA OnlyDeletionRemoves ==
  ASSUME IInv, [Next]_vars, NEW v \in versions, v \notin versions'
  PROVE  \E p \in Procs : DeleteVersion(p) /\ v = Victim(p)
<1>1. CASE \E p \in Procs, o \in Options : Start(p, o)
  BY <1>1 DEF Start, cloud
<1>2. ASSUME NEW p \in Procs, Work(p), ~DeleteVersion(p)
      PROVE  v \in versions'
  <2>1. CASE CreateStateMachine(p)
    BY <2>1, VersionTypes DEF CreateStateMachine, IInv, TypeOK, CloudOK
  <2>2. CASE UpdateStateMachine(p)
    BY <2>2 DEF UpdateStateMachine
  <2>3. CASE CreateAlias(p) \/ UpdateAlias(p)
    BY <2>3 DEF CreateAlias, UpdateAlias, PointAlias
  <2>4. CASE ~ (CreateStateMachine(p) \/ UpdateStateMachine(p)
                \/ CreateAlias(p) \/ UpdateAlias(p))
    <3>1. UNCHANGED cloud
      BY <1>2, <2>4 DEF Work, DescribeStateMachine, TagResource, WaitActive,
         WaitAgain, WaitPanics, DescribeAlias, DescribeCurrentAlias,
         ListAliases, DescribeAliases, ListVersions, DeleteAgain,
         SkipReferenced, DeleteFails, CallFails
    <3>. QED  BY <3>1 DEF cloud
  <2>. QED  BY <2>1, <2>2, <2>3, <2>4
<1>3. ASSUME NEW p \in Procs, DeleteVersion(p)
      PROVE  v = Victim(p)
  BY <1>3 DEF DeleteVersion
<1>4. CASE \E p \in Procs : Work(p)
  BY <1>2, <1>3, <1>4
<1>5. CASE \E p \in Procs : Crash(p)
  BY <1>5 DEF Crash, cloud
<1>6. CASE \E a \in Aliases : ShiftTraffic(a)
  BY <1>6 DEF ShiftTraffic
<1>7. CASE DeletionStarts \/ UNCHANGED vars
  BY <1>7 DEF DeletionStarts, vars
<1>. QED  BY <1>1, <1>4, <1>5, <1>6, <1>7 DEF Next

(* A deletion changes the memory of the process that makes it. *)
LEMMA DeletionMovesOn ==
  ASSUME IInv, NEW p \in Procs, DeleteVersion(p)
  PROVE  mem'[p] # mem[p]
<1> DEFINE left == mem[p].todo \ {Victim(p)}
           l == CASE left # {} -> "DeleteVersion"
                  [] left = {} /\ mem[p].failed -> "error"
                  [] OTHER -> "ok"
           m == [mem[p] EXCEPT !.todo = left, !.failed = mem[p].failed,
                               !.attempts = 0]
<1>1. mem' = [mem EXCEPT ![p] = IF l \in Ended THEN Fresh ELSE m]
  BY DEF DeleteVersion, NextVictim, Goto
<1>2. mem'[p] = IF l \in Ended THEN Fresh ELSE m
  BY <1>1 DEF IInv, TypeOK, ProcsOK
<1>3. Victim(p) \in mem[p].todo
  BY DeletionGuard
<1>4. m.todo = left
  BY MyFacts DEF Memory
<1>5. Fresh.todo = {}
  BY DEF Fresh
<1> HIDE DEF l, m
<1>. QED  BY <1>2, <1>3, <1>4, <1>5

(* Only a rollback deletes the newest release, whatever runs beside it. *)
THEOREM NewestGuarded == Spec => NewestOnlyByRollback
<1>1. ASSUME IInv, [Next]_vars, published \in versions \ versions'
      PROVE  \E p \in Procs : /\ pc[p] = "DeleteVersion" /\ opt[p].op = "rollback"
                              /\ Victim(p) = published
                              /\ mem'[p] # mem[p]
  <2>1. PICK p \in Procs : DeleteVersion(p) /\ published = Victim(p)
    BY <1>1, OnlyDeletionRemoves
  <2>2. pc[p] = "DeleteVersion"
    BY <2>1 DEF DeleteVersion
  <2>3. opt[p].op = "rollback"
    BY <1>1, <2>1, DeletionGuard, VersionTypes
  <2>4. mem'[p] # mem[p]
    BY <1>1, <2>1, DeletionMovesOn
  <2>. QED  BY <2>1, <2>2, <2>3, <2>4
<1>2. IInv /\ [Next]_vars =>
        [(published \in versions \ versions') =>
           \E p \in Procs : /\ pc[p] = "DeleteVersion" /\ opt[p].op = "rollback"
                            /\ Victim(p) = published
                            /\ mem'[p] # mem[p]]_vars
  BY <1>1
<1>. QED  BY <1>2, Invariance, PTL DEF Spec, NewestOnlyByRollback

-----------------------------------------------------------------------------
(* Refinement *)

LEMMA ServedIsServed == Served <=> Store!Served
BY DEF Served, Store!Served

(* Every step publishes, routes or retires one release, or none of these. *)
LEMMA StoreStep ==
  ASSUME IInv, [Next]_vars
  PROVE  [Store!StoreNext]_(Store!store)
<1>1. CASE UNCHANGED <<published, versions, routing>>
  BY <1>1 DEF Store!store
<1>2. ASSUME NEW p \in Procs, Work(p)
      PROVE  [Store!StoreNext]_(Store!store)
  <2>1. CASE CreateStateMachine(p)
    <3>1. published = 0 /\ versions = {}
      BY <2>1, VersionTypes DEF CreateStateMachine, IInv, TypeOK, CloudOK
    <3>2. Store!Publish
      BY <2>1, <3>1 DEF CreateStateMachine, Store!Publish
    <3>. QED  BY <3>2 DEF Store!StoreNext
  <2>2. CASE UpdateStateMachine(p)
    <3>1. PICK v \in (versions \cap {published}) \cup (Version \cap {published + 1}) :
            published' = v /\ versions' = versions \cup {v}
      BY <2>2 DEF UpdateStateMachine
    <3>2. routing' = routing
      BY <2>2 DEF UpdateStateMachine
    <3>3. CASE v \in versions /\ v = published
      <4>1. UNCHANGED <<published, versions, routing>>
        BY <3>1, <3>2, <3>3
      <4>. QED  BY <4>1, <1>1
    <3>4. CASE v = published + 1
      BY <3>1, <3>2, <3>4 DEF Store!Publish, Store!StoreNext
    <3>. QED  BY <3>1, <3>3, <3>4
  <2>3. CASE CreateAlias(p) \/ UpdateAlias(p)
    <3>1. /\ routing' = [routing EXCEPT ![MyAlias(p)] = {mem[p].target}]
          /\ mem[p].target \in versions
          /\ published' = published /\ versions' = versions
      BY <2>3 DEF CreateAlias, UpdateAlias, PointAlias
    <3>2. {mem[p].target} \in SUBSET versions /\ {mem[p].target} # {}
      BY <3>1
    <3>3. MyAlias(p) \in Aliases
      BY MyFacts
    <3>4. Store!Route(MyAlias(p))
      BY <3>1, <3>2 DEF Store!Route
    <3>. QED  BY <3>3, <3>4 DEF Store!StoreNext
  <2>4. CASE DeleteVersion(p)
    <3> DEFINE v == Victim(p)
    <3>1. versions' = versions \ {v} /\ published' = published /\ routing' = routing
      BY <2>4 DEF DeleteVersion
    <3>2. (\A a \in Aliases : v \notin routing[a]) /\ (v = published => Store!Served)
      BY <2>4, DeletionGuard, ServedIsServed
    <3> HIDE DEF v
    <3>3. CASE v \in versions
      BY <3>1, <3>2, <3>3 DEF Store!Retire, Store!StoreNext
    <3>4. CASE v \notin versions
      BY <3>1, <3>4 DEF Store!store
    <3>. QED  BY <3>3, <3>4
  <2>5. CASE ~ (CreateStateMachine(p) \/ UpdateStateMachine(p)
                \/ CreateAlias(p) \/ UpdateAlias(p) \/ DeleteVersion(p))
    <3>1. UNCHANGED cloud
      BY <1>2, <2>5 DEF Work, DescribeStateMachine, TagResource, WaitActive,
         WaitAgain, WaitPanics, DescribeAlias, DescribeCurrentAlias,
         ListAliases, DescribeAliases, ListVersions, DeleteAgain,
         SkipReferenced, DeleteFails, CallFails
    <3>. QED  BY <3>1, <1>1 DEF cloud
  <2>. QED  BY <2>1, <2>2, <2>3, <2>4, <2>5
<1>3. CASE \E p \in Procs, o \in Options : Start(p, o)
  <2>1. UNCHANGED <<published, versions, routing>>
    BY <1>3 DEF Start, cloud
  <2>. QED  BY <2>1, <1>1
<1>4. CASE \E p \in Procs : Crash(p)
  <2>1. UNCHANGED <<published, versions, routing>>
    BY <1>4 DEF Crash, cloud
  <2>. QED  BY <2>1, <1>1
<1>5. ASSUME NEW a \in Aliases, ShiftTraffic(a)
      PROVE  [Store!StoreNext]_(Store!store)
  <2>1. PICK v \in versions, w \in versions :
          routing' = [routing EXCEPT ![a] = {v, w}]
    BY <1>5 DEF ShiftTraffic
  <2>2. Store!Route(a)
    BY <1>5, <2>1 DEF ShiftTraffic, Store!Route
  <2>. QED  BY <2>2 DEF Store!StoreNext
<1>6. CASE DeletionStarts \/ UNCHANGED vars
  <2>1. UNCHANGED <<published, versions, routing>>
    BY <1>6 DEF DeletionStarts, vars
  <2>. QED  BY <2>1, <1>1
<1>. QED  BY <1>2, <1>3, <1>4, <1>5, <1>6 DEF Next

(* All commands together implement the abstract release store: releases    *)
(* are numbered in order, aliases are not lost, and a release is retired   *)
(* only while nothing routes to it.                                        *)
THEOREM Refinement == Spec => ImplementsStore
<1>1. Init => Store!StoreInit
  BY DEF Init, Store!StoreInit
<1>2. IInv /\ [Next]_vars => [Store!StoreNext]_(Store!store)
  BY StoreStep
<1>. QED  BY <1>1, <1>2, Invariance, PTL DEF Spec, ImplementsStore, Store!StoreSpec


-----------------------------------------------------------------------------
(* What a purge spares *)

LEMMA PositionGrows ==
  ASSUME NEW S, NEW T, NEW u, NEW v, IsFiniteSet(T),
         {w \in S : w > v} \subseteq {w \in T : w > u}
  PROVE  /\ Position(v, S) <= Position(u, T)
         /\ Position(v, S) \in Nat /\ Position(u, T) \in Nat
<1>1. {w \in T : w > u} \in SUBSET T
  OBVIOUS
<1>2. IsFiniteSet({w \in T : w > u})
  BY <1>1, FS_Subset
<1>3. {w \in S : w > v} \in SUBSET {w \in T : w > u}
  OBVIOUS
<1>4. IsFiniteSet({w \in S : w > v})
  BY <1>2, <1>3, FS_Subset
<1>5. Cardinality({w \in S : w > v}) <= Cardinality({w \in T : w > u})
  BY <1>2, <1>3, FS_Subset
<1>. QED  BY <1>2, <1>4, <1>5, FS_CardinalityType DEF Position

LEMMA VersionsFinite == ASSUME IInv PROVE IsFiniteSet(versions)
<1>1. published \in Int /\ versions \in SUBSET (1..published)
  BY VersionTypes
<1>2. IsFiniteSet(1..published)
  BY <1>1, FS_Interval
<1>. QED  BY <1>1, <1>2, FS_Subset

(* The newest of some versions is one of them and not older than any. *)
LEMMA NewestOf ==
  ASSUME NEW S \in SUBSET Version, S # {}
  PROVE  Max(S) \in S /\ Max(S) \in Version /\ \A x \in S : x <= Max(S)
<1>1. S \subseteq 0..MaxVersion
  BY DEF Version
<1>. QED  BY <1>1, MaxOfSet

(* A step that comes to a deletion, of a command that is no rollback, has  *)
(* just chosen what to delete or goes on with that.                        *)
LEMMA ComesToDelete ==
  ASSUME IInv, NEW p \in Procs, Work(p) \/ Crash(p), opt[p].op # "rollback",
         pc'[p] = "DeleteVersion"
  PROVE  ListVersions(p) \/ DeleteVersion(p) \/ DeleteAgain(p) \/ SkipReferenced(p)
           \/ DeleteFails(p)
<1>1. ASSUME NEW l, NEW m, Goto(p, l, m) PROVE l = "DeleteVersion"
  BY <1>1 DEF Goto, IInv, TypeOK, ProcsOK
<1>2. ~DescribeStateMachine(p)
  <2>1. FirstCall(opt[p]) # "DeleteVersion"
    <3>1. CASE opt[p].op = "deploy"
      BY <3>1, OptionTypes DEF FirstCall, FirstOfDeploy, IInv, TypeOK
    <3>2. CASE opt[p].op = "versions"
      BY <3>2 DEF FirstCall, FirstOfVersions
    <3>. QED  BY <3>1, <3>2, MyFacts
  <2>. QED  BY <1>1, <2>1 DEF DescribeStateMachine
<1>3. ~CreateStateMachine(p) /\ ~TagResource(p) /\ ~WaitActive(p) /\ ~WaitAgain(p)
      /\ ~WaitPanics(p) /\ ~DescribeAlias(p)
  BY <1>1 DEF CreateStateMachine, TagResource, WaitActive, WaitAgain, WaitPanics,
     DescribeAlias
<1>4. ~UpdateStateMachine(p)
  <2>1. ASSUME NEW v PROVE ~Goto(p, "TagResource", [mem[p] EXCEPT !.target = v])
    BY <1>1
  <2>. QED  BY <2>1 DEF UpdateStateMachine
<1>5. ~CreateAlias(p) /\ ~UpdateAlias(p)
  BY <1>1 DEF CreateAlias, UpdateAlias, PointAlias, AfterDeploy
<1>6. ~DescribeCurrentAlias(p) /\ ~ListAliases(p) /\ ~DescribeAliases(p)
  BY <1>1 DEF DescribeCurrentAlias, ListAliases, DescribeAliases
<1>7. ~CallFails(p) /\ ~Crash(p)
  BY <1>1 DEF CallFails, Crash
<1>. QED  BY <1>2, <1>3, <1>4, <1>5, <1>6, <1>7 DEF Work

(* What p is to delete when it has come to that. *)
LEMMA GoesToDelete ==
  ASSUME IInv, NEW p \in Procs, NEW l, NEW m \in Memory, Goto(p, l, m),
         pc'[p] = "DeleteVersion"
  PROVE  l = "DeleteVersion" /\ mem'[p].todo = m.todo /\ opt'[p] = opt[p]
<1>1. l = "DeleteVersion"
  BY DEF Goto, IInv, TypeOK, ProcsOK
<1>2. l \notin Ended
  BY <1>1 DEF Ended
<1>. QED  BY <1>1, <1>2 DEF Goto, IInv, TypeOK, ProcsOK

(* The newest of the versions p sets out to delete has the newer ones that *)
(* p is to keep before it.                                                 *)
LEMMA PurgeSpares ==
  ASSUME IInv, NEW p \in Procs, NEW L \in SUBSET versions, ChoosePurge(p, L),
         pc'[p] = "DeleteVersion", versions' = versions
  PROVE  Position(Max(mem'[p].todo), versions') >= opt[p].keep
<1> DEFINE old == Purgeable(L, opt[p].keep, mem[p].seen)
<1>1. PICK m : m = [mem[p] EXCEPT !.todo = old]
  OBVIOUS
<1>2. Goto(p, IF old = {} THEN "ok" ELSE "DeleteVersion", m)
  BY <1>1 DEF ChoosePurge
<1>3. old \in SUBSET Version
  BY PurgeableOld, OptionTypes DEF IInv, TypeOK
<1>4. \A v \in old : Position(v, L) >= opt[p].keep
  BY DEF Purgeable
<1> HIDE DEF old
<1>5. m \in Memory /\ m.todo = old
  BY <1>1, <1>3, MyFacts DEF Memory
<1>6. old # {} /\ mem'[p].todo = old
  BY <1>2, <1>5, GoesToDelete
<1>7. PICK v \in old : v = Max(old)
  BY <1>3, <1>6, NewestOf
<1>8. /\ Position(v, L) <= Position(v, versions)
      /\ Position(v, L) \in Nat /\ Position(v, versions) \in Nat
  <2>1. {w \in L : w > v} \subseteq {w \in versions : w > v}
    OBVIOUS
  <2>. QED  BY <2>1, VersionsFinite, PositionGrows
<1>9. Position(v, L) >= opt[p].keep /\ opt[p].keep \in Nat
  BY <1>4, OptionTypes DEF IInv, TypeOK
<1>10. Position(v, versions) >= opt[p].keep
  BY <1>8, <1>9
<1>. QED  BY <1>6, <1>7, <1>10

(* After a deletion, done or not, the versions it was to spare are there.  *)
LEMMA DeletionSpares ==
  ASSUME IInv, NEW p \in Procs, pc[p] = "DeleteVersion",
         Position(Victim(p), versions) >= opt[p].keep,
         versions' = versions \/ versions' = versions \ {Victim(p)},
         NEW left \in SUBSET mem[p].todo, left # {}, left = mem[p].todo \/ Victim(p) \notin left,
         left = mem[p].todo => versions' = versions
  PROVE  Position(Max(left), versions') >= opt[p].keep
<1>0. mem[p].todo \in SUBSET Version
  BY MyFacts DEF Memory
<1>1. left \in SUBSET Version /\ mem[p].todo # {}
  BY <1>0
<1>2. PICK v \in left : v = Max(left)
  BY <1>1, NewestOf
<1>3. PICK t \in Version : t = Victim(p) /\ \A x \in left : x <= t
  BY <1>0, <1>1, NewestOf DEF Victim
<1>4. CASE left = mem[p].todo
  <2>1. Max(left) = Victim(p) /\ versions' = versions
    BY <1>4 DEF Victim
  <2>2. Position(Max(left), versions') = Position(Victim(p), versions)
    BY <2>1
  <2>. QED  BY <2>2
<1>5. CASE Victim(p) \notin left
  <2>1. v < t /\ v \in Int /\ t \in Int
    BY <1>1, <1>2, <1>3, <1>5 DEF Version
  <2>2. {w \in versions : w > t} \subseteq {w \in versions' : w > v}
    <3>1. versions \subseteq Int
      BY VersionTypes
    <3>2. ASSUME NEW w \in versions, w > t PROVE w \in versions' /\ w > v
      <4>1. w \in Int /\ w # Victim(p)
        BY <1>3, <2>1, <3>1, <3>2
      <4>. QED  BY <2>1, <3>2, <4>1
    <3>. QED  BY <3>2
  <2>3. IsFiniteSet(versions')
    <3>1. versions' \in SUBSET versions
      OBVIOUS
    <3>. QED  BY <3>1, VersionsFinite, FS_Subset
  <2>4. /\ Position(t, versions) <= Position(v, versions')
        /\ Position(t, versions) \in Nat /\ Position(v, versions') \in Nat
    BY <2>2, <2>3, PositionGrows
  <2>5. opt[p].keep \in Nat
    BY OptionTypes DEF IInv, TypeOK
  <2>. QED  BY <1>2, <1>3, <2>4, <2>5
<1>. QED  BY <1>4, <1>5

(* Alone, a purge goes on sparing the versions it is told to keep. *)
LEMMA WorkSpares ==
  ASSUME IInv, NEW p \in Procs, Work(p) \/ Crash(p), Spares(pc[p], opt[p], mem[p])
  PROVE  Spares(pc[p], opt[p], mem[p])'
<1> SUFFICES ASSUME pc'[p] = "DeleteVersion", opt'[p].op # "rollback"
             PROVE  Position(Max(mem'[p].todo), versions') >= opt'[p].keep
  BY DEF Spares
<1>1. opt'[p] = opt[p]
  BY WorkFrame DEF Ended, IInv, TypeOK
<1>2. opt[p].op # "rollback"
  BY <1>1
<1>3. pc[p] = "DeleteVersion" =>
        /\ Position(Victim(p), versions) >= opt[p].keep
        /\ mem[p].todo # {} /\ mem[p].todo \in SUBSET Version
  BY <1>2, MyFacts DEF Spares, Victim, Phase, Memory
<1>4. CASE ListVersions(p)
  <2>1. PICK L \in SUBSET versions : ChoosePurge(p, L)
    BY <1>2, <1>4 DEF ListVersions, Listings
  <2>2. versions' = versions
    BY <1>4 DEF ListVersions, cloud
  <2>. QED  BY <1>1, <2>1, <2>2, PurgeSpares
<1>5. ASSUME pc[p] = "DeleteVersion", NEW bad \in BOOLEAN, NextVictim(p, bad),
             versions' = versions \/ versions' = versions \ {Victim(p)}
      PROVE  Position(Max(mem'[p].todo), versions') >= opt'[p].keep
  <2>1. PICK left : left = mem[p].todo \ {Victim(p)}
    OBVIOUS
  <2>2. PICK m : m = [mem[p] EXCEPT !.todo = left, !.failed = bad, !.attempts = 0]
    OBVIOUS
  <2>3. Goto(p, CASE left # {} -> "DeleteVersion"
                  [] left = {} /\ bad -> "error"
                  [] OTHER -> "ok", m)
    BY <1>5, <2>1, <2>2 DEF NextVictim
  <2>4. m \in Memory /\ m.todo = left
    <3>1. left \in SUBSET Version /\ 0 \in 0..(MaxRetry - 1)
      BY <1>3, <1>5, <2>1
    <3>. QED  BY <1>5, <2>2, <3>1, MyFacts DEF Memory
  <2>5. left # {} /\ mem'[p].todo = left
    BY <2>3, <2>4, GoesToDelete
  <2>6. Victim(p) \in mem[p].todo
    BY <1>3, <1>5, VictimTodo DEF IInv, TypeOK
  <2>7. Position(Max(left), versions') >= opt[p].keep
    BY <1>3, <1>5, <2>1, <2>5, <2>6, DeletionSpares
  <2>. QED  BY <1>1, <2>5, <2>7
<1>6. CASE DeleteVersion(p) \/ SkipReferenced(p) \/ DeleteFails(p)
  <2>1. mem[p].failed \in BOOLEAN
    BY MyFacts DEF Memory
  <2>. QED  BY <1>5, <1>6, <2>1 DEF DeleteVersion, SkipReferenced, DeleteFails, cloud
<1>7. CASE DeleteAgain(p) /\ LastTry(p)
  BY <1>5, <1>7 DEF DeleteAgain, cloud
<1>8. CASE DeleteAgain(p) /\ ~LastTry(p)
  <2>1. PICK m : m = [mem[p] EXCEPT !.attempts = @ + 1]
    OBVIOUS
  <2>2. Goto(p, "DeleteVersion", m) /\ versions' = versions /\ pc[p] = "DeleteVersion"
    BY <1>8, <2>1 DEF DeleteAgain, cloud
  <2>3. m \in Memory /\ m.todo = mem[p].todo
    BY <1>8, <2>1, OneMoreTry, MyFacts DEF Memory
  <2>4. mem'[p].todo = mem[p].todo
    BY <2>2, <2>3, GoesToDelete
  <2>. QED  BY <1>1, <1>3, <2>2, <2>4 DEF Victim
<1>. QED  BY <1>2, <1>4, <1>6, <1>7, <1>8, ComesToDelete


-----------------------------------------------------------------------------
(* What a command knows while nobody works beside it *)

(* A move of p, running with options o, that knows what it does. *)
InformedMove(p, o) == \E l, m : Goto(p, l, m) /\ (l \in Ended \/ Informed(l, o, m)')

LEMMA InformedMoves ==
  ASSUME ProcsOK, NEW p \in Procs, NEW o, o = opt[p], InformedMove(p, o)
  PROVE  Informed(pc[p], opt[p], mem[p])'
<1>1. PICK l, m : Goto(p, l, m) /\ (l \in Ended \/ Informed(l, o, m)')
  BY DEF InformedMove
<1>2. ASSUME l \in Ended PROVE Informed(pc[p], opt[p], mem[p])'
  <2>1. pc'[p] = l /\ mem'[p] = Fresh
    BY <1>1, <1>2 DEF Goto, ProcsOK
  <2>2. l \notin Calls /\ l \notin Pointing /\ l \notin Purging /\ l \notin Looking
        /\ l # "UpdateAlias" /\ l # "DeleteVersion"
    BY <1>2 DEF Ended, Calls, Pointing, Purging, Looking
  <2>. QED  BY <2>1, <2>2 DEF Informed, Released, GoesBack
<1>3. ASSUME l \notin Ended PROVE Informed(pc[p], opt[p], mem[p])'
  <2>1. pc'[p] = l /\ mem'[p] = m /\ opt'[p] = o
    BY <1>1, <1>3 DEF Goto, ProcsOK
  <2>2. Informed(l, o, m)'
    BY <1>1, <1>3
  <2>. QED  BY <2>1, <2>2 DEF Informed, Released, GoesBack
<1>. QED  BY <1>2, <1>3

LEMMA EndInforms ==
  ASSUME NEW p, NEW o, NEW l \in Ended, NEW m, Goto(p, l, m)
  PROVE  InformedMove(p, o)
BY DEF InformedMove

LEMMA ReadInforms ==
  ASSUME UNCHANGED cloud, NEW p, NEW o, NEW l, NEW m, Goto(p, l, m), Informed(l, o, m)
  PROVE  InformedMove(p, o)
<1>1. Informed(l, o, m)'
  BY DEF cloud, Informed, Released, GoesBack
<1>. QED  BY <1>1 DEF InformedMove

(* What p knows at the call it is at. *)
Knows(p, o) ==
  /\ o = opt[p] /\ o.alias \in Aliases /\ o.op \in {"deploy", "rollback", "versions"}
  /\ Informed(pc[p], o, mem[p])

LEMMA DescribeStateMachineInforms ==
  ASSUME IInv, NEW p \in Procs, NEW o, Knows(p, o), DescribeStateMachine(p)
  PROVE  InformedMove(p, o)
<1>1. PICK l : l = FirstCall(o)
  OBVIOUS
<1>2. UNCHANGED cloud /\ Goto(p, l, Fresh)
  BY <1>1 DEF DescribeStateMachine, Knows, Informed
<1>3. CASE o.op = "deploy"
  <2>1. l \in {"ok", "CreateStateMachine", "UpdateStateMachine"}
    BY <1>1, <1>3, OptionTypes DEF FirstCall, FirstOfDeploy, Knows, IInv, TypeOK
  <2>2. Informed(l, o, Fresh)
    BY <1>3, <2>1 DEF Informed, Released, Pointing, Purging
  <2>. QED  BY <1>2, <2>2, ReadInforms
<1>4. CASE o.op = "rollback"
  <2>1. l \in {"error", "ok", "DescribeCurrentAlias"}
    BY <1>1, <1>4 DEF FirstCall, FirstOfRollback
  <2>2. Informed(l, o, Fresh)
    BY <1>4, <2>1 DEF Informed, GoesBack, Looking, Fresh
  <2>. QED  BY <1>2, <2>2, ReadInforms
<1>5. CASE o.op = "versions"
  <2>1. l \in {"ok", "ListAliases"}
    BY <1>1, <1>5 DEF FirstCall, FirstOfVersions
  <2>2. Informed(l, o, Fresh)
    BY <1>5, <2>1 DEF Informed, Purging, Calls
  <2>. QED  BY <1>2, <2>2, ReadInforms
<1>. QED  BY <1>3, <1>4, <1>5 DEF Knows

(* A command that publishes or goes on from there is a deploy. *)
LEMMA Deploys ==
  ASSUME IInv, NEW p \in Procs, NEW o, Knows(p, o),
         pc[p] \in {"CreateStateMachine", "UpdateStateMachine", "TagResource",
                    "WaitActive", "DescribeAlias", "CreateAlias"}
  PROVE  o.op = "deploy"
<1>1. o.op # "rollback"
  BY NotRollback DEF Knows
<1>2. o.op # "versions"
  BY DEF Knows, Informed, Calls, Purging
<1>. QED  BY <1>1, <1>2 DEF Knows

LEMMA CreateStateMachineInforms ==
  ASSUME IInv, NEW p \in Procs, NEW o, Knows(p, o), CreateStateMachine(p)
  PROVE  InformedMove(p, o)
<1>1. PICK m : m = [mem[p] EXCEPT !.target = 1]
  OBVIOUS
<1>2. Goto(p, "WaitActive", m) /\ published' = 1 /\ versions' = {1}
  BY <1>1 DEF CreateStateMachine
<1>3. m.target = 1 /\ o.op = "deploy"
  BY <1>1, Deploys, MyFacts DEF CreateStateMachine, Memory
<1>4. Informed("WaitActive", o, m)'
  BY <1>2, <1>3 DEF Informed, Released, Pointing, Purging, Ended
<1>. QED  BY <1>2, <1>4 DEF InformedMove

LEMMA UpdateStateMachineInforms ==
  ASSUME IInv, NEW p \in Procs, NEW o, Knows(p, o), UpdateStateMachine(p)
  PROVE  InformedMove(p, o)
<1>1. PICK v : /\ published' = v /\ versions' = versions \cup {v}
               /\ Goto(p, "TagResource", [mem[p] EXCEPT !.target = v])
  BY DEF UpdateStateMachine
<1>2. PICK m : m = [mem[p] EXCEPT !.target = v]
  OBVIOUS
<1>3. m.target = v /\ o.op = "deploy"
  BY <1>2, Deploys, MyFacts DEF UpdateStateMachine, Memory
<1>4. Informed("TagResource", o, m)'
  BY <1>1, <1>3 DEF Informed, Released, Pointing, Purging, Ended
<1>. QED  BY <1>1, <1>2, <1>4 DEF InformedMove

(* From publishing to pointing the alias a deploy holds on to its release. *)
LEMMA HoldsRelease ==
  ASSUME IInv, NEW p \in Procs, NEW o, Knows(p, o), UNCHANGED cloud,
         pc[p] \in {"TagResource", "WaitActive", "DescribeAlias"},
         NEW l \in Pointing, NEW m, Goto(p, l, m), m.target = mem[p].target
  PROVE  InformedMove(p, o)
<1>1. o.op = "deploy"
  BY Deploys
<1>2. mem[p].target = published /\ published \in versions
  BY <1>1 DEF Knows, Informed, Released, Pointing
<1>3. Informed(l, o, m)
  BY <1>1, <1>2 DEF Informed, Released, Pointing, Purging, Ended
<1>. QED  BY <1>3, ReadInforms

LEMMA WaitsInform ==
  ASSUME IInv, NEW p \in Procs, NEW o, Knows(p, o),
         TagResource(p) \/ WaitActive(p) \/ WaitAgain(p) \/ DescribeAlias(p)
  PROVE  InformedMove(p, o)
<1>1. CASE TagResource(p)
  BY <1>1, HoldsRelease DEF TagResource, Pointing
<1>2. CASE WaitActive(p)
  <2>1. PICK m : m = [mem[p] EXCEPT !.attempts = 0]
    OBVIOUS
  <2>2. m.target = mem[p].target
    BY <2>1, MyFacts DEF Memory
  <2>. QED  BY <1>2, <2>1, <2>2, HoldsRelease DEF WaitActive, Pointing
<1>3. CASE WaitAgain(p) /\ ~LastTry(p)
  <2>1. PICK m : m = [mem[p] EXCEPT !.attempts = @ + 1]
    OBVIOUS
  <2>2. m.target = mem[p].target
    BY <2>1, MyFacts DEF Memory
  <2>. QED  BY <1>3, <2>1, <2>2, HoldsRelease DEF WaitAgain, Pointing
<1>4. CASE WaitAgain(p) /\ LastTry(p)
  BY <1>4, EndInforms DEF WaitAgain, Ended
<1>5. CASE DescribeAlias(p)
  <2>1. PICK r : r = routing[MyAlias(p)]
    OBVIOUS
  <2>2. PICK m : m = [mem[p] EXCEPT !.seen[MyAlias(p)] = r]
    OBVIOUS
  <2>3. PICK l : l = IF r = {} THEN "CreateAlias" ELSE "UpdateAlias"
    OBVIOUS
  <2>4. m.target = mem[p].target
    BY <2>2, MyFacts DEF Memory
  <2>5. l \in Pointing /\ Goto(p, l, m) /\ UNCHANGED cloud
    BY <1>5, <2>1, <2>2, <2>3 DEF DescribeAlias, Pointing
  <2>. QED  BY <1>5, <2>4, <2>5, HoldsRelease DEF DescribeAlias
<1>. QED  BY <1>1, <1>2, <1>3, <1>4, <1>5

LEMMA PointAliasInforms ==
  ASSUME IInv, NEW p \in Procs, NEW o, Knows(p, o), CreateAlias(p) \/ UpdateAlias(p)
  PROVE  InformedMove(p, o)
<1>1. /\ PointAlias(p) /\ pc[p] \in Pointing /\ pc[p] \in Calls
      /\ pc[p] = "CreateAlias" \/ pc[p] = "UpdateAlias"
  BY DEF CreateAlias, UpdateAlias, Pointing, Calls
<1>2. /\ routing' = [routing EXCEPT ![o.alias] = {mem[p].target}]
      /\ published' = published /\ versions' = versions
  BY <1>1 DEF PointAlias, MyAlias, Knows
<1>3. routing'[o.alias] = {mem[p].target}
  BY <1>2 DEF IInv, TypeOK, CloudOK, Knows
<1>4. CASE o.op = "deploy"
  <2>1. PICK l : l = IF o.keep = 0 THEN "ok" ELSE "ListAliases"
    OBVIOUS
  <2>2. Goto(p, l, mem[p])
    BY <1>1, <1>4, <2>1 DEF PointAlias, AfterDeploy, Knows
  <2>3. mem[p].target = published
    BY <1>1, <1>4 DEF Knows, Informed, Released
  <2>4. PICK m : m = mem[p]
    OBVIOUS
  <2>5. CASE l = "ListAliases"
    <3>1. Informed(l, o, m)'
      BY <1>2, <1>3, <1>4, <2>3, <2>4, <2>5
         DEF Informed, Released, Pointing, Purging, Ended
    <3>. QED  BY <2>2, <2>4, <3>1 DEF InformedMove
  <2>6. CASE l = "ok"
    BY <2>2, <2>6, EndInforms DEF Ended
  <2>. QED  BY <2>1, <2>5, <2>6
<1>5. CASE o.op = "rollback"
  <2>1. pc[p] = "UpdateAlias"
    BY <1>1, <1>5, Deploys
  <2>2. CASE o.keepVersion \/ TargetShared(p)
    BY <1>1, <1>5, <2>2, EndInforms DEF PointAlias, AfterRollback, Knows, Ended
  <2>3. CASE ~(o.keepVersion \/ TargetShared(p))
    <3>1. PICK m : m = [mem[p] EXCEPT !.todo = {Current(p)}]
      OBVIOUS
    <3>2. Goto(p, "DeleteVersion", m)
      BY <1>1, <1>5, <2>3, <3>1 DEF PointAlias, AfterRollback, Knows
    <3>3. /\ m.seen = mem[p].seen /\ m.target = mem[p].target
          /\ m.todo = {Max(m.seen[o.alias])}
      BY <3>1, MyFacts DEF Memory, Current, Knows
    <3>4. mem[p].target < Max(mem[p].seen[o.alias])
      BY <1>5, <2>1 DEF Knows, Informed, GoesBack
    <3>5. Informed("DeleteVersion", o, m)'
      BY <1>3, <1>5, <3>3, <3>4 DEF Informed, GoesBack, Looking, Ended
    <3>. QED  BY <3>2, <3>5 DEF InformedMove
  <2>. QED  BY <2>2, <2>3
<1>6. o.op # "versions"
  BY <1>1 DEF Knows, Informed, Purging, Calls
<1>. QED  BY <1>4, <1>5, <1>6 DEF Knows


LEMMA DescribeCurrentAliasInforms ==
  ASSUME IInv, NEW p \in Procs, NEW o, Knows(p, o), DescribeCurrentAlias(p)
  PROVE  InformedMove(p, o)
<1>1. PICK r : r = routing[o.alias]
  OBVIOUS
<1>2. PICK l : l = CASE r = {} -> "error"
                     [] Cardinality(r) > 1 \/ r = {1} -> "ok"
                     [] OTHER -> "ListAliases"
  OBVIOUS
<1>3. PICK m : m = [mem[p] EXCEPT !.seen[o.alias] = r]
  OBVIOUS
<1>4. Goto(p, l, m) /\ UNCHANGED cloud
  BY <1>1, <1>2, <1>3 DEF DescribeCurrentAlias, MyAlias, Knows
<1>5. l \in {"error", "ok"} \/ l = "ListAliases"
  BY <1>2
<1>6. CASE l \in {"error", "ok"}
  BY <1>4, <1>6, EndInforms DEF Ended
<1>7. CASE l = "ListAliases"
  <2>1. o.op = "rollback" /\ mem[p].target = 0
    <3>1. o.op = "rollback"
      BY MyFacts DEF Knows, Phase, DescribeCurrentAlias
    <3>. QED  BY <3>1 DEF Knows, Informed, GoesBack, Looking, DescribeCurrentAlias
  <2>2. m.target = mem[p].target /\ m.seen[o.alias] = r
    BY <1>3, MyFacts DEF Memory, Knows
  <2>3. Informed("ListAliases", o, m)
    BY <1>1, <2>1, <2>2 DEF Informed, GoesBack, Looking, Ended
  <2>. QED  BY <1>4, <1>7, <2>3, ReadInforms
<1>. QED  BY <1>5, <1>6, <1>7

(* While it lists, a command keeps what it knows of its own alias. *)
LEMMA KeepsLooking ==
  ASSUME IInv, NEW p \in Procs, NEW o, Knows(p, o), UNCHANGED cloud,
         pc[p] \in {"ListAliases", "DescribeAliases"},
         NEW l \in {"DescribeAliases", "ListVersions"}, NEW m, Goto(p, l, m),
         m.target = mem[p].target,
         o.op = "rollback" => m.seen[o.alias] = mem[p].seen[o.alias]
  PROVE  InformedMove(p, o)
<1>1. Informed(l, o, m)
  <2>1. CASE o.op = "deploy"
    BY <2>1 DEF Knows, Informed, Released, Pointing, Purging, Ended
  <2>2. CASE o.op = "rollback"
    BY <2>2 DEF Knows, Informed, GoesBack, Looking, Ended
  <2>3. CASE o.op = "versions"
    BY <2>3 DEF Informed, Purging, Ended
  <2>. QED  BY <2>1, <2>2, <2>3 DEF Knows
<1>. QED  BY <1>1, ReadInforms

LEMMA ListAliasesInforms ==
  ASSUME IInv, NEW p \in Procs, NEW o, Knows(p, o), ListAliases(p)
  PROVE  InformedMove(p, o)
<1>1. PICK new : new = {a \in Aliases : routing[a] # {} /\ mem[p].seen[a] = {}}
  OBVIOUS
<1>2. PICK m : m = [mem[p] EXCEPT !.pending = new]
  OBVIOUS
<1>3. PICK l : l = IF new = {} THEN "ListVersions" ELSE "DescribeAliases"
  OBVIOUS
<1>4. Goto(p, l, m) /\ UNCHANGED cloud /\ pc[p] = "ListAliases"
  BY <1>1, <1>2, <1>3 DEF ListAliases
<1>5. m.target = mem[p].target /\ m.seen = mem[p].seen
  BY <1>2, MyFacts DEF Memory
<1>. QED  BY <1>3, <1>4, <1>5, KeepsLooking

LEMMA DescribeAliasesInforms ==
  ASSUME IInv, NEW p \in Procs, NEW o, Knows(p, o), DescribeAliases(p)
  PROVE  InformedMove(p, o)
<1>1. PICK a \in mem[p].pending :
        Goto(p, IF mem[p].pending = {a} THEN "ListVersions" ELSE "DescribeAliases",
                [mem[p] EXCEPT !.seen[a] = routing[a], !.pending = @ \ {a}])
  BY DEF DescribeAliases
<1>2. PICK m : m = [mem[p] EXCEPT !.seen[a] = routing[a], !.pending = @ \ {a}]
  OBVIOUS
<1>3. PICK l : l = IF mem[p].pending = {a} THEN "ListVersions" ELSE "DescribeAliases"
  OBVIOUS
<1>4. Goto(p, l, m) /\ UNCHANGED cloud /\ pc[p] = "DescribeAliases"
  BY <1>1, <1>2, <1>3 DEF DescribeAliases
<1>5. m.target = mem[p].target /\ m.seen = [mem[p].seen EXCEPT ![a] = routing[a]]
  BY <1>2, MyFacts DEF Memory
<1>6. o.op = "rollback" => m.seen[o.alias] = mem[p].seen[o.alias]
  <2>1. o.op = "rollback" => o.alias # a
    BY <1>4, MyFacts DEF Phase, Calls, Knows
  <2>. QED  BY <1>5, <2>1, MyFacts DEF Memory, Knows
<1>. QED  BY <1>3, <1>4, <1>5, <1>6, KeepsLooking

LEMMA ChoosePurgeInforms ==
  ASSUME IInv, NEW p \in Procs, NEW o, Knows(p, o), UNCHANGED cloud,
         pc[p] = "ListVersions", o.op # "rollback", NEW L, ChoosePurge(p, L)
  PROVE  InformedMove(p, o)
<1>1. PICK old : old = Purgeable(L, opt[p].keep, mem[p].seen)
  OBVIOUS
<1>2. PICK m : m = [mem[p] EXCEPT !.todo = old]
  OBVIOUS
<1>3. PICK l : l = IF old = {} THEN "ok" ELSE "DeleteVersion"
  OBVIOUS
<1>4. Goto(p, l, m)
  BY <1>1, <1>2, <1>3 DEF ChoosePurge
<1>5. CASE l = "ok"
  BY <1>4, <1>5, EndInforms DEF Ended
<1>6. CASE l = "DeleteVersion"
  <2>1. o.op = "deploy" => routing[o.alias] = {published}
    BY DEF Knows, Informed, Released, Purging
  <2>2. Informed("DeleteVersion", o, m)
    BY <2>1 DEF Informed, Released, Pointing, Purging, Ended
  <2>. QED  BY <1>4, <1>6, <2>2, ReadInforms
<1>. QED  BY <1>3, <1>5, <1>6

LEMMA ChooseTargetInforms ==
  ASSUME IInv, NEW p \in Procs, NEW o, Knows(p, o), UNCHANGED cloud,
         pc[p] = "ListVersions", o.op = "rollback",
         NEW L \in Listings, ChooseTarget(p, L)
  PROVE  InformedMove(p, o)
<1>1. PICK older : older = {v \in L : v < Current(p)}
  OBVIOUS
<1>2. CASE older = {} \/ opt[p].dryRun
  BY <1>1, <1>2, EndInforms DEF ChooseTarget, Ended
<1>3. CASE older # {} /\ ~opt[p].dryRun
  <2>1. PICK m : m = [mem[p] EXCEPT !.target = Max(older)]
    OBVIOUS
  <2>2. Goto(p, "UpdateAlias", m)
    BY <1>1, <1>3, <2>1 DEF ChooseTarget
  <2>3. m.target = Max(older) /\ m.seen = mem[p].seen
    BY <2>1, MyFacts DEF Memory
  <2>4. mem[p].seen[o.alias] = routing[o.alias]
    BY DEF Knows, Informed, GoesBack, Looking
  <2>5. Current(p) = Max(m.seen[o.alias])
    BY <2>3 DEF Current, MyAlias, Knows
  <2>6. PICK all : all = {v \in versions : v < Max(m.seen[o.alias])}
    OBVIOUS
  <2>7. older \subseteq all /\ ("list" \notin Faults => older = all)
    BY <1>1, <2>5, <2>6 DEF Listings
  <2>8. Max(older) \in older
    BY <1>1, <1>3, VersionTypes, NewestOf DEF Listings
  <2>9. Informed("UpdateAlias", o, m)
    BY <2>3, <2>4, <2>6, <2>7, <2>8 DEF Informed, GoesBack, Looking, Ended
  <2>. QED  BY <2>2, <2>9, ReadInforms
<1>. QED  BY <1>2, <1>3

LEMMA ListVersionsInforms ==
  ASSUME IInv, NEW p \in Procs, NEW o, Knows(p, o), ListVersions(p)
  PROVE  InformedMove(p, o)
<1>1. PICK L \in Listings : IF o.op = "rollback" THEN ChooseTarget(p, L) ELSE ChoosePurge(p, L)
  BY DEF ListVersions, Knows
<1>2. UNCHANGED cloud /\ pc[p] = "ListVersions"
  BY DEF ListVersions
<1>3. CASE o.op = "rollback"
  BY <1>1, <1>2, <1>3, ChooseTargetInforms
<1>4. CASE o.op # "rollback"
  BY <1>1, <1>2, <1>4, ChoosePurgeInforms
<1>. QED  BY <1>3, <1>4

(* A rollback deletes one version, the one it left. *)
LEMMA RollbackDeletesOne ==
  ASSUME IInv, NEW p \in Procs, NEW o, Knows(p, o), o.op = "rollback",
         pc[p] = "DeleteVersion"
  PROVE  /\ mem[p].todo = {Current(p)} /\ Victim(p) = Current(p)
         /\ routing[o.alias] = {mem[p].target} /\ mem[p].target < Current(p)
<1>1. /\ mem[p].todo = {Current(p)}
      /\ routing[o.alias] = {mem[p].target} /\ mem[p].target < Current(p)
  BY DEF Knows, Informed, GoesBack, Current, MyAlias
<1>2. Max({Current(p)}) = Current(p)
  <2>1. {Current(p)} \in SUBSET Version
    BY <1>1, MyFacts DEF Memory
  <2>. QED  BY <2>1, NewestOf
<1>. QED  BY <1>1, <1>2 DEF Victim

LEMMA NextVictimInforms ==
  ASSUME IInv, NEW p \in Procs, NEW o, Knows(p, o), pc[p] = "DeleteVersion",
         NEW bad, NextVictim(p, bad), routing' = routing, published' = published
  PROVE  InformedMove(p, o)
<1>1. PICK left : left = mem[p].todo \ {Victim(p)}
  OBVIOUS
<1>2. PICK m : m = [mem[p] EXCEPT !.todo = left, !.failed = bad, !.attempts = 0]
  OBVIOUS
<1>3. PICK l : l = CASE left # {} -> "DeleteVersion"
                     [] left = {} /\ bad -> "error"
                     [] OTHER -> "ok"
  OBVIOUS
<1>4. Goto(p, l, m)
  BY <1>1, <1>2, <1>3 DEF NextVictim
<1>5. CASE left = {}
  BY <1>3, <1>4, <1>5, EndInforms DEF Ended
<1>6. CASE left # {}
  <2>1. o.op # "rollback"
    BY <1>1, <1>6, RollbackDeletesOne
  <2>2. o.op = "deploy" => routing'[o.alias] = {published'}
    BY DEF Knows, Informed, Released, Purging
  <2>3. Informed("DeleteVersion", o, m)'
    BY <2>1, <2>2 DEF Informed, Released, Pointing, Purging, Ended
  <2>4. l = "DeleteVersion"
    BY <1>3, <1>6
  <2>. QED  BY <1>4, <2>3, <2>4 DEF InformedMove
<1>. QED  BY <1>5, <1>6

LEMMA DeletionInforms ==
  ASSUME IInv, NEW p \in Procs, NEW o, Knows(p, o),
         DeleteVersion(p) \/ DeleteAgain(p) \/ SkipReferenced(p) \/ DeleteFails(p)
  PROVE  InformedMove(p, o)
<1>1. CASE DeleteVersion(p) \/ SkipReferenced(p) \/ DeleteFails(p)
  BY <1>1, NextVictimInforms DEF DeleteVersion, SkipReferenced, DeleteFails, cloud
<1>2. CASE DeleteAgain(p) /\ LastTry(p)
  BY <1>2, NextVictimInforms DEF DeleteAgain, cloud
<1>3. CASE DeleteAgain(p) /\ ~LastTry(p)
  <2>1. PICK m : m = [mem[p] EXCEPT !.attempts = @ + 1]
    OBVIOUS
  <2>2. Goto(p, "DeleteVersion", m) /\ UNCHANGED cloud /\ pc[p] = "DeleteVersion"
    BY <1>3, <2>1 DEF DeleteAgain
  <2>3. m.target = mem[p].target /\ m.seen = mem[p].seen /\ m.todo = mem[p].todo
    BY <2>1, MyFacts DEF Memory
  <2>4. Informed("DeleteVersion", o, m)
    BY <2>2, <2>3 DEF Knows, Informed, Released, GoesBack, Looking, Purging, Pointing, Ended
  <2>. QED  BY <2>2, <2>4, ReadInforms
<1>. QED  BY <1>1, <1>2, <1>3

(* Alone, a command goes on knowing what it does. *)
LEMMA WorkInforms ==
  ASSUME IInv, NEW p \in Procs, Work(p) \/ Crash(p), Informed(pc[p], opt[p], mem[p])
  PROVE  Informed(pc[p], opt[p], mem[p])'
<1>1. PICK o : o = opt[p]
  OBVIOUS
<1>2. Knows(p, o)
  BY <1>1, OptionTypes DEF Knows, IInv, TypeOK
<1>3. InformedMove(p, o)
  <2>1. CASE DescribeStateMachine(p) \/ CreateStateMachine(p) \/ UpdateStateMachine(p)
    BY <1>2, <2>1, DescribeStateMachineInforms, CreateStateMachineInforms,
       UpdateStateMachineInforms
  <2>2. CASE TagResource(p) \/ WaitActive(p) \/ WaitAgain(p) \/ DescribeAlias(p)
    BY <1>2, <2>2, WaitsInform
  <2>3. CASE CreateAlias(p) \/ UpdateAlias(p)
    BY <1>2, <2>3, PointAliasInforms
  <2>4. CASE DescribeCurrentAlias(p) \/ ListAliases(p) \/ DescribeAliases(p)
             \/ ListVersions(p)
    BY <1>2, <2>4, DescribeCurrentAliasInforms, ListAliasesInforms,
       DescribeAliasesInforms, ListVersionsInforms
  <2>5. CASE DeleteVersion(p) \/ DeleteAgain(p) \/ SkipReferenced(p) \/ DeleteFails(p)
    BY <1>2, <2>5, DeletionInforms
  <2>6. CASE WaitPanics(p) \/ CallFails(p) \/ Crash(p)
    BY <2>6, EndInforms DEF WaitPanics, CallFails, Crash, Ended
  <2>. QED  BY <2>1, <2>2, <2>3, <2>4, <2>5, <2>6 DEF Work
<1>. QED  BY <1>1, <1>3, InformedMoves DEF IInv, TypeOK


(* The calls at which a command can end well. *)
LEMMA EndsWell ==
  ASSUME IInv, NEW p \in Procs, Work(p) \/ Crash(p), pc'[p] = "ok"
  PROVE  \/ DescribeStateMachine(p) \/ CreateAlias(p) \/ UpdateAlias(p)
         \/ DescribeCurrentAlias(p) \/ ListVersions(p)
         \/ DeleteVersion(p) \/ SkipReferenced(p) \/ DeleteAgain(p) \/ DeleteFails(p)
<1>1. ASSUME NEW l, NEW m, Goto(p, l, m) PROVE l = "ok"
  BY <1>1 DEF Goto, IInv, TypeOK, ProcsOK
<1>2. ~CreateStateMachine(p) /\ ~TagResource(p) /\ ~WaitActive(p) /\ ~WaitAgain(p)
      /\ ~WaitPanics(p) /\ ~DescribeAlias(p)
  BY <1>1 DEF CreateStateMachine, TagResource, WaitActive, WaitAgain, WaitPanics,
     DescribeAlias
<1>3. ~UpdateStateMachine(p)
  <2>1. ASSUME NEW v PROVE ~Goto(p, "TagResource", [mem[p] EXCEPT !.target = v])
    BY <1>1
  <2>. QED  BY <2>1 DEF UpdateStateMachine
<1>4. ~ListAliases(p) /\ ~DescribeAliases(p)
  BY <1>1 DEF ListAliases, DescribeAliases
<1>5. ~CallFails(p) /\ ~Crash(p)
  BY <1>1 DEF CallFails, Crash
<1>. QED  BY <1>2, <1>3, <1>4, <1>5 DEF Work

LEMMA InformedDeployEnds ==
  ASSUME IInv, NEW p \in Procs, Work(p) \/ Crash(p), Informed(pc[p], opt[p], mem[p]),
         pc'[p] = "ok", opt[p].op = "deploy", ~opt[p].dryRun
  PROVE  published \in versions' /\ routing'[MyAlias(p)] = {published}
<1>1. PICK o : o = opt[p]
  OBVIOUS
<1>2. Knows(p, o) /\ MyAlias(p) = o.alias /\ o.alias \in Aliases
  BY <1>1, OptionTypes DEF Knows, IInv, TypeOK, MyAlias
<1>3. ~DescribeStateMachine(p)
  <2>1. FirstCall(opt[p]) # "ok"
    BY DEF FirstCall, FirstOfDeploy
  <2>. QED  BY <2>1 DEF DescribeStateMachine, Goto, IInv, TypeOK, ProcsOK
<1>4. ~DescribeCurrentAlias(p)
  BY MyFacts DEF DescribeCurrentAlias, Phase
<1>5. CASE CreateAlias(p) \/ UpdateAlias(p)
  <2>1. mem[p].target = published /\ published \in versions
    BY <1>1, <1>5 DEF Informed, Released, Pointing, CreateAlias, UpdateAlias
  <2>2. /\ routing' = [routing EXCEPT ![o.alias] = {mem[p].target}] /\ versions' = versions
        /\ routing \in [Aliases -> SUBSET versions]
    BY <1>2, <1>5 DEF CreateAlias, UpdateAlias, PointAlias, IInv, TypeOK, CloudOK
  <2>. QED  BY <1>2, <2>1, <2>2
<1>6. CASE ListVersions(p) \/ DeleteVersion(p) \/ SkipReferenced(p) \/ DeleteAgain(p)
           \/ DeleteFails(p)
  <2>1. pc[p] \in Purging /\ routing' = routing
    BY <1>6 DEF ListVersions, DeleteVersion, SkipReferenced, DeleteAgain, DeleteFails,
       Purging, cloud
  <2>2. routing'[o.alias] = {published}
    BY <1>1, <2>1 DEF Informed, Released
  <2>3. Work(p)
    BY <1>6 DEF Work
  <2>4. routing' \in [Aliases -> SUBSET versions']
    BY <2>3, WorkStep DEF IInv, TypeOK, CloudOK
  <2>. QED  BY <1>2, <2>2, <2>4
<1>. QED  BY <1>3, <1>4, <1>5, <1>6, EndsWell

LEMMA InformedRollbackEnds ==
  ASSUME IInv, NEW p \in Procs, Work(p) \/ Crash(p), Informed(pc[p], opt[p], mem[p]),
         pc'[p] = "ok", opt[p].op = "rollback", mem[p].target # 0
  PROVE  /\ mem[p].target < Current(p)
         /\ routing'[MyAlias(p)] = {mem[p].target}
         /\ \/ opt[p].keepVersion \/ TargetShared(p)
            \/ Current(p) \notin versions'
            \/ Referencing(Current(p)) \ {MyAlias(p)} # {}
<1>1. PICK o : o = opt[p]
  OBVIOUS
<1>2. Knows(p, o) /\ MyAlias(p) = o.alias /\ o.alias \in Aliases /\ o.op = "rollback"
  BY <1>1, OptionTypes DEF Knows, IInv, TypeOK, MyAlias
<1>3. ASSUME NEW l, NEW m, Goto(p, l, m) PROVE l = "ok"
  BY <1>3 DEF Goto, IInv, TypeOK, ProcsOK
<1>4. ~DescribeStateMachine(p)
  BY DEF DescribeStateMachine, Informed, Fresh
<1>5. ~DescribeCurrentAlias(p) /\ ~ListVersions(p)
  BY <1>1, <1>2 DEF DescribeCurrentAlias, ListVersions, Informed, GoesBack, Looking
<1>6. ~CreateAlias(p)
  BY <1>2, Deploys DEF CreateAlias
<1>7. CASE UpdateAlias(p)
  <2>1. opt[p].keepVersion \/ TargetShared(p)
    BY <1>2, <1>3, <1>7 DEF UpdateAlias, PointAlias, AfterRollback
  <2>2. /\ routing' = [routing EXCEPT ![o.alias] = {mem[p].target}]
        /\ routing \in [Aliases -> SUBSET versions]
    BY <1>2, <1>7 DEF UpdateAlias, PointAlias, IInv, TypeOK, CloudOK
  <2>3. mem[p].target < Current(p)
    BY <1>2, <1>7 DEF UpdateAlias, Knows, Informed, GoesBack, Current
  <2>. QED  BY <1>2, <2>1, <2>2, <2>3
<1>8. CASE DeleteVersion(p) \/ SkipReferenced(p)
  <2>1. routing' = routing /\ pc[p] = "DeleteVersion"
    BY <1>8 DEF DeleteVersion, SkipReferenced, cloud
  <2>2. /\ Victim(p) = Current(p) /\ routing[o.alias] = {mem[p].target}
        /\ mem[p].target < Current(p)
    BY <1>2, <2>1, RollbackDeletesOne
  <2>3. CASE DeleteVersion(p)
    BY <1>2, <2>1, <2>2, <2>3 DEF DeleteVersion
  <2>4. CASE SkipReferenced(p)
    <3>1. PICK a \in Aliases : Current(p) \in routing[a]
      BY <2>2, <2>4 DEF SkipReferenced, Referencing
    <3>2. a # o.alias
      <4>1. Current(p) = mem[p].target => ~(mem[p].target < Current(p))
        <5>1. mem[p].target \in Int
          BY MemoryTypes DEF IInv, TypeOK
        <5>. QED  BY <5>1
      <4>. QED  BY <2>2, <3>1, <4>1
    <3>. QED  BY <1>2, <2>1, <2>2, <3>1, <3>2 DEF Referencing
  <2>. QED  BY <1>8, <2>3, <2>4
<1>9. ~DeleteAgain(p) /\ ~DeleteFails(p)
  <2>1. ASSUME pc[p] = "DeleteVersion" PROVE ~NextVictim(p, TRUE)
    <3>1. mem[p].todo \ {Victim(p)} = {}
      BY <1>2, <2>1, RollbackDeletesOne
    <3>. QED  BY <1>3, <3>1 DEF NextVictim
  <2>. QED  BY <1>3, <2>1 DEF DeleteAgain, DeleteFails
<1>. QED  BY <1>4, <1>5, <1>6, <1>7, <1>8, <1>9, EndsWell

LEMMA InformedPoints ==
  ASSUME IInv, NEW p \in Procs, Work(p) \/ Crash(p), Informed(pc[p], opt[p], mem[p]),
         "list" \notin Faults, NEW a \in Aliases, routing'[a] # routing[a]
  PROVE  \/ routing'[a] = {published}
         \/ routing'[a] = {Max({v \in versions : v < Max(routing[a])})}
<1>1. PICK o : o = opt[p]
  OBVIOUS
<1>2. Knows(p, o) /\ MyAlias(p) = o.alias
  BY <1>1, OptionTypes DEF Knows, IInv, TypeOK, MyAlias
<1>3. CreateAlias(p) \/ UpdateAlias(p)
  <2>1. ASSUME CreateStateMachine(p) \/ UpdateStateMachine(p) \/ DeleteVersion(p)
        PROVE  routing' = routing
    BY <2>1 DEF CreateStateMachine, UpdateStateMachine, DeleteVersion
  <2>. QED  BY <2>1, OtherCallsRead DEF cloud
<1>4. pc[p] \in Pointing /\ pc[p] \in Calls
  BY <1>3 DEF CreateAlias, UpdateAlias, Pointing, Calls
<1>5. a = o.alias /\ routing'[a] = {mem[p].target}
  <2>1. /\ routing' = [routing EXCEPT ![o.alias] = {mem[p].target}]
        /\ routing \in [Aliases -> SUBSET versions]
    BY <1>2, <1>3 DEF CreateAlias, UpdateAlias, PointAlias, IInv, TypeOK, CloudOK
  <2>. QED  BY <2>1
<1>6. CASE o.op = "deploy"
  BY <1>2, <1>4, <1>5, <1>6 DEF Knows, Informed, Released
<1>7. CASE o.op = "rollback"
  <2>1. pc[p] = "UpdateAlias"
    BY <1>2, <1>3, <1>7, Deploys DEF CreateAlias, UpdateAlias
  <2>2. mem[p].seen[o.alias] = routing[a]
        /\ mem[p].target = Max({v \in versions : v < Max(mem[p].seen[o.alias])})
    BY <1>2, <1>5, <1>7, <2>1 DEF Knows, Informed, GoesBack
  <2>. QED  BY <1>5, <2>2
<1>8. o.op # "versions"
  <2>1. pc[p] \notin Purging \cup {"DescribeStateMachine"}
    BY <1>4 DEF Pointing, Purging
  <2>. QED  BY <1>2, <1>4, <2>1 DEF Knows, Informed
<1>. QED  BY <1>2, <1>6, <1>7, <1>8 DEF Knows

-----------------------------------------------------------------------------
(* What a purge leaves *)

(* Deleting versions makes no other one stay that might have gone. *)
LEMMA MayStayStill ==
  ASSUME IInv, versions' \subseteq versions, NEW v, NEW keep \in Nat, NEW seen,
         MayStay(v, versions, keep, seen)
  PROVE  MayStay(v, versions', keep, seen)
<1>1. {w \in versions' : w > v} \subseteq {w \in versions : w > v}
  OBVIOUS
<1>2. /\ Position(v, versions') <= Position(v, versions)
      /\ Position(v, versions') \in Nat /\ Position(v, versions) \in Nat
  BY <1>1, VersionsFinite, PositionGrows
<1>3. CASE Position(v, versions) < keep
  <2>1. Position(v, versions') < keep
    BY <1>2, <1>3
  <2>. QED  BY <2>1 DEF MayStay
<1>4. CASE Referencing(v) # {} \/ \E a \in Aliases : v \in seen[a]
  BY <1>4 DEF MayStay
<1>. QED  BY <1>3, <1>4 DEF MayStay

(* What a purge does not choose may stay. *)
LEMMA ChoosesAll ==
  ASSUME IInv, NEW keep \in Nat, keep > 0, NEW seen,
         NEW v \in versions, v \notin Purgeable(versions, keep, seen)
  PROVE  MayStay(v, versions, keep, seen)
<1>1. Position(v, versions) \in Nat
  BY VersionsFinite, PositionGrows
<1>2. CASE ~(Position(v, versions) > 0) \/ ~(Position(v, versions) >= keep)
  <2>1. Position(v, versions) < keep
    BY <1>1, <1>2
  <2>. QED  BY <2>1 DEF MayStay
<1>3. CASE \E a \in Aliases : v \in seen[a]
  BY <1>3 DEF MayStay
<1>. QED  BY <1>2, <1>3 DEF Purgeable

(* A deletion done, or not done as aliases are on the version, leaves      *)
(* nothing but what may stay.                                              *)
LEMMA DeletionLeaves ==
  ASSUME IInv, NEW p \in Procs, LeavesOnly(pc[p], opt[p], mem[p]),
         pc[p] = "DeleteVersion", opt[p].op # "rollback", opt[p].keep > 0, ~mem[p].failed,
         \/ versions' = versions /\ Referencing(Victim(p)) # {}
         \/ versions' = versions \ {Victim(p)}
  PROVE  \A v \in versions' \ (mem[p].todo \ {Victim(p)}) :
           MayStay(v, versions', opt[p].keep, mem[p].seen)
<1>1. opt[p].keep \in Nat
  BY OptionTypes DEF IInv, TypeOK
<1>2. ASSUME NEW v \in versions' \ (mem[p].todo \ {Victim(p)})
      PROVE  MayStay(v, versions', opt[p].keep, mem[p].seen)
  <2>1. CASE v = Victim(p)
    BY <2>1, <1>2 DEF MayStay
  <2>2. CASE v # Victim(p)
    <3>1. MayStay(v, versions, opt[p].keep, mem[p].seen)
      BY <2>2, <1>2 DEF LeavesOnly
    <3>. QED  BY <1>1, <3>1, MayStayStill
  <2>. QED  BY <2>1, <2>2
<1>. QED  BY <1>2

(* Where a deletion of p leads, and with what in mind. *)
LEMMA NextVictimGoes ==
  ASSUME IInv, NEW p \in Procs, NEW bad \in BOOLEAN, NextVictim(p, bad)
  PROVE  /\ pc'[p] = "ok" => ~bad /\ mem[p].todo \ {Victim(p)} = {}
         /\ pc'[p] = "DeleteVersion" =>
              /\ mem'[p].todo = mem[p].todo \ {Victim(p)}
              /\ mem'[p].failed = bad /\ mem'[p].seen = mem[p].seen
<1>1. PICK left : left = mem[p].todo \ {Victim(p)}
  OBVIOUS
<1>2. PICK m : m = [mem[p] EXCEPT !.todo = left, !.failed = bad, !.attempts = 0]
  OBVIOUS
<1>3. PICK l : l = CASE left # {} -> "DeleteVersion"
                     [] left = {} /\ bad -> "error"
                     [] OTHER -> "ok"
  OBVIOUS
<1>4. Goto(p, l, m)
  BY <1>1, <1>2, <1>3 DEF NextVictim
<1>5. m.todo = left /\ m.failed = bad /\ m.seen = mem[p].seen
  BY <1>2, MyFacts DEF Memory
<1>6. pc'[p] = l /\ (l \notin Ended => mem'[p] = m)
  BY <1>4 DEF Goto, IInv, TypeOK, ProcsOK
<1>7. CASE left # {}
  BY <1>1, <1>3, <1>5, <1>6, <1>7 DEF Ended
<1>8. CASE left = {}
  BY <1>1, <1>3, <1>6, <1>8
<1>. QED  BY <1>7, <1>8

(* A deletion that is not to be tried again. *)
DeletionEnds(p, bad) ==
  /\ pc[p] = "DeleteVersion" /\ bad \in BOOLEAN /\ NextVictim(p, bad)
  /\ routing' = routing
  /\ ~bad => /\ ~mem[p].failed
             /\ \/ versions' = versions /\ Referencing(Victim(p)) # {}
                \/ versions' = versions \ {Victim(p)}

LEMMA DeletionCases ==
  ASSUME IInv, NEW p \in Procs,
         DeleteVersion(p) \/ SkipReferenced(p) \/ DeleteFails(p) \/ (DeleteAgain(p) /\ LastTry(p))
  PROVE  \E bad : DeletionEnds(p, bad)
<1>1. mem[p].failed \in BOOLEAN
  BY MyFacts DEF Memory
<1>2. CASE DeleteVersion(p) \/ SkipReferenced(p)
  <2>1. DeletionEnds(p, mem[p].failed)
    BY <1>1, <1>2 DEF DeletionEnds, DeleteVersion, SkipReferenced, cloud
  <2>. QED  BY <2>1
<1>3. CASE DeleteFails(p) \/ (DeleteAgain(p) /\ LastTry(p))
  <2>1. DeletionEnds(p, TRUE)
    BY <1>3 DEF DeletionEnds, DeleteFails, DeleteAgain, cloud
  <2>. QED  BY <2>1
<1>. QED  BY <1>2, <1>3

(* Alone, a purge goes on leaving nothing but what may stay. *)
LEMMA WorkLeaves ==
  ASSUME IInv, "list" \notin Faults, NEW p \in Procs, Work(p) \/ Crash(p),
         LeavesOnly(pc[p], opt[p], mem[p])
  PROVE  LeavesOnly(pc[p], opt[p], mem[p])'
<1> SUFFICES ASSUME pc'[p] = "DeleteVersion", opt'[p].op # "rollback", opt'[p].keep > 0,
                    ~mem'[p].failed, NEW v \in versions' \ mem'[p].todo
             PROVE  MayStay(v, versions, opt[p].keep, mem[p].seen)'
  BY DEF LeavesOnly
<1>1. opt'[p] = opt[p]
  BY WorkFrame DEF Ended, IInv, TypeOK
<1>2. opt[p].op # "rollback" /\ opt[p].keep > 0 /\ opt[p].keep \in Nat
  BY <1>1, OptionTypes DEF IInv, TypeOK
<1>3. SUFFICES /\ routing' = routing /\ mem'[p].seen = mem[p].seen
               /\ MayStay(v, versions', opt[p].keep, mem[p].seen)
  BY <1>1 DEF MayStay, Referencing
<1>4. CASE ListVersions(p)
  <2>1. ChoosePurge(p, versions) /\ UNCHANGED cloud
    BY <1>2, <1>4 DEF ListVersions, Listings
  <2>2. PICK old : old = Purgeable(versions, opt[p].keep, mem[p].seen)
    OBVIOUS
  <2>3. PICK m : m = [mem[p] EXCEPT !.todo = old]
    OBVIOUS
  <2>4. Goto(p, IF old = {} THEN "ok" ELSE "DeleteVersion", m)
    BY <2>1, <2>2, <2>3 DEF ChoosePurge
  <2>5. mem'[p] = m
    BY <2>4 DEF Goto, Ended, IInv, TypeOK, ProcsOK
  <2>6. mem'[p].todo = old /\ mem'[p].seen = mem[p].seen
    BY <2>3, <2>5, MyFacts DEF Memory
  <2>7. v \in versions /\ v \notin old /\ versions' = versions /\ routing' = routing
    BY <2>1, <2>6 DEF cloud
  <2>8. MayStay(v, versions, opt[p].keep, mem[p].seen)
    BY <1>2, <2>2, <2>7, ChoosesAll
  <2>. QED  BY <2>6, <2>7, <2>8
<1>5. CASE DeleteVersion(p) \/ SkipReferenced(p) \/ DeleteFails(p)
           \/ (DeleteAgain(p) /\ LastTry(p))
  <2>1. PICK bad : DeletionEnds(p, bad)
    BY <1>5, DeletionCases
  <2>2. /\ mem'[p].todo = mem[p].todo \ {Victim(p)}
        /\ ~bad /\ mem'[p].seen = mem[p].seen
    BY <2>1, NextVictimGoes DEF DeletionEnds
  <2>. QED  BY <1>2, <2>1, <2>2, DeletionLeaves DEF DeletionEnds
<1>6. CASE DeleteAgain(p) /\ ~LastTry(p)
  <2>1. PICK m : m = [mem[p] EXCEPT !.attempts = @ + 1]
    OBVIOUS
  <2>2. Goto(p, "DeleteVersion", m) /\ UNCHANGED cloud /\ pc[p] = "DeleteVersion"
    BY <1>6, <2>1 DEF DeleteAgain
  <2>3. m.todo = mem[p].todo /\ m.failed = mem[p].failed /\ m.seen = mem[p].seen
    BY <2>1, MyFacts DEF Memory
  <2>4. mem'[p] = m
    BY <2>2 DEF Goto, Ended, IInv, TypeOK, ProcsOK
  <2>. QED  BY <1>2, <2>2, <2>3, <2>4 DEF LeavesOnly, cloud
<1>. QED  BY <1>2, <1>4, <1>5, <1>6, ComesToDelete

LEMMA PurgeEnds ==
  ASSUME IInv, "list" \notin Faults, NEW p \in Procs, Work(p) \/ Crash(p),
         LeavesOnly(pc[p], opt[p], mem[p]), pc'[p] = "ok",
         opt[p].op # "rollback", ~opt[p].dryRun, opt[p].keep > 0,
         NEW v \in versions'
  PROVE  MayStay(v, versions', opt[p].keep, mem[p].seen)
<1>1. ASSUME NEW l, NEW m, Goto(p, l, m) PROVE l = "ok"
  BY <1>1 DEF Goto, IInv, TypeOK, ProcsOK
<1>2. opt[p].keep \in Nat /\ opt[p].keep # 0
  BY OptionTypes DEF IInv, TypeOK
<1>3. CASE DescribeStateMachine(p)
  <2>1. FirstCall(opt[p]) = "ok" /\ UNCHANGED cloud
    BY <1>1, <1>3 DEF DescribeStateMachine
  <2>2. opt[p].op = "versions"
    BY <2>1, OptionTypes DEF FirstCall, FirstOfDeploy, IInv, TypeOK
  <2>3. status = "ABSENT"
    BY <1>2, <2>1, <2>2 DEF FirstCall, FirstOfVersions
  <2>4. versions = {}
    BY <2>3 DEF IInv, TypeOK, CloudOK
  <2>. QED  BY <2>1, <2>4 DEF cloud
<1>4. ~CreateAlias(p) /\ ~UpdateAlias(p)
  BY <1>1, <1>2 DEF CreateAlias, UpdateAlias, PointAlias, AfterDeploy
<1>5. ~DescribeCurrentAlias(p)
  BY MyFacts DEF DescribeCurrentAlias, Phase
<1>6. CASE ListVersions(p)
  <2>1. ChoosePurge(p, versions) /\ UNCHANGED cloud
    BY <1>6 DEF ListVersions, Listings
  <2>2. Purgeable(versions, opt[p].keep, mem[p].seen) = {}
    BY <1>1, <2>1 DEF ChoosePurge
  <2>3. versions' = versions
    BY <2>1 DEF cloud
  <2>. QED  BY <1>2, <2>2, <2>3, ChoosesAll
<1>7. CASE DeleteVersion(p) \/ SkipReferenced(p) \/ DeleteFails(p)
           \/ (DeleteAgain(p) /\ LastTry(p))
  <2>1. PICK bad : DeletionEnds(p, bad)
    BY <1>7, DeletionCases
  <2>2. ~bad /\ mem[p].todo \ {Victim(p)} = {}
    BY <2>1, NextVictimGoes DEF DeletionEnds
  <2>. QED  BY <2>1, <2>2, DeletionLeaves DEF DeletionEnds
<1>8. ~(DeleteAgain(p) /\ ~LastTry(p))
  BY <1>1 DEF DeleteAgain
<1>. QED  BY <1>3, <1>4, <1>5, <1>6, <1>7, <1>8, EndsWell

-----------------------------------------------------------------------------
(* One command at a time *)

OneProcess == \A p, q \in Procs : p = q

NoOperator == "operator" \notin Faults

Sparing == \A p \in Procs : Spares(pc[p], opt[p], mem[p])

Informs == \A p \in Procs : Informed(pc[p], opt[p], mem[p])

(* While a process runs alone the steps are its own, or the environment's. *)
LEMMA OneWorks ==
  ASSUME OneProcess, [Next]_vars, NEW p \in Procs, Running(p)
  PROVE  \/ Work(p) \/ Crash(p)
         \/ \E a \in Aliases : ShiftTraffic(a)
         \/ UNCHANGED <<published, versions, routing, pc, opt, mem>>
<1>1. pc[p] \notin Ended
  BY DEF Running, Calls, Ended
<1>2. \A q \in Procs, o \in Options : ~Start(q, o)
  BY <1>1 DEF OneProcess, Start
<1>3. DeletionStarts \/ UNCHANGED vars =>
        UNCHANGED <<published, versions, routing, pc, opt, mem>>
  BY DEF DeletionStarts, vars
<1>. QED  BY <1>2, <1>3 DEF OneProcess, Next

LEMMA SparingNext ==
  ASSUME OneProcess, IInv, Sparing, [Next]_vars
  PROVE  Sparing'
<1>1. ASSUME NEW p \in Procs, NEW o \in Options, Start(p, o) PROVE Sparing'
  <2>1. pc'[p] = "DescribeStateMachine"
    BY <1>1 DEF Start, IInv, TypeOK, ProcsOK
  <2>. QED  BY <2>1 DEF OneProcess, Sparing, Spares
<1>2. ASSUME NEW p \in Procs, Work(p) \/ Crash(p) PROVE Sparing'
  BY <1>2, WorkSpares DEF OneProcess, Sparing
<1>3. ASSUME UNCHANGED <<versions, pc, opt, mem>> PROVE Sparing'
  BY <1>3 DEF Sparing, Spares
<1>4. (\E a \in Aliases : ShiftTraffic(a)) \/ DeletionStarts \/ UNCHANGED vars =>
        UNCHANGED <<versions, pc, opt, mem>>
  BY DEF ShiftTraffic, DeletionStarts, vars
<1>. QED  BY <1>1, <1>2, <1>3, <1>4 DEF Next

LEMMA InformsInit == Init => Informs
BY DEF Init, Informs, Informed, Released, GoesBack, Ended, Calls, Pointing, Purging, Looking

LEMMA InformsNext ==
  ASSUME OneProcess, NoOperator, IInv, Informs, [Next]_vars
  PROVE  Informs'
<1>1. ASSUME NEW p \in Procs, NEW o \in Options, Start(p, o) PROVE Informs'
  <2>1. /\ pc'[p] = "DescribeStateMachine" /\ opt'[p] = o /\ mem'[p] = mem[p]
        /\ pc[p] \in Ended
    BY <1>1 DEF Start, IInv, TypeOK, ProcsOK
  <2>2. mem'[p] = Fresh
    BY <2>1 DEF Informs, Informed
  <2>3. Informed(pc[p], opt[p], mem[p])'
    BY <2>1, <2>2 DEF Informed, Released, GoesBack, Pointing, Purging, Looking
  <2>. QED  BY <2>3 DEF OneProcess, Informs
<1>2. ASSUME NEW p \in Procs, Work(p) \/ Crash(p) PROVE Informs'
  BY <1>2, WorkInforms DEF OneProcess, Informs
<1>3. ASSUME UNCHANGED <<published, versions, routing, pc, opt, mem>> PROVE Informs'
  BY <1>3 DEF Informs, Informed, Released, GoesBack
<1>4. /\ \A a \in Aliases : ~ShiftTraffic(a)
      /\ DeletionStarts \/ UNCHANGED vars =>
           UNCHANGED <<published, versions, routing, pc, opt, mem>>
  BY DEF NoOperator, ShiftTraffic, DeletionStarts, vars
<1>. QED  BY <1>1, <1>2, <1>3, <1>4 DEF Next

LEMMA OneInformed ==
  ASSUME OneProcess, NoOperator
  PROVE  Spec => [](IInv /\ Informs)
<1>1. Init => IInv /\ Informs
  BY InitInv, InformsInit
<1>2. IInv /\ Informs /\ [Next]_vars => (IInv /\ Informs)'
  BY NextInv, InformsNext
<1>. QED  BY <1>1, <1>2, PTL DEF Spec

(* One command at a time, a purge deletes a version only while as many     *)
(* newer ones remain as it was told to keep, whatever failed before it,    *)
(* was left out of its listing or was done to the aliases meanwhile        *)
(* (sfn_service.go:466-502).                                               *)
THEOREM PurgesKeep ==
  ASSUME OneProcess
  PROVE  Spec => PurgeKeepsLatest
<1>1. Init => IInv /\ Sparing
  <2>1. Init => Sparing
    BY DEF Init, Sparing, Spares
  <2>. QED  BY <2>1, InitInv
<1>2. IInv /\ Sparing /\ [Next]_vars => (IInv /\ Sparing)'
  BY NextInv, SparingNext
<1>3. Spec => [](IInv /\ Sparing)
  BY <1>1, <1>2, PTL DEF Spec
<1>4. IInv /\ Sparing /\ [Next]_vars =>
        [\A p \in Procs :
           pc[p] = "DeleteVersion" /\ opt[p].op # "rollback" /\ versions' # versions =>
             Position(Victim(p), versions) >= opt[p].keep]_vars
  BY DEF Sparing, Spares, Victim
<1>. QED  BY <1>3, <1>4, PTL DEF Spec, PurgeKeepsLatest

Leaving == \A p \in Procs : LeavesOnly(pc[p], opt[p], mem[p])

LEMMA LeavingNext ==
  ASSUME OneProcess, NoOperator, "list" \notin Faults, IInv, Leaving, [Next]_vars
  PROVE  Leaving'
<1>1. ASSUME NEW p \in Procs, NEW o \in Options, Start(p, o) PROVE Leaving'
  <2>1. pc'[p] = "DescribeStateMachine"
    BY <1>1 DEF Start, IInv, TypeOK, ProcsOK
  <2>. QED  BY <2>1 DEF OneProcess, Leaving, LeavesOnly
<1>2. ASSUME NEW p \in Procs, Work(p) \/ Crash(p) PROVE Leaving'
  BY <1>2, WorkLeaves DEF OneProcess, Leaving
<1>3. ASSUME UNCHANGED <<versions, routing, pc, opt, mem>> PROVE Leaving'
  BY <1>3 DEF Leaving, LeavesOnly, MayStay, Referencing
<1>4. /\ \A a \in Aliases : ~ShiftTraffic(a)
      /\ DeletionStarts \/ UNCHANGED vars => UNCHANGED <<versions, routing, pc, opt, mem>>
  BY DEF NoOperator, ShiftTraffic, DeletionStarts, vars
<1>. QED  BY <1>1, <1>2, <1>3, <1>4 DEF Next

(* One command at a time, no traffic shifted by hand and every listed      *)
(* version described, a purge that ends well has deleted every version     *)
(* older than those it was told to keep, but for those an alias is on: of  *)
(* several deletions each one that failed is reported                      *)
(* (sfn_service.go:466-502, 586-628).                                      *)
THEOREM PurgesComplete ==
  ASSUME OneProcess, NoOperator, "list" \notin Faults
  PROVE  Spec => PurgeCompletes
<1>1. Init => IInv /\ Leaving
  <2>1. Init => Leaving
    BY DEF Init, Leaving, LeavesOnly
  <2>. QED  BY <2>1, InitInv
<1>2. IInv /\ Leaving /\ [Next]_vars => (IInv /\ Leaving)'
  BY NextInv, LeavingNext
<1>3. Spec => [](IInv /\ Leaving)
  BY <1>1, <1>2, PTL DEF Spec
<1>4. ASSUME IInv, Leaving, [Next]_vars, NEW p \in Procs, Ends(p, "ok")
      PROVE  Work(p) \/ Crash(p)
  <2>1. pc'[p] # pc[p]
    BY <1>4 DEF Ends, Running, Calls
  <2>. QED  BY <1>4, <2>1, OneWorks DEF Ends, NoOperator, ShiftTraffic
<1>5. IInv /\ Leaving /\ [Next]_vars =>
        [\A p \in Procs :
           /\ Ends(p, "ok") /\ opt[p].op # "rollback" /\ ~opt[p].dryRun /\ opt[p].keep > 0
           => \A v \in versions' : MayStay(v, versions', opt[p].keep, mem[p].seen)]_vars
  BY <1>4, PurgeEnds DEF Leaving, Ends
<1>. QED  BY <1>3, <1>5, PTL DEF Spec, PurgeCompletes

(* One command at a time and no traffic shifted by hand, a deploy that     *)
(* ends well leaves its alias on the newest release, whatever failed or    *)
(* was killed before it (deploy.go:100-134).                               *)
THEOREM DeploysRelease ==
  ASSUME OneProcess, NoOperator
  PROVE  Spec => DeployReleases
<1>1. ASSUME IInv, Informs, [Next]_vars, NEW p \in Procs, Ends(p, "ok")
      PROVE  Work(p) \/ Crash(p)
  <2>1. pc'[p] # pc[p]
    BY <1>1 DEF Ends, Running, Calls
  <2>. QED  BY <1>1, <2>1, OneWorks DEF Ends, NoOperator, ShiftTraffic
<1>2. IInv /\ Informs /\ [Next]_vars =>
        [\A p \in Procs :
           Ends(p, "ok") /\ opt[p].op = "deploy" /\ ~opt[p].dryRun =>
             published \in versions' /\ routing'[MyAlias(p)] = {published}]_vars
  BY <1>1, InformedDeployEnds DEF Informs, Ends
<1>. QED  BY <1>2, OneInformed, PTL DEF Spec, DeployReleases

(* One command at a time and no traffic shifted by hand, a rollback that   *)
(* ends well has its alias on an older release and has deleted the one it  *)
(* left, unless told to keep it or it is in use (sfn_service.go:556-583).  *)
THEOREM RollbacksEnd ==
  ASSUME OneProcess, NoOperator
  PROVE  Spec => RollbackOutcome
<1>1. ASSUME IInv, Informs, [Next]_vars, NEW p \in Procs, Ends(p, "ok")
      PROVE  Work(p) \/ Crash(p)
  <2>1. pc'[p] # pc[p]
    BY <1>1 DEF Ends, Running, Calls
  <2>. QED  BY <1>1, <2>1, OneWorks DEF Ends, NoOperator, ShiftTraffic
<1>2. IInv /\ Informs /\ [Next]_vars =>
        [\A p \in Procs :
           Ends(p, "ok") /\ opt[p].op = "rollback" /\ mem[p].target # 0 =>
             /\ mem[p].target < Current(p)
             /\ routing'[MyAlias(p)] = {mem[p].target}
             /\ \/ opt[p].keepVersion \/ TargetShared(p)
                \/ Current(p) \notin versions'
                \/ Referencing(Current(p)) \ {MyAlias(p)} # {}]_vars
  BY <1>1, InformedRollbackEnds DEF Informs, Ends
<1>. QED  BY <1>2, OneInformed, PTL DEF Spec, RollbackOutcome

(* One command at a time, no traffic shifted by hand and every listed      *)
(* version described, an alias goes forward to the newest release or back  *)
(* by one existing release, whatever failed or crashed before              *)
(* (sfn_service.go:302-340, 540-563).                                      *)
THEOREM AliasesMove ==
  ASSUME OneProcess, NoOperator, "list" \notin Faults
  PROVE  Spec => AliasMovesByOneRelease
<1>1. ASSUME IInv, Informs, [Next]_vars, NEW a \in Aliases, routing'[a] # routing[a]
      PROVE  \/ routing'[a] = {published}
             \/ routing'[a] = {Max({v \in versions : v < Max(routing[a])})}
  <2>1. PICK p \in Procs : Work(p) \/ Crash(p)
    BY <1>1 DEF Next, Start, cloud, NoOperator, ShiftTraffic, DeletionStarts, vars
  <2>. QED  BY <1>1, <2>1, InformedPoints DEF Informs
<1>2. IInv /\ Informs /\ [Next]_vars =>
        [\A a \in Aliases : routing'[a] # routing[a] =>
           \/ routing'[a] = {published}
           \/ routing'[a] = {Max({v \in versions : v < Max(routing[a])})}]_vars
  BY <1>1
<1>. QED  BY <1>2, OneInformed, PTL DEF Spec, AliasMovesByOneRelease

=============================================================================
