--------------------------- MODULE TemplateProofs ---------------------------
(***************************************************************************)
(* Proofs about the operators of Templates: what they return for every     *)
(* text.  An operator that goes through a text is a recursive function in  *)
(* it; what such a function gives is proved from a least counterexample,   *)
(* which is there because a set of numbers has a least element.            *)
(***************************************************************************)
EXTENDS Templates, WellFoundedInduction, SequenceTheorems, FiniteSetTheorems, TLAPS

-----------------------------------------------------------------------------
(* Induction *)

(* What induction over the numbers rests on: a set of numbers has a least  *)
(* one.                                                                    *)
Less == {p \in Nat \X Nat : p[1] < p[2]}

LEMMA LessIsWellFounded == IsWellFoundedOn(Less, Nat)
BY NatLessThanWellFounded DEF OpToRel, Less

LEMMA LeastNumber ==
  ASSUME NEW S, S \subseteq Nat, S # {}
  PROVE  \E n \in S : \A m \in S : n <= m
<1>1. PICK n \in S : \A m \in S : <<m, n>> \notin Less
  BY LessIsWellFounded, WFMin
<1>2. ASSUME NEW m \in S PROVE n <= m
  <2>1. m \in Nat /\ n \in Nat /\ <<m, n>> \notin Less
    BY <1>1
  <2>2. ~(m < n)
    BY <2>1 DEF Less
  <2>. QED  BY <2>1, <2>2
<1>. QED  BY <1>2

(* What holds of 0, and of every number after one it holds of, holds up to *)
(* n.                                                                      *)
LEMMA Induction ==
  ASSUME NEW n \in Nat, NEW T, 0 \in T, \A i \in 1..n : i - 1 \in T => i \in T
  PROVE  0..n \subseteq T
<1> SUFFICES ASSUME (0..n) \ T # {} PROVE FALSE
  OBVIOUS
<1>1. PICK i \in (0..n) \ T : \A j \in (0..n) \ T : i <= j
  <2>1. (0..n) \ T \subseteq Nat
    OBVIOUS
  <2>. QED  BY <2>1, LeastNumber
<1>2. i \in 1..n
  BY <1>1
<1>3. i - 1 \in 0..n /\ ~(i <= i - 1)
  BY <1>2
<1>4. i - 1 \in T
  BY <1>1, <1>3
<1>. QED  BY <1>1, <1>2, <1>4

(* From the end of a text to its beginning. *)
LEMMA Backwards ==
  ASSUME NEW n \in Nat, NEW T,
         \A i \in 1..n : (\A j \in (i + 1)..n : j \in T) => i \in T
  PROVE  1..n \subseteq T
<1> DEFINE S == {k \in 0..n : \A j \in (n + 1 - k)..n : j \in T}
<1>1. 0 \in S
  OBVIOUS
<1>2. ASSUME NEW k \in 1..n, k - 1 \in S PROVE k \in S
  <2>1. PICK i \in 1..n : i = n + 1 - k
    OBVIOUS
  <2>2. i + 1 = n + 1 - (k - 1)
    BY <2>1
  <2>3. \A j \in (i + 1)..n : j \in T
    BY <1>2, <2>2
  <2>4. i \in T
    BY <2>3
  <2>5. \A j \in i..n : j = i \/ j \in (i + 1)..n
    BY <2>1
  <2>. QED  BY <2>1, <2>3, <2>4, <2>5
<1> HIDE DEF S
<1>3. n \in S
  <2>1. 0..n \subseteq S
    BY <1>1, <1>2, Induction
  <2>. QED  BY <2>1
<1>. QED  BY <1>3 DEF S

(* The first position from i on that is in S, or the one after the last.   *)
LEMMA FirstPosition ==
  ASSUME NEW n \in Nat, NEW i \in 1..(n + 1), NEW S
  PROVE  \E j \in i..(n + 1) : (j <= n => j \in S) /\ \A k \in i..(j - 1) : k \notin S
<1> DEFINE C == {j \in i..(n + 1) : j <= n => j \in S}
<1>1. C \subseteq Nat /\ n + 1 \in C
  OBVIOUS
<1>2. PICK j \in C : \A m \in C : j <= m
  <2> HIDE DEF C
  <2>. QED  BY <1>1, LeastNumber
<1>3. \A k \in i..(j - 1) : k \notin S
  <2> SUFFICES ASSUME NEW k \in i..(j - 1), k \in S PROVE FALSE
    OBVIOUS
  <2>1. k \in C /\ ~(j <= k)
    OBVIOUS
  <2>. QED  BY <1>2, <2>1
<1>. QED  BY <1>2, <1>3

(* A function each of whose values is made of the one before.              *)
Iterates(f, n, base, step) ==
  f[0] = base /\ \A i \in 1..n : f[i] = step[i][f[i - 1]]

(* There is such a function. *)
LEMMA Iteration ==
  ASSUME NEW n \in Nat, NEW V, NEW base \in V, NEW step \in [1..n -> [V -> V]]
  PROVE  \E f \in [0..n -> V] : Iterates(f, n, base, step)
<1> DEFINE Is(f, m) == Iterates(f, m, base, step)
           T == {m \in 0..n : \E f \in [0..m -> V] : Is(f, m)}
<1>1. 0 \in T
  <2> DEFINE f == [i \in 0..0 |-> base]
  <2>1. f \in [0..0 -> V] /\ f[0] = base
    OBVIOUS
  <2> HIDE DEF f
  <2>2. Is(f, 0)
    BY <2>1 DEF Iterates
  <2> HIDE DEF Is
  <2>. QED  BY <2>1, <2>2
<1>2. ASSUME NEW m \in 1..n, m - 1 \in T PROVE m \in T
  <2>1. PICK f \in [0..(m - 1) -> V] : Is(f, m - 1)
    BY <1>2
  <2> DEFINE g == [i \in 0..m |-> IF i = m THEN step[m][f[m - 1]] ELSE f[i]]
  <2>2. m - 1 \in 0..(m - 1) /\ f[m - 1] \in V /\ step[m][f[m - 1]] \in V
    OBVIOUS
  <2>3. g \in [0..m -> V]
    BY <2>2
  <2>5. g[0] = base
    BY <2>1 DEF Iterates
  <2>6. ASSUME NEW i \in 1..m PROVE g[i] = step[i][g[i - 1]]
    <3>1. g[i - 1] = f[i - 1]
      OBVIOUS
    <3>2. CASE i = m
      BY <3>1, <3>2
    <3>3. CASE i # m
      <4>1. i \in 1..(m - 1) /\ g[i] = f[i]
        BY <3>3
      <4>. QED  BY <2>1, <3>1, <4>1 DEF Iterates
    <3>. QED  BY <3>2, <3>3
  <2> HIDE DEF g
  <2>4. Is(g, m)
    BY <2>5, <2>6 DEF Iterates
  <2> HIDE DEF Is
  <2>. QED  BY <2>3, <2>4
<1> HIDE DEF T
<1>3. n \in T
  <2>1. 0..n \subseteq T
    BY <1>1, <1>2, Induction
  <2>. QED  BY <2>1
<1>. QED  BY <1>3 DEF T

(* Or of a later one. *)
Chains(f, m, n, base, step, next) ==
  f[n + 1] = base /\ \A i \in m..n : f[i] = step[i][f[next[i]]]

(* There is one of those, too. *)
LEMMA Chain ==
  ASSUME NEW n \in Nat, NEW V, NEW base \in V, NEW step \in [1..n -> [V -> V]],
         NEW next, \A i \in 1..n : next[i] \in (i + 1)..(n + 1)
  PROVE  \E f \in [1..(n + 1) -> V] : Chains(f, 1, n, base, step, next)
<1> DEFINE Is(f, m) == Chains(f, m, n, base, step, next)
           T == {m \in 0..n : \E f \in [(n + 1 - m)..(n + 1) -> V] : Is(f, n + 1 - m)}
<1>1. 0 \in T
  <2> DEFINE f == [i \in (n + 1 - 0)..(n + 1) |-> base]
  <2>1. f \in [(n + 1 - 0)..(n + 1) -> V] /\ f[n + 1] = base
    OBVIOUS
  <2>2. (n + 1 - 0)..n = {}
    OBVIOUS
  <2> HIDE DEF f
  <2>3. Is(f, n + 1 - 0)
    BY <2>1, <2>2 DEF Chains
  <2> HIDE DEF Is
  <2>. QED  BY <2>1, <2>3
<1>2. ASSUME NEW m \in 1..n, m - 1 \in T PROVE m \in T
  <2>0. PICK k \in 1..n : k = n + 1 - m
    OBVIOUS
  <2>1. PICK f \in [(k + 1)..(n + 1) -> V] : Is(f, k + 1)
    <3>1. n + 1 - (m - 1) = k + 1
      BY <2>0
    <3>. QED  BY <1>2, <3>1
  <2> DEFINE g == [i \in k..(n + 1) |-> IF i = k THEN step[k][f[next[k]]] ELSE f[i]]
  <2>2. next[k] \in (k + 1)..(n + 1) /\ f[next[k]] \in V /\ step[k][f[next[k]]] \in V
    <3>1. next[k] \in (k + 1)..(n + 1)
      BY <2>0
    <3>. QED  BY <3>1
  <2>3. g \in [k..(n + 1) -> V]
    BY <2>2
  <2>4. g[n + 1] = base
    BY <2>0, <2>1 DEF Chains
  <2>5. ASSUME NEW i \in k..n PROVE g[i] = step[i][g[next[i]]]
    <3>1. next[i] \in (i + 1)..(n + 1) /\ i \in 1..n
      BY <2>0
    <3>2. g[next[i]] = f[next[i]]
      BY <3>1
    <3>3. CASE i = k
      BY <3>2, <3>3
    <3>4. CASE i # k
      <4>1. f[i] = step[i][f[next[i]]] /\ g[i] = f[i]
        <5>1. i \in (k + 1)..n
          BY <3>4
        <5>. QED  BY <2>1, <3>4, <5>1 DEF Chains
      <4>. QED  BY <3>2, <4>1
    <3>. QED  BY <3>3, <3>4
  <2> HIDE DEF g
  <2>6. Is(g, k)
    BY <2>4, <2>5 DEF Chains
  <2> HIDE DEF Is
  <2>. QED  BY <2>0, <2>3, <2>6
<1> HIDE DEF T
<1>3. n \in T
  <2>1. 0..n \subseteq T
    BY <1>1, <1>2, Induction
  <2>. QED  BY <2>1
<1>4. n + 1 - n = 1
  OBVIOUS
<1>. QED  BY <1>3, <1>4 DEF T

-----------------------------------------------------------------------------
(* Sequences *)

(* A function on 1..n is a sequence of length n. *)
LEMMA IsSequence ==
  ASSUME NEW n \in Nat, NEW V, NEW s \in [1..n -> V]
  PROVE  s \in Seq(V) /\ Len(s) = n
<1>1. s \in Seq(V)
  BY SeqDef, Zenon
<1>. QED  BY <1>1, LenProperties

(* A sequence is a function on 1..n. *)
LEMMA SeqIsFunction ==
  ASSUME NEW V, NEW s \in Seq(V)
  PROVE  /\ Len(s) \in Nat /\ s \in [1..Len(s) -> V]
         /\ DOMAIN s = 1..Len(s)
         /\ \A i \in 1..Len(s) : s[i] \in V
  BY LenProperties

(* Sequences of the same elements are the same. *)
LEMMA SameSequence ==
  ASSUME NEW V, NEW s \in Seq(V), NEW t \in Seq(V),
         Len(s) = Len(t), \A i \in 1..Len(s) : s[i] = t[i]
  PROVE  s = t
  BY SeqEqual

-----------------------------------------------------------------------------
(* Only *)

(* What Only keeps of the first i elements. *)
Keeps(kept, s, S) ==
  /\ kept[0] = <<>>
  /\ \A i \in 1..Len(s) :
       kept[i] = IF s[i] \in S THEN Append(kept[i - 1], s[i]) ELSE kept[i - 1]

LEMMA OnlyIteration ==
  ASSUME NEW V, NEW s \in Seq(V), NEW S
  PROVE  \E kept \in [0..Len(s) -> Seq(V \cap S)] :
           Only(s, S) = kept[Len(s)] /\ Keeps(kept, s, S)
<1> DEFINE n == Len(s)
           W == Seq(V \cap S)
           step == [i \in 1..n |-> [v \in W |-> IF s[i] \in S THEN Append(v, s[i]) ELSE v]]
<1>1. n \in Nat /\ \A i \in 1..n : s[i] \in V
  BY SeqIsFunction
<1>2. \A i \in 1..n : s[i] \in S => s[i] \in V \cap S
  BY <1>1
<1>3. step \in [1..n -> [W -> W]]
  BY <1>2, AppendProperties
<1>4. <<>> \in W
  OBVIOUS
<1>5. PICK f \in [0..n -> W] :
        f[0] = <<>> /\ \A i \in 1..n : f[i] = step[i][f[i - 1]]
  <2> DEFINE base == <<>>
  <2>1. base \in W
    BY <1>4
  <2> HIDE DEF step, W, n, base
  <2>2. \E f \in [0..n -> W] : Iterates(f, n, base, step)
    BY <1>1, <1>3, <2>1, Iteration
  <2>. QED  BY <2>2 DEF base, Iterates
<1>6. ASSUME NEW i \in 1..n
      PROVE  f[i] = IF s[i] \in S THEN Append(f[i - 1], s[i]) ELSE f[i - 1]
  <2>1. i - 1 \in 0..n
    BY <1>1
  <2>. QED  BY <1>5, <2>1
<1> HIDE DEF step
<1> DEFINE Is(g) == g = [i \in 0..n |->
             CASE i = 0 -> <<>>
               [] i > 0 /\ s[i] \in S -> Append(g[i - 1], s[i])
               [] OTHER -> g[i - 1]]
           kept == CHOOSE g : Is(g)
<1>7. Is(f)
  <2>1. \A i \in 0..n : i # 0 => i \in 1..n /\ i > 0
    BY <1>1
  <2>2. ASSUME NEW i \in 0..n
        PROVE  f[i] =
             CASE i = 0 -> <<>>
               [] i > 0 /\ s[i] \in S -> Append(f[i - 1], s[i])
               [] OTHER -> f[i - 1]
    <3>1. CASE i = 0
      BY <1>5, <3>1
    <3>2. CASE i # 0
      BY <1>6, <2>1, <3>2
    <3>. QED  BY <3>1, <3>2
  <2>. QED  BY <2>2
<1>8. Is(kept)
  <2> HIDE DEF Is
  <2>. QED  BY <1>7
<1>9. Only(s, S) = kept[n]
  BY Zenon DEF Only
<1>10. kept[0] = <<>>
  <2> HIDE DEF kept
  <2>. QED  BY <1>1, <1>8
<1>11. ASSUME NEW i \in 1..n
       PROVE  kept[i] = IF s[i] \in S THEN Append(kept[i - 1], s[i]) ELSE kept[i - 1]
  <2> HIDE DEF kept
  <2>1. i \in 0..n /\ i > 0 /\ i # 0
    BY <1>1
  <2>. QED  BY <1>8, <2>1
<1> HIDE DEF kept
<1>12. 0..n \subseteq {i \in 0..n : kept[i] = f[i]}
  <2> DEFINE T == {i \in 0..n : kept[i] = f[i]}
  <2>1. 0 \in T
    BY <1>1, <1>5, <1>10
  <2>2. ASSUME NEW i \in 1..n, i - 1 \in T PROVE i \in T
    BY <1>6, <1>11, <2>2
  <2> HIDE DEF T
  <2>. QED  BY <1>1, <2>1, <2>2, Induction DEF T
<1>13. kept \in [0..n -> W]
  BY <1>8, <1>12
<1>14. Keeps(kept, s, S)
  BY <1>10, <1>11 DEF Keeps
<1>. QED  BY <1>9, <1>13, <1>14

(* Only keeps elements of S, in a sequence. *)
LEMMA OnlyTyped ==
  ASSUME NEW V, NEW s \in Seq(V), NEW S
  PROVE  Only(s, S) \in Seq(V \cap S)
<1>1. Len(s) \in 0..Len(s)
  BY LenProperties
<1>. QED  BY <1>1, OnlyIteration

(* And loses none. *)
LEMMA OnlyFinds ==
  ASSUME NEW V, NEW s \in Seq(V), NEW S, NEW i \in 1..Len(s), s[i] \in S
  PROVE  Only(s, S) # <<>>
<1> DEFINE n == Len(s)
<1>0. n \in Nat /\ \A j \in 1..n : s[j] \in V
  BY SeqIsFunction
<1>1. PICK kept \in [0..n -> Seq(V \cap S)] :
           Only(s, S) = kept[n] /\ Keeps(kept, s, S)
  BY OnlyIteration
<1> DEFINE T == {j \in 0..n : i <= j => kept[j] # <<>>}
<1>2. 0 \in T
  BY <1>0
<1>3. ASSUME NEW j \in 1..n, j - 1 \in T PROVE j \in T
  <2>1. kept[j - 1] \in Seq(V \cap S)
    BY <1>0
  <2>2. CASE s[j] \in S
    <3>1. s[j] \in V \cap S /\ kept[j] = Append(kept[j - 1], s[j])
      BY <1>0, <1>1, <2>2 DEF Keeps
    <3>2. Append(kept[j - 1], s[j]) # <<>>
      <4> DEFINE W == V \cap S
      <4>1. kept[j - 1] \in Seq(W) /\ s[j] \in W
        BY <2>1, <3>1
      <4> HIDE DEF W
      <4>. QED  BY <4>1, AppendProperties
    <3>. QED  BY <3>1, <3>2
  <2>3. CASE s[j] \notin S
    <3>1. kept[j] = kept[j - 1] /\ i # j
      BY <1>1, <2>3 DEF Keeps
    <3>. QED  BY <1>0, <1>3, <3>1
  <2>. QED  BY <2>2, <2>3
<1> HIDE DEF T
<1>4. n \in T
  <2>1. 0..n \subseteq T
    BY <1>0, <1>2, <1>3, Induction
  <2>. QED  BY <1>0, <2>1
<1>. QED  BY <1>0, <1>1, <1>4 DEF T

-----------------------------------------------------------------------------
(* FlattenSeq *)

(* The concatenation of the first i texts. *)
Concatenates(f, t, n) == f[0] = <<>> /\ \A i \in 1..n : f[i] = f[i - 1] \o t[i]

LEMMA Concatenation ==
  ASSUME NEW n \in Nat, NEW V, NEW t \in [1..n -> Seq(V)]
  PROVE  \E f \in [0..n -> Seq(V)] : Concatenates(f, t, n)
<1> DEFINE W == Seq(V)
           step == [i \in 1..n |-> [v \in W |-> v \o t[i]]]
           base == <<>>
<1>1. base \in W
  OBVIOUS
<1>2. step \in [1..n -> [W -> W]]
  OBVIOUS
<1>3. PICK f \in [0..n -> W] : Iterates(f, n, base, step)
  <2> HIDE DEF step, W, base
  <2>. QED  BY <1>1, <1>2, Iteration
<1>4. ASSUME NEW i \in 1..n PROVE f[i] = f[i - 1] \o t[i]
  <2>1. i - 1 \in 0..n
    OBVIOUS
  <2>. QED  BY <1>3, <2>1 DEF Iterates
<1>. QED  BY <1>3, <1>4 DEF Concatenates, Iterates

(* FlattenSeq is the concatenation of all of them. *)
LEMMA FlattenSeqIs ==
  ASSUME NEW n \in Nat, NEW V, NEW seqs \in Seq(Seq(V)), Len(seqs) = n,
         NEW f \in [0..n -> Seq(V)], Concatenates(f, seqs, n)
  PROVE  FlattenSeq(seqs) = f[n]
<1>1. CASE n = 0
  <2>1. seqs = <<>>
    BY <1>1, EmptySeq
  <2>. QED  BY <1>1, <2>1 DEF FlattenSeq, Concatenates
<1>2. CASE n # 0
  <2> DEFINE Is(g) == g = [i \in 1..Len(seqs) |->
                             IF i = 1 THEN seqs[i] ELSE g[i - 1] \o seqs[i]]
             flatten == CHOOSE g : Is(g)
             h == [i \in 1..Len(seqs) |-> f[i]]
  <2>0. \A i \in 1..n : seqs[i] \in Seq(V) /\ f[i] \in Seq(V)
    BY SeqIsFunction
  <2>1. FlattenSeq(seqs) = flatten[n]
    BY <1>2, Zenon DEF FlattenSeq
  <2>2. Is(h)
    <3>1. ASSUME NEW i \in 1..Len(seqs)
          PROVE  h[i] = IF i = 1 THEN seqs[i] ELSE h[i - 1] \o seqs[i]
      <4>1. f[i] = f[i - 1] \o seqs[i] /\ f[0] = <<>>
        BY DEF Concatenates
      <4>2. CASE i = 1
        <5>1. f[1] = <<>> \o seqs[1]
          <6>1. i - 1 = 0
            BY <4>2
          <6>. QED  BY <4>1, <4>2, <6>1
        <5>2. <<>> \o seqs[1] = seqs[1]
          BY <2>0, <4>2
        <5>. QED  BY <4>2, <5>1, <5>2
      <4>3. CASE i # 1
        <5>1. i - 1 \in 1..Len(seqs)
          BY <4>3
        <5>2. h[i - 1] = f[i - 1] /\ h[i] = f[i]
          BY <5>1
        <5>. QED  BY <4>1, <4>3, <5>2
      <4>. QED  BY <4>2, <4>3
    <3>. QED  BY <3>1
  <2>3. Is(flatten)
    <3> HIDE DEF Is
    <3>. QED  BY <2>2
  <2> HIDE DEF flatten
  <2> DEFINE T == {i \in 0..n : i # 0 => flatten[i] = f[i]}
  <2>4. 0 \in T
    OBVIOUS
  <2>5. ASSUME NEW i \in 1..n, i - 1 \in T PROVE i \in T
    <3>1. flatten[i] = IF i = 1 THEN seqs[i] ELSE flatten[i - 1] \o seqs[i]
      BY <2>3
    <3>2. h[i] = IF i = 1 THEN seqs[i] ELSE h[i - 1] \o seqs[i]
      BY <2>2
    <3>3. i # 1 => h[i - 1] = f[i - 1] /\ flatten[i - 1] = f[i - 1]
      BY <2>5
    <3>4. h[i] = f[i]
      OBVIOUS
    <3> HIDE DEF h
    <3>5. flatten[i] = f[i]
      BY <3>1, <3>2, <3>3, <3>4
    <3>. QED  BY <3>5
  <2> HIDE DEF T
  <2>6. n \in T
    <3>1. 0..n \subseteq T
      BY <2>4, <2>5, Induction
    <3>. QED  BY <3>1
  <2>. QED  BY <1>2, <2>1, <2>6 DEF T
<1>. QED  BY <1>1, <1>2

(* What the first m of n texts are in one. *)
Grows(f, t, n) ==
  Concatenates(f, t, n) /\ \A m \in 0..n : FlattenSeq([i \in 1..m |-> t[i]]) = f[m]

LEMMA FlattenPrefix ==
  ASSUME NEW n \in Nat, NEW V, NEW t \in [1..n -> Seq(V)]
  PROVE  \E f \in [0..n -> Seq(V)] : Grows(f, t, n)
<1>1. PICK f \in [0..n -> Seq(V)] : Concatenates(f, t, n)
  BY Concatenation
<1>2. ASSUME NEW m \in 0..n PROVE FlattenSeq([i \in 1..m |-> t[i]]) = f[m]
  <2> DEFINE u == [i \in 1..m |-> t[i]]
             g == [i \in 0..m |-> f[i]]
  <2>1. u \in [1..m -> Seq(V)] /\ g \in [0..m -> Seq(V)]
    OBVIOUS
  <2>2. Concatenates(g, u, m)
    <3>1. g[0] = <<>>
      BY <1>1 DEF Concatenates
    <3>2. ASSUME NEW i \in 1..m PROVE g[i] = g[i - 1] \o u[i]
      <4>1. i \in 1..n /\ i \in 0..m /\ i - 1 \in 0..m
        OBVIOUS
      <4>2. f[i] = f[i - 1] \o t[i]
        BY <1>1, <4>1 DEF Concatenates
      <4>. QED  BY <4>1, <4>2
    <3> HIDE DEF g, u
    <3>. QED  BY <3>1, <3>2 DEF Concatenates
  <2>3. g[m] = f[m]
    OBVIOUS
  <2> HIDE DEF u, g
  <2>4. u \in Seq(Seq(V)) /\ Len(u) = m
    BY <2>1, IsSequence
  <2>5. FlattenSeq(u) = g[m]
    <3>1. m \in Nat
      OBVIOUS
    <3>. QED  BY <2>1, <2>2, <2>4, <3>1, FlattenSeqIs
  <2>. QED  BY <2>3, <2>5, Zenon DEF u
<1>3. Grows(f, t, n)
  BY <1>1, <1>2 DEF Grows
<1>. QED  BY <1>3

LEMMA FlattenNothing == FlattenSeq(<<>>) = <<>>
BY DEF FlattenSeq

(* Sequences of V make a sequence of V. *)
LEMMA FlattenTyped ==
  ASSUME NEW V, NEW seqs \in Seq(Seq(V))
  PROVE  FlattenSeq(seqs) \in Seq(V)
<1> DEFINE n == Len(seqs)
<1>1. n \in Nat /\ seqs \in [1..n -> Seq(V)]
  BY SeqIsFunction
<1> HIDE DEF n
<1>2. PICK f \in [0..n -> Seq(V)] : Concatenates(f, seqs, n)
  BY <1>1, Concatenation
<1>3. FlattenSeq(seqs) = f[n]
  BY <1>1, <1>2, FlattenSeqIs DEF n
<1>. QED  BY <1>1, <1>3

(* One more text is added at the end. *)
LEMMA FlattenAppend ==
  ASSUME NEW V, NEW seqs \in Seq(Seq(V)), NEW x \in Seq(V)
  PROVE  FlattenSeq(Append(seqs, x)) = FlattenSeq(seqs) \o x
<1> DEFINE n == Len(seqs)
           t == Append(seqs, x)
<1>1. n \in Nat /\ t \in Seq(Seq(V)) /\ Len(t) = n + 1 /\ t[n + 1] = x
      /\ \A i \in 1..n : t[i] = seqs[i]
  <2> DEFINE W == Seq(V)
  <2>1. seqs \in Seq(W) /\ x \in W
    OBVIOUS
  <2> HIDE DEF W
  <2>2. t \in Seq(W) /\ Len(t) = n + 1 /\ t[n + 1] = x /\ \A i \in 1..n : t[i] = seqs[i]
    BY <2>1, AppendProperties
  <2>3. n \in Nat
    BY <2>1, LenProperties
  <2>. QED  BY <2>2, <2>3 DEF W
<1>2. Len(seqs) = n
  OBVIOUS
<1> HIDE DEF t, n
<1>3. t \in [1..(n + 1) -> Seq(V)] /\ n + 1 \in Nat
  BY <1>1, SeqIsFunction
<1>4. PICK f \in [0..(n + 1) -> Seq(V)] : Concatenates(f, t, n + 1)
  BY <1>3, Concatenation
<1> DEFINE g == [i \in 0..n |-> f[i]]
<1>5. g \in [0..n -> Seq(V)] /\ g[n] = f[n]
  BY <1>1
<1>6. Concatenates(g, seqs, n)
  <2>1. g[0] = <<>>
    BY <1>1, <1>4 DEF Concatenates
  <2>2. ASSUME NEW i \in 1..n PROVE g[i] = g[i - 1] \o seqs[i]
    <3>1. i \in 1..(n + 1) /\ i \in 0..n /\ i - 1 \in 0..n
      BY <1>1
    <3>2. f[i] = f[i - 1] \o t[i]
      BY <1>4, <3>1 DEF Concatenates
    <3>. QED  BY <1>1, <3>1, <3>2
  <2> HIDE DEF g
  <2>. QED  BY <2>1, <2>2 DEF Concatenates
<1>7. f[n + 1] = f[n] \o x
  <2>1. n + 1 \in 1..(n + 1) /\ (n + 1) - 1 = n
    BY <1>1
  <2>2. f[n + 1] = f[(n + 1) - 1] \o t[n + 1]
    BY <1>4, <2>1 DEF Concatenates
  <2>. QED  BY <1>1, <2>1, <2>2
<1> HIDE DEF g
<1>8. FlattenSeq(seqs) = g[n]
  BY <1>1, <1>2, <1>5, <1>6, FlattenSeqIs
<1>9. FlattenSeq(t) = f[n + 1]
  BY <1>1, <1>3, <1>4, FlattenSeqIs
<1>. QED  BY <1>5, <1>7, <1>8, <1>9 DEF t

-----------------------------------------------------------------------------
(* Join *)

(* Join puts a mark before every text, and drops the first mark. *)
Marked(parts, mark) == [i \in DOMAIN parts |-> <<mark>> \o parts[i]]

LEMMA MarkedTyped ==
  ASSUME NEW V, NEW mark \in V, NEW parts \in Seq(Seq(V))
  PROVE  /\ Marked(parts, mark) \in Seq(Seq(V))
         /\ Len(Marked(parts, mark)) = Len(parts)
         /\ Marked(parts, mark) \in [1..Len(parts) -> Seq(V)]
         /\ \A i \in 1..Len(parts) : Marked(parts, mark)[i] = <<mark>> \o parts[i]
<1>1. Len(parts) \in Nat /\ DOMAIN parts = 1..Len(parts)
      /\ \A i \in 1..Len(parts) : parts[i] \in Seq(V)
  BY SeqIsFunction
<1>2. Marked(parts, mark) \in [1..Len(parts) -> Seq(V)]
  BY <1>1 DEF Marked
<1>. QED  BY <1>1, <1>2, IsSequence DEF Marked

LEMMA TailOf ==
  ASSUME NEW V, NEW m \in V, NEW a \in Seq(V)
  PROVE  Tail(<<m>> \o a) = a
  OBVIOUS

(* A single text has no mark. *)
LEMMA JoinOne ==
  ASSUME NEW V, NEW mark \in V, NEW p \in Seq(V)
  PROVE  Join(<<p>>, mark) = p
<1>1. Marked(<<p>>, mark) = <<<<mark>> \o p>>
  <2> DEFINE W == Seq(V)
             w == <<mark>> \o p
  <2>1. <<p>> \in Seq(W) /\ Len(<<p>>) = 1 /\ <<p>>[1] = p /\ w \in W
    OBVIOUS
  <2>2. Marked(<<p>>, mark) \in Seq(W) /\ Len(Marked(<<p>>, mark)) = 1
        /\ Marked(<<p>>, mark)[1] = w
    <3> DEFINE q == <<p>>
    <3>1. q \in Seq(Seq(V)) /\ Len(q) = 1 /\ q[1] = p
      BY <2>1
    <3> HIDE DEF q
    <3>2. /\ Marked(q, mark) \in Seq(Seq(V)) /\ Len(Marked(q, mark)) = 1
          /\ Marked(q, mark)[1] = <<mark>> \o q[1]
      BY <3>1, MarkedTyped
    <3>. QED  BY <3>1, <3>2 DEF q
  <2> HIDE DEF W, w
  <2>3. <<w>> \in Seq(W) /\ Len(<<w>>) = 1 /\ <<w>>[1] = w
    BY <2>1
  <2>4. Marked(<<p>>, mark) = <<w>>
    BY <2>2, <2>3, SameSequence
  <2>. QED  BY <2>4 DEF w
<1>2. <<<<mark>> \o p>> = Append(<<>>, <<mark>> \o p) /\ <<>> \in Seq(Seq(V)) /\ <<mark>> \o p \in Seq(V)
  OBVIOUS
<1>3. FlattenSeq(Marked(<<p>>, mark)) = <<>> \o (<<mark>> \o p)
  BY <1>1, <1>2, FlattenAppend, FlattenNothing
<1>4. <<>> \o (<<mark>> \o p) = <<mark>> \o p
  OBVIOUS
<1>5. Join(<<p>>, mark) = Tail(FlattenSeq(Marked(<<p>>, mark)))
  BY Zenon DEF Join, Marked
<1>. QED  BY <1>3, <1>4, <1>5, TailOf

(* The joined texts are a text, and the first of its marks is the one      *)
(* dropped.                                                                *)
LEMMA JoinFacts ==
  ASSUME NEW V, NEW mark \in V, NEW parts \in Seq(Seq(V)), parts # <<>>
  PROVE  /\ Join(parts, mark) \in Seq(V)
         /\ FlattenSeq(Marked(parts, mark)) = <<mark>> \o Join(parts, mark)
<1> DEFINE all == FlattenSeq(Marked(parts, mark))
           n == Len(parts)
<1>1. /\ n \in Nat /\ n >= 1
      /\ Marked(parts, mark) \in Seq(Seq(V)) /\ Len(Marked(parts, mark)) = n
      /\ Marked(parts, mark) \in [1..n -> Seq(V)]
      /\ \A i \in 1..n : Marked(parts, mark)[i] = <<mark>> \o parts[i] /\ parts[i] \in Seq(V)
  BY MarkedTyped, SeqIsFunction, EmptySeq
<1>2. PICK f \in [0..n -> Seq(V)] : Concatenates(f, Marked(parts, mark), n)
  BY <1>1, Concatenation
<1>3. all = f[n]
  BY <1>1, <1>2, FlattenSeqIs
<1> HIDE DEF all, n
<1> DEFINE T == {k \in 0..n : k # 0 => Len(f[k]) >= 1 /\ f[k][1] = mark}
<1>4. 0 \in T
  BY <1>1
<1>5. ASSUME NEW k \in 1..n, k - 1 \in T PROVE k \in T
  <2>1. f[k] = f[k - 1] \o (<<mark>> \o parts[k]) /\ parts[k] \in Seq(V) /\ f[k - 1] \in Seq(V)
    <3>1. f[k] = f[k - 1] \o Marked(parts, mark)[k]
      BY <1>2 DEF Concatenates
    <3>2. k - 1 \in 0..n
      BY <1>1
    <3>. QED  BY <1>1, <3>1, <3>2
  <2>2. CASE k = 1
    <3>1. f[k - 1] = <<>>
      BY <1>2, <2>2 DEF Concatenates
    <3>2. f[k] = <<mark>> \o parts[k]
      BY <2>1, <3>1
    <3>. QED  BY <2>1, <3>2
  <2>3. CASE k # 1
    <3>1. Len(f[k - 1]) >= 1 /\ f[k - 1][1] = mark
      BY <1>5, <2>3
    <3> DEFINE a == f[k - 1]
               c == <<mark>> \o parts[k]
    <3>2. a \in Seq(V) /\ c \in Seq(V) /\ f[k] = a \o c /\ Len(a) >= 1 /\ a[1] = mark
      BY <2>1, <3>1
    <3> HIDE DEF a, c
    <3>. QED  BY <3>2
  <2>. QED  BY <2>2, <2>3
<1> HIDE DEF T
<1>6. n \in T
  <2>1. 0..n \subseteq T
    BY <1>1, <1>4, <1>5, Induction
  <2>. QED  BY <1>1, <2>1
<1>7. all \in Seq(V) /\ Len(all) >= 1 /\ all[1] = mark
  BY <1>1, <1>3, <1>6 DEF T
<1>8. Tail(all) \in Seq(V) /\ all = <<mark>> \o Tail(all)
  BY <1>7
<1>9. Join(parts, mark) = Tail(all)
  BY Zenon DEF Join, Marked, all
<1>. QED  BY <1>8, <1>9 DEF all

(* One more text follows a mark. *)
LEMMA JoinAppend ==
  ASSUME NEW V, NEW mark \in V, NEW parts \in Seq(Seq(V)), parts # <<>>, NEW b \in Seq(V)
  PROVE  Join(Append(parts, b), mark) = Join(parts, mark) \o <<mark>> \o b
<1> DEFINE q == Append(parts, b)
           w == <<mark>> \o b
<1>1. q \in Seq(Seq(V)) /\ q # <<>> /\ w \in Seq(V)
  OBVIOUS
<1>2. Marked(q, mark) = Append(Marked(parts, mark), w)
  <2> DEFINE W == Seq(V)
  <2>1. /\ Marked(parts, mark) \in Seq(W) /\ Len(Marked(parts, mark)) = Len(parts)
        /\ \A i \in 1..Len(parts) : Marked(parts, mark)[i] = <<mark>> \o parts[i]
        /\ Marked(q, mark) \in Seq(W) /\ Len(Marked(q, mark)) = Len(q)
        /\ \A i \in 1..Len(q) : Marked(q, mark)[i] = <<mark>> \o q[i]
    BY <1>1, MarkedTyped
  <2>2. parts \in Seq(W) /\ b \in W /\ w \in W
    BY <1>1
  <2>5. w = <<mark>> \o b
    OBVIOUS
  <2> HIDE DEF W, w
  <2>3. /\ Len(q) = Len(parts) + 1 /\ q[Len(parts) + 1] = b
        /\ \A i \in 1..Len(parts) : q[i] = parts[i]
        /\ Len(parts) \in Nat
    BY <2>2, AppendProperties, LenProperties
  <2> DEFINE m == Append(Marked(parts, mark), w)
  <2>4. /\ m \in Seq(W) /\ Len(m) = Len(parts) + 1 /\ m[Len(parts) + 1] = w
        /\ \A i \in 1..Len(parts) : m[i] = Marked(parts, mark)[i]
    BY <2>1, <2>2, AppendProperties
  <2> HIDE DEF m, q
  <2>6. ASSUME NEW i \in 1..Len(q) PROVE Marked(q, mark)[i] = m[i]
    <3>1. CASE i = Len(parts) + 1
      BY <2>1, <2>3, <2>4, <2>5, <3>1
    <3>2. CASE i # Len(parts) + 1
      <4>1. i \in 1..Len(parts)
        BY <2>3, <3>2
      <4>. QED  BY <2>1, <2>3, <2>4, <4>1
    <3>. QED  BY <3>1, <3>2
  <2>7. Marked(q, mark) = m
    BY <2>1, <2>3, <2>4, <2>6, SameSequence
  <2>. QED  BY <2>7 DEF m
<1>3. Marked(parts, mark) \in Seq(Seq(V))
  BY MarkedTyped
<1>4. FlattenSeq(Marked(q, mark)) = FlattenSeq(Marked(parts, mark)) \o w
  <2> HIDE DEF q, w
  <2>. QED  BY <1>1, <1>2, <1>3, FlattenAppend
<1> HIDE DEF q
<1>5. /\ FlattenSeq(Marked(q, mark)) = <<mark>> \o Join(q, mark) /\ Join(q, mark) \in Seq(V)
      /\ FlattenSeq(Marked(parts, mark)) = <<mark>> \o Join(parts, mark)
      /\ Join(parts, mark) \in Seq(V)
  BY <1>1, JoinFacts
<1> DEFINE j == Join(q, mark)
           k == Join(parts, mark)
<1>6. j \in Seq(V) /\ k \in Seq(V) /\ <<mark>> \o j = (<<mark>> \o k) \o w
  BY <1>4, <1>5
<1> HIDE DEF j, k
<1>7. (<<mark>> \o k) \o w = <<mark>> \o (k \o w) /\ k \o w \in Seq(V)
  <2> HIDE DEF w
  <2>. QED  BY <1>1, <1>6
<1>8. j = k \o w
  <2>1. Tail(<<mark>> \o j) = j /\ Tail(<<mark>> \o (k \o w)) = k \o w
    BY <1>6, <1>7, TailOf
  <2>. QED  BY <1>6, <1>7, <2>1
<1>9. k \o w = k \o <<mark>> \o b
  BY <1>6
<1>. QED  BY <1>8, <1>9 DEF j, k, q

-----------------------------------------------------------------------------
(* Split *)

(* The first mark from i on, or the end. *)
Cut(s, mark, i) == CHOOSE j \in i..(Len(s) + 1) :
  /\ j <= Len(s) => s[j] = mark
  /\ \A k \in i..(j - 1) : s[k] # mark

(* The parts of s from i on. *)
Parting(p, s, mark) ==
  \A i \in 1..(Len(s) + 1) :
    p[i] = IF Cut(s, mark, i) > Len(s) THEN <<SubSeq(s, i, Len(s))>>
           ELSE <<SubSeq(s, i, Cut(s, mark, i) - 1)>> \o p[Cut(s, mark, i) + 1]

LEMMA CutFacts ==
  ASSUME NEW V, NEW s \in Seq(V), NEW mark, NEW i \in 1..(Len(s) + 1)
  PROVE  /\ Cut(s, mark, i) \in i..(Len(s) + 1)
         /\ Cut(s, mark, i) <= Len(s) => s[Cut(s, mark, i)] = mark
         /\ \A k \in i..(Cut(s, mark, i) - 1) : s[k] # mark
<1> DEFINE n == Len(s)
           S == {j \in 1..n : s[j] = mark}
           Is(j) == (j <= n => s[j] = mark) /\ \A k \in i..(j - 1) : s[k] # mark
<1>1. n \in Nat
  BY LenProperties
<1>2. PICK j \in i..(n + 1) : (j <= n => j \in S) /\ \A k \in i..(j - 1) : k \notin S
  <2> HIDE DEF n, S
  <2>. QED  BY <1>1, FirstPosition DEF n
<1>3. Is(j)
  <2>1. \A k \in i..(j - 1) : k \in 1..n
    BY <1>1
  <2>. QED  BY <1>2, <2>1
<1>4. Is(CHOOSE l \in i..(n + 1) : Is(l)) /\ (CHOOSE l \in i..(n + 1) : Is(l)) \in i..(n + 1)
  <2> HIDE DEF Is, n
  <2>. QED  BY <1>3
<1>5. Cut(s, mark, i) = CHOOSE l \in i..(n + 1) : Is(l)
  BY Zenon DEF Cut
<1>. QED  BY <1>4, <1>5

(* The position after a text that is cut off: one on, or the end. *)
LEMMA PieceTyped ==
  ASSUME NEW V, NEW s \in Seq(V), NEW mark, NEW i \in 1..(Len(s) + 1), NEW j \in i..(Len(s) + 1),
         \A k \in i..(j - 1) : s[k] # mark
  PROVE  SubSeq(s, i, j - 1) \in Seq(V \ {mark})
<1>1. Len(s) \in Nat /\ \A k \in 1..Len(s) : s[k] \in V
  BY SeqIsFunction
<1>2. \A k \in i..(j - 1) : s[k] \in V \ {mark}
  BY <1>1
<1>. QED  BY <1>1, <1>2, SubSeqProperties

(* Split is the parts from 1 on. *)
LEMMA SplitParting ==
  ASSUME NEW V, NEW s \in Seq(V), NEW mark
  PROVE  \E p \in [1..(Len(s) + 1) -> Seq(Seq(V \ {mark})) \ {<<>>}] :
           Parting(p, s, mark) /\ Split(s, mark) = p[1]
<1> DEFINE n == Len(s)
           U == Seq(V \ {mark})
           W == Seq(U) \ {<<>>}
           c(i) == Cut(s, mark, i)
           base == <<SubSeq(s, n + 1, n)>>
           step == [i \in 1..n |-> [v \in W |->
                      IF c(i) > n THEN <<SubSeq(s, i, n)>>
                      ELSE <<SubSeq(s, i, c(i) - 1)>> \o v]]
           next == [i \in 1..n |-> IF c(i) > n THEN n + 1 ELSE c(i) + 1]
<1>1. n \in Nat
  BY LenProperties
<1>2. \A i \in 1..(n + 1) : /\ c(i) \in i..(n + 1)
                            /\ c(i) <= n => s[c(i)] = mark
                            /\ \A k \in i..(c(i) - 1) : s[k] # mark
  BY CutFacts
<1>3. ASSUME NEW i \in 1..(n + 1) PROVE SubSeq(s, i, c(i) - 1) \in U
  BY <1>2, PieceTyped
<1>4. ASSUME NEW i \in 1..(n + 1), c(i) > n PROVE SubSeq(s, i, n) \in U
  <2>1. c(i) - 1 = n
    BY <1>1, <1>2, <1>4
  <2>. QED  BY <1>3, <2>1
<1> HIDE DEF c, U
<1>5. base \in W
  <2>1. c(n + 1) > n
    BY <1>1, <1>2
  <2>2. SubSeq(s, n + 1, n) \in U
    BY <1>1, <1>4, <2>1
  <2>. QED  BY <2>2
<1>6. step \in [1..n -> [W -> W]]
  <2>1. ASSUME NEW i \in 1..n, NEW v \in W
        PROVE  (IF c(i) > n THEN <<SubSeq(s, i, n)>>
                ELSE <<SubSeq(s, i, c(i) - 1)>> \o v) \in W
    <3>0. i \in 1..(n + 1)
      BY <1>1
    <3>1. CASE c(i) > n
      <4>1. SubSeq(s, i, n) \in U
        BY <1>4, <3>0, <3>1
      <4>. QED  BY <3>1, <4>1
    <3>2. CASE ~(c(i) > n)
      <4> DEFINE x == SubSeq(s, i, c(i) - 1)
      <4>1. x \in U
        BY <1>3, <3>0
      <4> HIDE DEF x
      <4>2. v \in Seq(U)
        OBVIOUS
      <4>3. <<x>> \o v \in Seq(U) /\ Len(<<x>> \o v) = 1 + Len(v) /\ Len(v) \in Nat
        BY <4>1, <4>2
      <4>4. <<x>> \o v # <<>>
        BY <4>3
      <4>. QED  BY <3>2, <4>3, <4>4 DEF x
    <3>. QED  BY <3>1, <3>2
  <2>. QED  BY <2>1
<1>7. ASSUME NEW i \in 1..n PROVE next[i] \in (i + 1)..(n + 1)
  <2>1. c(i) \in i..(n + 1) /\ next[i] = IF c(i) > n THEN n + 1 ELSE c(i) + 1
    BY <1>1, <1>2
  <2> DEFINE x == c(i)
             y == next[i]
  <2>2. x \in i..(n + 1) /\ y = IF x > n THEN n + 1 ELSE x + 1
    BY <2>1
  <2> HIDE DEF x, y, n
  <2>3. y \in (i + 1)..(n + 1)
    BY <1>1, <2>2
  <2>. QED  BY <2>3 DEF y
<1>8. PICK p \in [1..(n + 1) -> W] : Chains(p, 1, n, base, step, next)
  <2> HIDE DEF n, W, base, step, next
  <2>. QED  BY <1>1, <1>5, <1>6, <1>7, Chain
<1>9. ASSUME NEW i \in 1..(n + 1)
      PROVE  p[i] = IF c(i) > n THEN <<SubSeq(s, i, n)>>
                    ELSE <<SubSeq(s, i, c(i) - 1)>> \o p[c(i) + 1]
  <2>1. CASE i = n + 1
    <3>1. c(i) > n
      BY <1>1, <1>2, <2>1
    <3>. QED  BY <1>8, <2>1, <3>1 DEF Chains
  <2>2. CASE i # n + 1
    <3>0. i \in 1..n /\ next[i] \in 1..(n + 1)
      BY <1>1, <1>7, <2>2
    <3>1. p[i] = step[i][p[next[i]]] /\ p[next[i]] \in W
      BY <1>8, <3>0 DEF Chains
    <3> DEFINE v == p[next[i]]
    <3>2. p[i] = IF c(i) > n THEN <<SubSeq(s, i, n)>> ELSE <<SubSeq(s, i, c(i) - 1)>> \o v
      <4>1. v \in W /\ p[i] = step[i][v]
        BY <3>1
      <4> HIDE DEF v
      <4>. QED  BY <3>0, <4>1
    <3>3. ~(c(i) > n) => v = p[c(i) + 1]
      BY <3>0
    <3>. QED  BY <3>2, <3>3
  <2>. QED  BY <2>1, <2>2
<1> HIDE DEF step, base, next
<1> DEFINE Is(g) == g = [i \in 1..(n + 1) |->
             IF c(i) > n THEN <<SubSeq(s, i, n)>>
             ELSE <<SubSeq(s, i, c(i) - 1)>> \o g[c(i) + 1]]
           parts == CHOOSE g : Is(g)
<1>10. Is(p)
  <2>1. p = [i \in 1..(n + 1) |-> p[i]]
    BY <1>8
  <2>. QED  BY <1>9, <2>1
<1>11. Is(parts)
  <2> HIDE DEF Is
  <2>. QED  BY <1>10
<1>12. Split(s, mark) = parts[1]
  BY Zenon DEF Split, c, Cut
<1> HIDE DEF parts
<1>13. \A i \in 1..(n + 1) :
         parts[i] = IF c(i) > n THEN <<SubSeq(s, i, n)>>
                    ELSE <<SubSeq(s, i, c(i) - 1)>> \o parts[c(i) + 1]
  BY <1>11
<1> HIDE DEF Is
<1> DEFINE T == {i \in 1..(n + 1) : parts[i] = p[i]}
<1>14. ASSUME NEW i \in 1..(n + 1), \A j \in (i + 1)..(n + 1) : j \in T PROVE i \in T
  <2>1. CASE c(i) > n
    BY <1>9, <1>13, <2>1
  <2>2. CASE ~(c(i) > n)
    <3>1. c(i) + 1 \in (i + 1)..(n + 1)
      BY <1>1, <1>2, <2>2
    <3>2. parts[c(i) + 1] = p[c(i) + 1]
      BY <1>14, <3>1
    <3>. QED  BY <1>9, <1>13, <2>2, <3>2
  <2>. QED  BY <2>1, <2>2
<1> HIDE DEF T
<1>15. 1..(n + 1) \subseteq T
  <2>1. n + 1 \in Nat
    BY <1>1
  <2>. QED  BY <1>14, <2>1, Backwards
<1>16. Split(s, mark) = p[1]
  <2>1. 1 \in T
    BY <1>1, <1>15
  <2>. QED  BY <1>12, <2>1 DEF T
<1>17. Parting(p, s, mark)
  BY <1>9 DEF Parting, c
<1>. QED  BY <1>8, <1>16, <1>17 DEF U

(* There is a part, and no mark in it. *)
LEMMA SplitTyped ==
  ASSUME NEW V, NEW s \in Seq(V), NEW mark
  PROVE  Split(s, mark) \in Seq(Seq(V \ {mark})) /\ Split(s, mark) # <<>>
<1>1. PICK p \in [1..(Len(s) + 1) -> Seq(Seq(V \ {mark})) \ {<<>>}] :
        Parting(p, s, mark) /\ Split(s, mark) = p[1]
  BY SplitParting
<1>2. 1 \in 1..(Len(s) + 1)
  BY LenProperties
<1>3. p[1] \in Seq(Seq(V \ {mark})) \ {<<>>}
  BY <1>2
<1>. QED  BY <1>1, <1>3

(* Where each of the texts that were joined begins. *)
Located(at, parts, s, mark) ==
  LET n == Len(parts) IN
  /\ at[1] = 1
  /\ at[n + 1] = Len(s) + 2
  /\ \A k \in 1..n : at[k + 1] <= Len(s) + 2
  /\ \A k \in 1..(n - 1) : at[k + 1] <= Len(s) + 1 /\ s[at[k + 1] - 1] = mark
  /\ \A k \in 1..n : at[k + 1] = at[k] + Len(parts[k]) + 1
  /\ \A k \in 1..n : \A q \in 1..Len(parts[k]) : s[at[k] + q - 1] = parts[k][q]

(* Every text is in the joined one, where it begins. *)
LEMMA JoinLocates ==
  ASSUME NEW V, NEW mark \in V, NEW P \in Seq(Seq(V)), P # <<>>
  PROVE  \E at \in [1..(Len(P) + 1) -> Nat] : Located(at, P, Join(P, mark), mark)
<1> DEFINE n == Len(P)
           s == Join(P, mark)
           M == Marked(P, mark)
<1>1. /\ n \in Nat /\ n >= 1
      /\ M \in Seq(Seq(V)) /\ Len(M) = n /\ M \in [1..n -> Seq(V)]
      /\ \A i \in 1..n : M[i] = <<mark>> \o P[i] /\ P[i] \in Seq(V)
  BY MarkedTyped, SeqIsFunction, EmptySeq
<1>2. PICK f \in [0..n -> Seq(V)] : Concatenates(f, M, n)
  BY <1>1, Concatenation
<1>3. FlattenSeq(M) = f[n]
  BY <1>1, <1>2, FlattenSeqIs
<1>4. s \in Seq(V) /\ f[n] = <<mark>> \o s
  BY <1>3, JoinFacts
<1> HIDE DEF n, s, M
<1>5. ASSUME NEW k \in 1..n
      PROVE  /\ f[k] \in Seq(V) /\ f[k - 1] \in Seq(V) /\ P[k] \in Seq(V)
             /\ Len(f[k]) \in Nat /\ Len(f[k - 1]) \in Nat /\ Len(P[k]) \in Nat
             /\ Len(f[k]) = Len(f[k - 1]) + 1 + Len(P[k])
             /\ \A x \in 1..Len(f[k - 1]) : f[k][x] = f[k - 1][x]
             /\ f[k][Len(f[k - 1]) + 1] = mark
             /\ \A q \in 1..Len(P[k]) : f[k][Len(f[k - 1]) + 1 + q] = P[k][q]
  <2>1. f[k] = f[k - 1] \o M[k]
    BY <1>2 DEF Concatenates
  <2>2. k - 1 \in 0..n /\ k \in 0..n
    BY <1>1
  <2> DEFINE a == f[k - 1]
             b == P[k]
             c == f[k]
  <2>3. a \in Seq(V) /\ b \in Seq(V) /\ c = a \o (<<mark>> \o b) /\ c \in Seq(V)
    BY <1>1, <2>1, <2>2
  <2> HIDE DEF a, b, c
  <2>4. /\ Len(a) \in Nat /\ Len(b) \in Nat /\ Len(c) \in Nat
        /\ Len(c) = Len(a) + 1 + Len(b)
        /\ \A x \in 1..Len(a) : c[x] = a[x]
        /\ c[Len(a) + 1] = mark
        /\ \A q \in 1..Len(b) : c[Len(a) + 1 + q] = b[q]
    <3> DEFINE d == <<mark>> \o b
    <3>1. d \in Seq(V) /\ Len(d) = 1 + Len(b) /\ d[1] = mark
          /\ \A q \in 1..Len(b) : d[1 + q] = b[q]
      BY <2>3
    <3>2. c = a \o d
      BY <2>3
    <3> HIDE DEF d
    <3>. QED  BY <2>3, <3>1, <3>2
  <2>. QED  BY <2>3, <2>4 DEF a, b, c
<1>5a. ASSUME NEW k \in 1..n
       PROVE  /\ Len(f[k]) \in Nat /\ Len(f[k - 1]) \in Nat /\ Len(P[k]) \in Nat
              /\ Len(f[k]) = Len(f[k - 1]) + 1 + Len(P[k])
              /\ k - 1 \in 0..n /\ k \in 0..n
  <2>1. k - 1 \in 0..n /\ k \in 0..n
    BY <1>1
  <2>. QED  BY <1>5, <2>1
<1> DEFINE L == [k \in 0..n |-> Len(f[k])]
           R == [k \in 1..n |-> Len(P[k])]
<1>6. ASSUME NEW k \in 1..n
      PROVE  /\ L[k] \in Nat /\ L[k - 1] \in Nat /\ R[k] \in Nat
             /\ L[k] = L[k - 1] + 1 + R[k]
             /\ f[k][L[k - 1] + 1] = mark
  <2>1. L[k] = Len(f[k]) /\ L[k - 1] = Len(f[k - 1]) /\ R[k] = Len(P[k])
    BY <1>5a
  <2> HIDE DEF L, R
  <2>. QED  BY <1>5, <1>5a, <2>1
<1>7. ASSUME NEW k \in 1..n
      PROVE  /\ \A x \in 1..L[k - 1] : f[k][x] = f[k - 1][x]
             /\ \A q \in 1..R[k] : f[k][L[k - 1] + 1 + q] = P[k][q]
  <2>1. L[k - 1] = Len(f[k - 1]) /\ R[k] = Len(P[k])
    BY <1>5a
  <2> HIDE DEF L, R
  <2>. QED  BY <1>5, <2>1
<1>8. /\ L[n] = Len(s) + 1 /\ Len(s) \in Nat
      /\ \A x \in 1..Len(s) : f[n][x + 1] = s[x]
      /\ L[0] = 0
  <2>1. f[0] = <<>>
    BY <1>2 DEF Concatenates
  <2>2. L[n] = Len(f[n]) /\ L[0] = Len(f[0])
    BY <1>1
  <2>. QED  BY <1>4, <2>1, <2>2
<1>9. \A k \in 1..n : R[k] = Len(P[k])
  OBVIOUS
<1> HIDE DEF L, R
<1>10. \A k \in 0..n : L[k] \in Nat
  <2>1. ASSUME NEW k \in 0..n PROVE L[k] \in Nat
    <3>1. CASE k = 0
      BY <1>8, <3>1
    <3>2. CASE k # 0
      <4>1. k \in 1..n
        BY <1>1, <3>2
      <4>. QED  BY <1>6, <4>1
    <3>. QED  BY <3>1, <3>2
  <2>. QED  BY <2>1
<1> DEFINE T == {d \in 0..n : L[n - d] <= L[n] /\ \A x \in 1..L[n - d] : f[n][x] = f[n - d][x]}
<1>11. 0 \in T
  <2>1. n - 0 = n /\ L[n] \in Nat
    BY <1>1, <1>10
  <2>. QED  BY <1>1, <2>1
<1>12. ASSUME NEW d \in 1..n, d - 1 \in T PROVE d \in T
  <2>1. PICK k \in 1..n : k = n - (d - 1) /\ k - 1 = n - d
    BY <1>1
  <2>2. L[k] <= L[n] /\ \A x \in 1..L[k] : f[n][x] = f[k][x]
    BY <1>12, <2>1
  <2>3. L[k] \in Nat /\ L[k - 1] \in Nat /\ L[n] \in Nat /\ L[k - 1] <= L[k]
    <3>1. n \in 0..n
      BY <1>1
    <3>2. L[k] = L[k - 1] + 1 + R[k] /\ L[k - 1] \in Nat /\ R[k] \in Nat
      BY <1>6
    <3>3. L[k - 1] <= L[k]
      BY <3>2
    <3>. QED  BY <1>6, <1>10, <3>1, <3>3
  <2>4. ASSUME NEW x \in 1..L[k - 1] PROVE f[n][x] = f[k - 1][x]
    <3>1. x \in 1..L[k]
      BY <2>3
    <3>. QED  BY <1>7, <2>2, <3>1
  <2>5. L[k - 1] <= L[n]
    BY <2>2, <2>3
  <2>. QED  BY <2>1, <2>4, <2>5
<1> HIDE DEF T
<1>13. ASSUME NEW k \in 0..n
       PROVE  L[k] <= L[n] /\ \A x \in 1..L[k] : f[n][x] = f[k][x]
  <2>1. n - k \in 0..n /\ n - (n - k) = k
    BY <1>1
  <2>2. 0..n \subseteq T
    BY <1>1, <1>11, <1>12, Induction
  <2>. QED  BY <2>1, <2>2 DEF T
<1> DEFINE at == [k \in 1..(n + 1) |-> L[k - 1] + 1]
<1>14. at \in [1..(n + 1) -> Nat]
  <2>1. \A k \in 1..(n + 1) : k - 1 \in 0..n
    BY <1>1
  <2>2. \A k \in 1..(n + 1) : L[k - 1] + 1 \in Nat
    BY <1>10, <2>1
  <2>. QED  BY <2>2
<1>15. \A k \in 1..n : at[k] = L[k - 1] + 1 /\ at[k + 1] = L[k] + 1
  <2>1. \A k \in 1..n : k \in 1..(n + 1) /\ k + 1 \in 1..(n + 1) /\ (k + 1) - 1 = k
    BY <1>1
  <2>. QED  BY <2>1
<1>16. at[1] = 1 /\ at[n + 1] = Len(s) + 2
  <2>1. 1 \in 1..(n + 1) /\ n + 1 \in 1..(n + 1) /\ 1 - 1 = 0 /\ (n + 1) - 1 = n
    BY <1>1
  <2>. QED  BY <1>8, <2>1
<1> HIDE DEF at
<1>17. ASSUME NEW k \in 1..n
       PROVE  at[k + 1] = at[k] + R[k] + 1 /\ at[k + 1] <= Len(s) + 2
  <2>1. L[k] <= L[n] /\ L[k] \in Nat /\ L[k - 1] \in Nat /\ R[k] \in Nat
        /\ L[k] = L[k - 1] + 1 + R[k]
    BY <1>6, <1>13
  <2>. QED  BY <1>8, <1>15, <2>1
<1>18. ASSUME NEW k \in 1..(n - 1)
       PROVE  at[k + 1] <= Len(s) + 1 /\ s[at[k + 1] - 1] = mark
  <2>1. k + 1 \in 1..n /\ k \in 1..n /\ (k + 1) - 1 = k /\ k \in 0..n /\ k + 1 \in 0..n
    BY <1>1
  <2>2. /\ L[k + 1] \in Nat /\ L[k] \in Nat /\ R[k + 1] \in Nat
        /\ L[k + 1] = L[k] + 1 + R[k + 1]
        /\ f[k + 1][L[k] + 1] = mark
    BY <1>6, <2>1
  <2>3. L[k + 1] <= L[n] /\ \A x \in 1..L[k + 1] : f[n][x] = f[k + 1][x]
    BY <1>13, <2>1
  <2>4. f[n][L[k] + 1] = mark /\ L[k] + 1 <= L[n]
    <3>1. L[n] \in Nat
      BY <1>1, <1>10
    <3>2. L[k] + 1 \in 1..L[k + 1] /\ L[k] + 1 <= L[n]
      BY <2>2, <2>3, <3>1
    <3>. QED  BY <2>2, <2>3, <3>2
  <2>5. L[k] # 0
    <3>1. L[k] = L[k - 1] + 1 + R[k] /\ L[k - 1] \in Nat /\ R[k] \in Nat
      BY <1>6, <2>1
    <3>. QED  BY <3>1
  <2>6. L[k] \in 1..Len(s) /\ f[n][L[k] + 1] = s[L[k]]
    <3>1. L[k] >= 1 /\ L[k] + 1 <= L[n] /\ L[k] \in Nat /\ L[n] \in Nat
      BY <1>1, <1>10, <2>2, <2>4, <2>5
    <3>2. L[k] \in 1..Len(s)
      BY <1>8, <3>1
    <3>. QED  BY <1>8, <2>4, <3>1, <3>2
  <2>7. at[k + 1] = L[k] + 1
    BY <1>15, <2>1
  <2>. QED  BY <1>8, <2>2, <2>4, <2>6, <2>7
<1>19. ASSUME NEW k \in 1..n, NEW q \in 1..R[k]
       PROVE  s[at[k] + q - 1] = P[k][q]
  <2>1. /\ L[k] <= L[n] /\ L[k] \in Nat /\ L[k - 1] \in Nat /\ R[k] \in Nat
        /\ L[k] = L[k - 1] + 1 + R[k]
    BY <1>6, <1>13
  <2>2. PICK x \in 1..Len(s) : x = L[k - 1] + q
    <3> DEFINE a == L[k - 1]
               b == L[k]
               m == Len(s)
               r == R[k]
    <3>1. a \in Nat /\ b \in Nat /\ r \in Nat /\ b = a + 1 + r /\ m \in Nat /\ b <= m + 1 /\ q \in 1..r
      BY <1>8, <2>1
    <3> HIDE DEF a, b, m, r
    <3>2. a + q \in 1..m
      BY <3>1
    <3>. QED  BY <3>2 DEF a, m
  <2>3. x + 1 \in 1..L[k] /\ x + 1 = L[k - 1] + 1 + q
    <3> DEFINE a == L[k - 1]
               b == L[k]
               r == R[k]
    <3>1. a \in Nat /\ b \in Nat /\ r \in Nat /\ b = a + 1 + r /\ q \in 1..r /\ x = a + q
      BY <2>1, <2>2
    <3> HIDE DEF a, b, r
    <3>2. x + 1 \in 1..b /\ x + 1 = a + 1 + q
      BY <3>1
    <3>. QED  BY <3>2 DEF a, b
  <2>4. f[n][x + 1] = P[k][q]
    <3>1. f[k][L[k - 1] + 1 + q] = P[k][q]
      BY <1>7
    <3>. QED  BY <1>13, <2>3, <3>1
  <2>5. at[k] + q - 1 = x
    BY <1>15, <2>1, <2>2
  <2>. QED  BY <1>8, <2>2, <2>4, <2>5
<1>20. ASSUME NEW k \in 1..n
       PROVE  /\ at[k + 1] = at[k] + Len(P[k]) + 1
              /\ \A q \in 1..Len(P[k]) : s[at[k] + q - 1] = P[k][q]
  <2>1. R[k] = Len(P[k])
    BY <1>9
  <2>. QED  BY <1>17, <1>19, <2>1
<1> DEFINE goal(g) ==
             /\ g[1] = 1
             /\ g[n + 1] = Len(s) + 2
             /\ \A k \in 1..n : g[k + 1] <= Len(s) + 2
             /\ \A k \in 1..(n - 1) : g[k + 1] <= Len(s) + 1 /\ s[g[k + 1] - 1] = mark
             /\ \A k \in 1..n : g[k + 1] = g[k] + Len(P[k]) + 1
             /\ \A k \in 1..n : \A q \in 1..Len(P[k]) : s[g[k] + q - 1] = P[k][q]
<1>21. goal(at)
  BY <1>16, <1>17, <1>18, <1>20
<1> HIDE DEF goal
<1>22. Located(at, P, s, mark)
  BY <1>21, Zenon DEF goal, Located, n
<1>. QED  BY <1>14, <1>22 DEF n, s

(* The first of several texts that are in one. *)
LEMMA CutIs ==
  ASSUME NEW V, NEW s \in Seq(V), NEW mark,
         NEW i \in 1..(Len(s) + 1), NEW j \in i..(Len(s) + 1),
         j <= Len(s) => s[j] = mark,
         \A k \in i..(j - 1) : s[k] # mark
  PROVE  Cut(s, mark, i) = j
<1> DEFINE c == Cut(s, mark, i)
           n == Len(s)
<1>1. /\ c \in i..(n + 1) /\ (c <= n => s[c] = mark) /\ \A k \in i..(c - 1) : s[k] # mark
  BY CutFacts
<1>2. n \in Nat
  BY LenProperties
<1> HIDE DEF c
<1>3. ~(c < j)
  <2> SUFFICES ASSUME c < j PROVE FALSE
    OBVIOUS
  <2>1. c \in i..(j - 1) /\ c <= n
    BY <1>1, <1>2
  <2>. QED  BY <1>1, <2>1
<1>4. ~(j < c)
  <2> SUFFICES ASSUME j < c PROVE FALSE
    OBVIOUS
  <2>1. j \in i..(c - 1) /\ j <= n
    BY <1>1, <1>2
  <2>. QED  BY <1>1, <2>1
<1>5. c = j
  BY <1>1, <1>2, <1>3, <1>4
<1>. QED  BY <1>5 DEF c

(* The texts are where they are. *)
LEMMA PieceIs ==
  ASSUME NEW V, NEW s \in Seq(V), NEW b \in Seq(V), NEW i \in 1..(Len(s) + 1),
         i + Len(b) - 1 <= Len(s),
         \A q \in 1..Len(b) : s[i + q - 1] = b[q]
  PROVE  SubSeq(s, i, i + Len(b) - 1) = b
<1> DEFINE n == Len(s)
           m == Len(b)
           t == SubSeq(s, i, i + m - 1)
<1>1. /\ n \in Nat /\ m \in Nat
      /\ \A k \in 1..n : s[k] \in V
  BY SeqIsFunction
<1>2. \A k \in i..(i + m - 1) : s[k] \in V
  BY <1>1
<1>3. /\ t \in Seq(V)
      /\ Len(t) = IF i <= i + m - 1 THEN (i + m - 1) - i + 1 ELSE 0
      /\ \A k \in 1..((i + m - 1) - i + 1) : t[k] = s[i + k - 1]
  BY <1>1, <1>2, SubSeqProperties
<1> HIDE DEF t
<1>4. Len(t) = m
  <2> DEFINE l == Len(t)
  <2>1. l = IF i <= i + m - 1 THEN (i + m - 1) - i + 1 ELSE 0
    BY <1>3
  <2> HIDE DEF l, m
  <2>2. l = m
    BY <1>1, <2>1
  <2>. QED  BY <2>2 DEF l
<1>5. ASSUME NEW k \in 1..m PROVE t[k] = b[k]
  <2>1. k \in 1..((i + m - 1) - i + 1)
    BY <1>1
  <2>. QED  BY <1>3, <2>1
<1>6. t = b
  BY <1>3, <1>4, <1>5, SameSequence
<1>. QED  BY <1>6 DEF t

(* What was joined is split into what it was, if no mark was in it. *)
LEMMA SplitJoin ==
  ASSUME NEW V, NEW mark \in V, NEW P \in Seq(Seq(V \ {mark})), P # <<>>
  PROVE  Split(Join(P, mark), mark) = P
<1> DEFINE n == Len(P)
           s == Join(P, mark)
           m == Len(s)
<1>1. P \in Seq(Seq(V))
  <2>1. Seq(V \ {mark}) \subseteq Seq(V)
    BY SeqMonotonic
  <2>. QED  BY <2>1, SeqMonotonic
<1>2. /\ n \in Nat /\ n >= 1
      /\ \A k \in 1..n : P[k] \in Seq(V \ {mark}) /\ P[k] \in Seq(V)
  BY <1>1, SeqIsFunction, EmptySeq
<1>3. s \in Seq(V) /\ m \in Nat
  BY <1>1, JoinFacts, LenProperties
<1>4. PICK at \in [1..(n + 1) -> Nat] : Located(at, P, s, mark)
  BY <1>1, JoinLocates
<1>5. PICK p \in [1..(m + 1) -> Seq(Seq(V \ {mark})) \ {<<>>}] :
        Parting(p, s, mark) /\ Split(s, mark) = p[1]
  BY <1>3, SplitParting
<1> DEFINE r == [k \in 1..n |-> Len(P[k])]
<1>6. ASSUME NEW k \in 1..n PROVE r[k] \in Nat /\ r[k] = Len(P[k])
  BY <1>2, LenProperties
<1>7. /\ at[1] = 1 /\ at[n + 1] = m + 2
      /\ \A k \in 1..n : at[k + 1] <= m + 2
      /\ \A k \in 1..(n - 1) : at[k + 1] <= m + 1 /\ s[at[k + 1] - 1] = mark
  BY <1>4 DEF Located
<1>8. ASSUME NEW k \in 1..n
      PROVE  at[k + 1] = at[k] + r[k] + 1 /\ \A q \in 1..r[k] : s[at[k] + q - 1] = P[k][q]
  BY <1>4 DEF Located
<1> HIDE DEF n, s, m, r
<1>9. \A k \in 1..(n + 1) : at[k] >= 1
  <2> DEFINE T == {k \in 0..n : at[k + 1] >= 1}
  <2>1. 0 \in T
    BY <1>2, <1>7
  <2>2. ASSUME NEW k \in 1..n, k - 1 \in T PROVE k \in T
    <3>1. at[k] >= 1 /\ at[k] \in Nat
      <4>1. (k - 1) + 1 = k /\ k \in 1..(n + 1)
        BY <1>2
      <4>. QED  BY <2>2, <4>1
    <3>. QED  BY <1>6, <1>8, <3>1
  <2> HIDE DEF T
  <2>3. 0..n \subseteq T
    BY <1>2, <2>1, <2>2, Induction
  <2>4. ASSUME NEW k \in 1..(n + 1) PROVE at[k] >= 1
    <3>1. k - 1 \in 0..n /\ (k - 1) + 1 = k
      BY <1>2
    <3>. QED  BY <2>3, <3>1 DEF T
  <2>. QED  BY <2>4
<1>10. ASSUME NEW k \in 1..n
       PROVE  /\ at[k] \in 1..(m + 1) /\ at[k + 1] - 1 \in at[k]..(m + 1)
              /\ at[k + 1] - 1 = at[k] + r[k]
              /\ Cut(s, mark, at[k]) = at[k + 1] - 1
              /\ SubSeq(s, at[k], at[k] + r[k] - 1) = P[k]
  <2> DEFINE a == at[k]
             b == at[k + 1] - 1
  <2>1. a \in Nat /\ a >= 1 /\ b = a + r[k] /\ b <= m + 1 /\ r[k] \in Nat /\ at[k + 1] \in Nat
    <3>1. k \in 1..(n + 1) /\ k + 1 \in 1..(n + 1)
      BY <1>2
    <3>2. at[k] \in Nat /\ at[k + 1] \in Nat /\ at[k] >= 1 /\ at[k + 1] <= m + 2
      BY <1>7, <1>9, <3>1
    <3>3. at[k + 1] = at[k] + r[k] + 1 /\ r[k] \in Nat
      BY <1>6, <1>8
    <3> DEFINE x == at[k]
               y == at[k + 1]
               z == r[k]
    <3>4. /\ x \in Nat /\ y \in Nat /\ x >= 1 /\ y <= m + 2 /\ y = x + z + 1 /\ z \in Nat
          /\ a = x /\ b = y - 1
      BY <3>2, <3>3
    <3> HIDE DEF x, y, z, a, b
    <3>5. a \in Nat /\ a >= 1 /\ b = a + z /\ b <= m + 1 /\ z \in Nat /\ y \in Nat
      BY <1>3, <3>4
    <3>. QED  BY <3>5 DEF z, y
  <2>2. b <= m => s[b] = mark
    <3>1. CASE k = n
      BY <1>3, <1>7, <3>1
    <3>2. CASE k # n
      <4>1. k \in 1..(n - 1)
        BY <1>2, <3>2
      <4>. QED  BY <1>7, <4>1
    <3>. QED  BY <3>1, <3>2
  <2>8. \A q \in 1..r[k] : s[a + q - 1] = P[k][q] /\ P[k][q] # mark
    <3>1. \A q \in 1..r[k] : P[k][q] \in V \ {mark}
      BY <1>2, <1>6
    <3>. QED  BY <1>8, <3>1
  <2> HIDE DEF a, b
  <2> DEFINE z == r[k]
  <2>9. z \in Nat /\ b = a + z /\ a \in Nat /\ b \in Nat
    <3>1. z \in Nat /\ b = a + z /\ a \in Nat
      BY <2>1
    <3> HIDE DEF z
    <3>. QED  BY <3>1
  <2>10. \A q \in 1..z : s[a + q - 1] = P[k][q] /\ P[k][q] # mark
    BY <2>8
  <2> HIDE DEF z
  <2>3. a \in 1..(m + 1) /\ b \in a..(m + 1)
    <3>1. m \in Nat /\ a >= 1 /\ b <= m + 1
      BY <1>3, <2>1
    <3>. QED  BY <2>9, <3>1
  <2>4. \A x \in a..(b - 1) : s[x] # mark
    <3> SUFFICES ASSUME NEW x \in a..(b - 1) PROVE s[x] # mark
      OBVIOUS
    <3>1. x - a + 1 \in 1..z /\ x = a + (x - a + 1) - 1
      BY <2>9
    <3>2. PICK q \in 1..z : x = a + q - 1
      BY <3>1
    <3>. QED  BY <2>10, <3>2
  <2>5. Cut(s, mark, a) = b
    BY <1>3, <2>2, <2>3, <2>4, CutIs DEF m
  <2>6. SubSeq(s, a, a + r[k] - 1) = P[k]
    <3>1. a + r[k] - 1 <= m
      <4>1. a + z - 1 <= m
        <5>1. m \in Nat /\ b <= m + 1
          BY <1>3, <2>1
        <5>. QED  BY <2>9, <5>1
      <4>. QED  BY <4>1 DEF z
    <3> DEFINE c == P[k]
    <3>2. c \in Seq(V) /\ Len(c) = r[k] /\ \A q \in 1..Len(c) : s[a + q - 1] = c[q]
      BY <1>2, <1>6, <2>8
    <3> HIDE DEF c
    <3>3. SubSeq(s, a, a + Len(c) - 1) = c
      BY <1>3, <2>3, <3>1, <3>2, PieceIs DEF m
    <3>. QED  BY <3>2, <3>3 DEF c
  <2>. QED  BY <2>1, <2>3, <2>5, <2>6 DEF a, b
<1>11. ASSUME NEW k \in 1..n
       PROVE  p[at[k]] = IF k = n THEN <<P[k]>> ELSE <<P[k]>> \o p[at[k + 1]]
  <2> DEFINE a == at[k]
             b == at[k + 1] - 1
  <2>1. /\ a \in 1..(m + 1) /\ b \in a..(m + 1) /\ Cut(s, mark, a) = b
        /\ b = a + r[k] /\ SubSeq(s, a, a + r[k] - 1) = P[k] /\ r[k] \in Nat
        /\ at[k + 1] = b + 1
    <3>1. at[k + 1] \in Nat /\ r[k] \in Nat
      BY <1>2, <1>6
    <3>2. (at[k + 1] - 1) + 1 = at[k + 1]
      BY <3>1
    <3>. QED  BY <1>10, <3>1, <3>2
  <2>2. k = n <=> b > m
    <3>1. CASE k = n
      BY <1>3, <1>7, <3>1
    <3>2. CASE k # n
      <4>1. k \in 1..(n - 1)
        BY <1>2, <3>2
      <4>2. at[k + 1] <= m + 1
        BY <1>7, <4>1
      <4>. QED  BY <1>3, <2>1, <3>2, <4>2
    <3>. QED  BY <3>1, <3>2
  <2> HIDE DEF a, b
  <2>3. p[a] = IF b > m THEN <<SubSeq(s, a, m)>> ELSE <<SubSeq(s, a, b - 1)>> \o p[b + 1]
    BY <1>5, <2>1 DEF Parting, m
  <2>4. b - 1 = a + r[k] - 1 /\ (b > m => b - 1 = m)
    <3>1. b - 1 = a + r[k] - 1
      BY <2>1
    <3>2. b > m => b - 1 = m
      <4>1. a \in Nat /\ b \in Int /\ b <= m + 1
        BY <1>3, <2>1
      <4>. QED  BY <1>3, <4>1
    <3>. QED  BY <3>1, <3>2
  <2>5. CASE k = n
    BY <2>1, <2>2, <2>3, <2>4, <2>5 DEF a
  <2>6. CASE k # n
    BY <2>1, <2>2, <2>3, <2>4, <2>6 DEF a
  <2>. QED  BY <2>5, <2>6
<1> DEFINE U == Seq(V \ {mark})
           T == {k \in 1..n : p[at[k]] = SubSeq(P, k, n)}
<1>12. ASSUME NEW k \in 1..n, \A j \in (k + 1)..n : j \in T PROVE k \in T
  <2>0. P \in Seq(U) /\ P[k] \in U /\ Len(P) = n
    BY <1>2 DEF n
  <2> HIDE DEF U
  <2>1. CASE k = n
    <3>1. SubSeq(P, k, k) = <<P[k]>>
      <4> DEFINE x == SubSeq(P, k, k)
      <4>1. \A i \in k..k : P[i] \in U
        BY <2>0
      <4>2. /\ x \in Seq(U) /\ Len(x) = IF k <= k THEN k - k + 1 ELSE 0
            /\ \A i \in 1..(k - k + 1) : x[i] = P[k + i - 1]
        BY <4>1, SubSeqProperties
      <4>3. k - k + 1 = 1 /\ k + 1 - 1 = k
        OBVIOUS
      <4> HIDE DEF x
      <4>4. Len(x) = 1 /\ x[1] = P[k]
        BY <4>2, <4>3
      <4>5. <<P[k]>> \in Seq(U) /\ Len(<<P[k]>>) = 1 /\ <<P[k]>>[1] = P[k]
        BY <2>0
      <4>6. x = <<P[k]>>
        BY <4>2, <4>4, <4>5, SameSequence
      <4>. QED  BY <4>6 DEF x
    <3>. QED  BY <1>11, <2>1, <3>1
  <2>2. CASE k # n
    <3>1. k + 1 \in (k + 1)..n /\ k + 1 \in 1..n
      BY <1>2, <2>2
    <3>2. p[at[k + 1]] = SubSeq(P, k + 1, n)
      BY <1>12, <3>1
    <3>3. SubSeq(P, k, n) = <<P[k]>> \o SubSeq(P, k + 1, n)
      BY <1>2, <2>0, <3>1
    <3>. QED  BY <1>11, <2>2, <3>2, <3>3
  <2>. QED  BY <2>1, <2>2
<1> HIDE DEF T
<1>13. 1 \in T
  <2>1. 1..n \subseteq T
    BY <1>2, <1>12, Backwards
  <2>. QED  BY <1>2, <2>1
<1>14. SubSeq(P, 1, n) = P
  BY <1>2 DEF n
<1>15. p[1] = P
  BY <1>7, <1>13, <1>14 DEF T
<1>. QED  BY <1>5, <1>15 DEF s

-----------------------------------------------------------------------------
(* Replaced *)

(* from begins at i. *)
Found(text, from, i) ==
  /\ i + Len(from) <= Len(text) + 1
  /\ from = SubSeq(text, i, i + Len(from) - 1)

(* The text from i on, with every from replaced. *)
Rewrites(rest, text, from, to) ==
  \A i \in 1..(Len(text) + 1) :
    rest[i] = CASE i > Len(text) -> IF from = <<>> THEN to ELSE <<>>
                [] i <= Len(text) /\ from = <<>> -> to \o <<text[i]>> \o rest[i + 1]
                [] i <= Len(text) /\ from # <<>> /\ Found(text, from, i)
                     -> to \o rest[i + Len(from)]
                [] OTHER -> <<text[i]>> \o rest[i + 1]

(* Replaced is the text from 1 on. *)
LEMMA ReplacedRewrites ==
  ASSUME NEW V, NEW text \in Seq(V), NEW from \in Seq(V), NEW to \in Seq(V)
  PROVE  \E rest \in [1..(Len(text) + 1) -> Seq(V)] :
           Rewrites(rest, text, from, to) /\ Replaced(text, from, to) = rest[1]
<1> DEFINE n == Len(text)
           W == Seq(V)
           found(i) == Found(text, from, i)
           base == IF from = <<>> THEN to ELSE <<>>
           step == [i \in 1..n |-> [v \in W |->
                      IF from = <<>> THEN to \o <<text[i]>> \o v
                      ELSE IF found(i) THEN to \o v ELSE <<text[i]>> \o v]]
           next == [i \in 1..n |-> IF from # <<>> /\ found(i) THEN i + Len(from) ELSE i + 1]
<1>1. n \in Nat /\ Len(from) \in Nat /\ (from # <<>> => Len(from) >= 1)
      /\ \A i \in 1..n : text[i] \in V
  BY SeqIsFunction, EmptySeq
<1>2. base \in W
  OBVIOUS
<1>3. step \in [1..n -> [W -> W]]
  <2>1. ASSUME NEW i \in 1..n, NEW v \in W
        PROVE  (IF from = <<>> THEN to \o <<text[i]>> \o v
                ELSE IF found(i) THEN to \o v ELSE <<text[i]>> \o v) \in W
    <3> DEFINE x == text[i]
    <3>1. x \in V
      BY <1>1
    <3> HIDE DEF x, found
    <3>2. to \o <<x>> \o v \in W /\ to \o v \in W /\ <<x>> \o v \in W
      BY <3>1
    <3>. QED  BY <3>2 DEF x
  <2>. QED  BY <2>1
<1>4. ASSUME NEW i \in 1..n PROVE next[i] \in (i + 1)..(n + 1)
  <2>1. CASE from # <<>> /\ found(i)
    <3>1. i + Len(from) <= n + 1
      BY <2>1 DEF Found
    <3>. QED  BY <1>1, <2>1, <3>1
  <2>2. CASE ~(from # <<>> /\ found(i))
    BY <1>1, <2>2
  <2>. QED  BY <2>1, <2>2
<1>5. PICK p \in [1..(n + 1) -> W] : Chains(p, 1, n, base, step, next)
  <2> HIDE DEF n, W, base, step, next
  <2>. QED  BY <1>1, <1>2, <1>3, <1>4, Chain
<1> DEFINE val(g, i) ==
             CASE i > n -> IF from = <<>> THEN to ELSE <<>>
               [] i <= n /\ from = <<>> -> to \o <<text[i]>> \o g[i + 1]
               [] i <= n /\ from # <<>> /\ found(i) -> to \o g[i + Len(from)]
               [] OTHER -> <<text[i]>> \o g[i + 1]
<1>6. ASSUME NEW i \in 1..(n + 1) PROVE p[i] = val(p, i)
  <2>1. CASE i = n + 1
    <3>1. i > n /\ p[i] = base
      BY <1>1, <1>5, <2>1 DEF Chains
    <3>. QED  BY <3>1
  <2>2. CASE i # n + 1
    <3>0. i \in 1..n /\ i <= n /\ ~(i > n) /\ next[i] \in 1..(n + 1)
      BY <1>1, <1>4, <2>2
    <3> DEFINE v == p[next[i]]
    <3>1. p[i] = step[i][v] /\ v \in W
      BY <1>5, <3>0 DEF Chains
    <3>2. p[i] = IF from = <<>> THEN to \o <<text[i]>> \o v
                 ELSE IF found(i) THEN to \o v ELSE <<text[i]>> \o v
      <4> HIDE DEF v
      <4>. QED  BY <3>0, <3>1
    <3>3. v = IF from # <<>> /\ found(i) THEN p[i + Len(from)] ELSE p[i + 1]
      BY <3>0
    <3> HIDE DEF v, found
    <3>4. CASE from = <<>>
      BY <3>0, <3>2, <3>3, <3>4
    <3>5. CASE from # <<>> /\ found(i)
      BY <3>0, <3>2, <3>3, <3>5
    <3>6. CASE from # <<>> /\ ~found(i)
      BY <3>0, <3>2, <3>3, <3>6
    <3>. QED  BY <3>4, <3>5, <3>6
  <2>. QED  BY <2>1, <2>2
<1> HIDE DEF step, base, next
<1> DEFINE Is(g) == g = [i \in 1..(n + 1) |-> val(g, i)]
           rest == CHOOSE g : Is(g)
<1>7. Is(p)
  <2> HIDE DEF val
  <2>1. p = [i \in 1..(n + 1) |-> p[i]]
    BY <1>5
  <2>. QED  BY <1>6, <2>1
<1>8. Is(rest)
  <2> HIDE DEF Is
  <2>. QED  BY <1>7
<1>9. Replaced(text, from, to) = rest[1]
  BY Zenon DEF Replaced, Found
<1> HIDE DEF rest
<1>10. \A i \in 1..(n + 1) : rest[i] = val(rest, i)
  <2> HIDE DEF val
  <2>. QED  BY <1>8
<1> HIDE DEF Is
<1> DEFINE T == {i \in 1..(n + 1) : rest[i] = p[i]}
<1>11. ASSUME NEW i \in 1..(n + 1), \A j \in (i + 1)..(n + 1) : j \in T PROVE i \in T
  <2>1. rest[i] = val(rest, i) /\ p[i] = val(p, i)
    <3> HIDE DEF val
    <3>. QED  BY <1>6, <1>10
  <2>2. CASE i > n
    <3> HIDE DEF found
    <3>1. ~(i <= n)
      BY <1>1, <2>2
    <3>2. rest[i] = (IF from = <<>> THEN to ELSE <<>>) /\ p[i] = (IF from = <<>> THEN to ELSE <<>>)
      BY <2>1, <2>2, <3>1
    <3>. QED  BY <3>2
  <2>3. CASE ~(i > n)
    <3>1. i + 1 \in (i + 1)..(n + 1) /\ i <= n
      BY <1>1, <2>3
    <3>2. rest[i + 1] = p[i + 1]
      BY <1>11, <3>1
    <3>3. from # <<>> /\ found(i) => rest[i + Len(from)] = p[i + Len(from)]
      <4> SUFFICES ASSUME from # <<>>, found(i) PROVE rest[i + Len(from)] = p[i + Len(from)]
        OBVIOUS
      <4>1. i + Len(from) \in (i + 1)..(n + 1)
        BY <1>1 DEF Found
      <4>. QED  BY <1>11, <4>1
    <3> HIDE DEF found
    <3>4. CASE from = <<>>
      BY <2>1, <2>3, <3>1, <3>2, <3>4
    <3>5. CASE from # <<>> /\ found(i)
      BY <2>1, <2>3, <3>1, <3>3, <3>5
    <3>6. CASE from # <<>> /\ ~found(i)
      BY <2>1, <2>3, <3>1, <3>2, <3>6
    <3>. QED  BY <3>4, <3>5, <3>6
  <2>. QED  BY <2>2, <2>3
<1> HIDE DEF T
<1>12. 1 \in T
  <2>1. n + 1 \in Nat
    BY <1>1
  <2>2. 1..(n + 1) \subseteq T
    BY <1>11, <2>1, Backwards
  <2>. QED  BY <1>1, <2>2
<1>13. Rewrites(p, text, from, to)
  BY <1>6 DEF Rewrites
<1>. QED  BY <1>5, <1>9, <1>12, <1>13 DEF T

(* What is replaced in a text by a text leaves a text. *)
LEMMA ReplacedTyped ==
  ASSUME NEW V, NEW text \in Seq(V), NEW from \in Seq(V), NEW to \in Seq(V)
  PROVE  Replaced(text, from, to) \in Seq(V)
<1>1. PICK rest \in [1..(Len(text) + 1) -> Seq(V)] :
        Rewrites(rest, text, from, to) /\ Replaced(text, from, to) = rest[1]
  BY ReplacedRewrites
<1>2. 1 \in 1..(Len(text) + 1)
  BY LenProperties
<1>. QED  BY <1>1, <1>2

(* Element by element. *)
LEMMA FoundIs ==
  ASSUME NEW V, NEW text \in Seq(V), NEW from \in Seq(V), NEW i \in 1..(Len(text) + 1)
  PROVE  Found(text, from, i) <=>
           /\ i + Len(from) <= Len(text) + 1
           /\ \A q \in 1..Len(from) : text[i + q - 1] = from[q]
<1> DEFINE n == Len(text)
           m == Len(from)
<1>1. n \in Nat /\ m \in Nat /\ \A k \in 1..n : text[k] \in V
  BY SeqIsFunction
<1>2. ASSUME i + m <= n + 1, \A q \in 1..m : text[i + q - 1] = from[q]
      PROVE  from = SubSeq(text, i, i + m - 1)
  <2>1. i + m - 1 <= n
    BY <1>1, <1>2
  <2>. QED  BY <1>2, <2>1, PieceIs
<1>3. ASSUME i + m <= n + 1, from = SubSeq(text, i, i + m - 1)
      PROVE  \A q \in 1..m : text[i + q - 1] = from[q]
  <2> DEFINE t == SubSeq(text, i, i + m - 1)
  <2>1. \A k \in i..(i + m - 1) : text[k] \in V
    BY <1>1, <1>3
  <2>2. \A k \in 1..((i + m - 1) - i + 1) : t[k] = text[i + k - 1]
    BY <1>1, <2>1, SubSeqProperties
  <2>3. from = t
    BY <1>3
  <2> HIDE DEF t
  <2>4. \A q \in 1..m : q \in 1..((i + m - 1) - i + 1)
    BY <1>1
  <2>. QED  BY <2>2, <2>3, <2>4
<1>. QED  BY <1>2, <1>3 DEF Found

(* One text after another. *)
LEMMA ConcatFacts ==
  ASSUME NEW V, NEW a \in Seq(V), NEW b \in Seq(V)
  PROVE  /\ a \o b \in Seq(V)
         /\ Len(a \o b) = Len(a) + Len(b)
         /\ Len(a) \in Nat /\ Len(b) \in Nat
         /\ \A i \in 1..Len(a) : (a \o b)[i] = a[i]
         /\ \A i \in 1..Len(b) : (a \o b)[Len(a) + i] = b[i]
<1> DEFINE x == Len(a)
           y == Len(b)
           c == a \o b
<1>1. /\ x \in Nat /\ y \in Nat /\ c \in Seq(V) /\ Len(c) = x + y
      /\ \A i \in 1..(x + y) : c[i] = IF i <= x THEN a[i] ELSE b[i - x]
  BY ConcatProperties, LenProperties
<1> HIDE DEF x, y, c
<1>2. ASSUME NEW i \in 1..x PROVE c[i] = a[i]
  BY <1>1
<1>3. ASSUME NEW i \in 1..y PROVE c[x + i] = b[i]
  <2>1. x + i \in 1..(x + y) /\ ~(x + i <= x) /\ (x + i) - x = i
    BY <1>1
  <2>. QED  BY <1>1, <2>1
<1>. QED  BY <1>1, <1>2, <1>3 DEF x, y, c

(* Two texts with a mark between them. *)
LEMMA AroundFacts ==
  ASSUME NEW V, NEW m \in V, NEW a \in Seq(V), NEW b \in Seq(V), NEW s, s = a \o <<m>> \o b,
         NEW n, n = Len(s), NEW x, x = Len(a), NEW y, y = Len(b)
  PROVE  /\ s \in Seq(V) /\ n \in Nat /\ x \in Nat /\ y \in Nat
         /\ n = x + 1 + y
         /\ \A i \in 1..x : s[i] = a[i]
         /\ s[x + 1] = m
         /\ \A i \in 1..y : s[x + 1 + i] = b[i]
<1> DEFINE c == <<m>> \o b
<1>1. /\ c \in Seq(V) /\ Len(c) = 1 + y /\ c[1] = m /\ \A i \in 1..y : c[1 + i] = b[i]
  <2>1. <<m>> \in Seq(V) /\ Len(<<m>>) = 1 /\ <<m>>[1] = m
    OBVIOUS
  <2> DEFINE d == <<m>>
  <2> HIDE DEF d
  <2>2. d \in Seq(V) /\ Len(d) = 1 /\ d[1] = m /\ c = d \o b
    BY <2>1 DEF d
  <2> HIDE DEF c
  <2> DEFINE e == d \o b
  <2>3. /\ e \in Seq(V) /\ Len(e) = Len(d) + Len(b)
        /\ \A i \in 1..Len(d) : e[i] = d[i]
        /\ \A i \in 1..Len(b) : e[Len(d) + i] = b[i]
    <3>1. /\ e \in Seq(V) /\ Len(e) = Len(d) + Len(b) /\ Len(b) \in Nat
          /\ \A i \in 1..(Len(d) + Len(b)) :
               e[i] = IF i <= Len(d) THEN d[i] ELSE b[i - Len(d)]
      BY <2>2, ConcatProperties, LenProperties
    <3>2. Len(d) = 1
      BY <2>2
    <3> HIDE DEF e
    <3>3. ASSUME NEW i \in 1..Len(b) PROVE e[1 + i] = b[i]
      <4>1. 1 + i \in 1..(1 + Len(b)) /\ ~(1 + i <= 1) /\ (1 + i) - 1 = i
        BY <3>1
      <4>. QED  BY <3>1, <3>2, <4>1
    <3>. QED  BY <3>1, <3>2, <3>3
  <2> HIDE DEF e
  <2>4. c = e
    BY <2>2 DEF e
  <2>. QED  BY <2>2, <2>3, <2>4
<1>2. s = a \o c
  OBVIOUS
<1> HIDE DEF c
<1>3. /\ s \in Seq(V) /\ n = x + (1 + y) /\ x \in Nat /\ (\A i \in 1..x : s[i] = a[i])
      /\ \A i \in 1..(1 + y) : s[x + i] = c[i]
  BY <1>1, <1>2, ConcatFacts
<1>4. y \in Nat
  OBVIOUS
<1>5. s[x + 1] = m
  <2>1. 1 \in 1..(1 + y)
    BY <1>4
  <2>. QED  BY <1>1, <1>3, <2>1
<1>6. ASSUME NEW i \in 1..y PROVE s[x + 1 + i] = b[i]
  <2>1. 1 + i \in 1..(1 + y) /\ x + 1 + i = x + (1 + i)
    BY <1>3, <1>4
  <2>. QED  BY <1>1, <1>3, <2>1
<1>7. n = x + 1 + y /\ n \in Nat
  BY <1>3, <1>4
<1>. QED  BY <1>3, <1>4, <1>5, <1>6, <1>7

(* Two texts with a mark between them. *)
Around(a, m, b) == a \o <<m>> \o b

(* A mark that does not occur in what is replaced splits the text.         *)
LEMMA ReplacedAround ==
  ASSUME NEW V, NEW m \in V, NEW a \in Seq(V), NEW b \in Seq(V),
         NEW from \in Seq(V), m \notin ToSet(from), NEW to \in Seq(V)
  PROVE  Replaced(Around(a, m, b), from, to)
           = Around(Replaced(a, from, to), m, Replaced(b, from, to))
<1> DEFINE s == a \o <<m>> \o b
           n == Len(s)
           x == Len(a)
           y == Len(b)
           l == Len(from)
<1>1. /\ s \in Seq(V) /\ n \in Nat /\ x \in Nat /\ y \in Nat /\ l \in Nat
      /\ n = x + 1 + y
      /\ \A i \in 1..x : s[i] = a[i]
      /\ s[x + 1] = m
      /\ \A i \in 1..y : s[x + 1 + i] = b[i]
      /\ \A q \in 1..l : from[q] # m
      /\ (from # <<>> => l >= 1) /\ (from = <<>> => l = 0)
      /\ \A i \in 1..x : a[i] \in V
      /\ \A i \in 1..y : b[i] \in V
  <2>1. DOMAIN from = 1..l /\ l \in Nat
    BY SeqIsFunction
  <2>2. \A q \in 1..l : from[q] # m
    BY <2>1 DEF ToSet
  <2>3. (from # <<>> => l >= 1) /\ (from = <<>> => l = 0)
    BY <2>1, EmptySeq
  <2>4. (\A i \in 1..x : a[i] \in V) /\ \A i \in 1..y : b[i] \in V
    BY SeqIsFunction
  <2> HIDE DEF l
  <2>5. /\ s \in Seq(V) /\ n \in Nat /\ x \in Nat /\ y \in Nat
        /\ n = x + 1 + y
        /\ \A i \in 1..x : s[i] = a[i]
        /\ s[x + 1] = m
        /\ \A i \in 1..y : s[x + 1 + i] = b[i]
    <3> HIDE DEF s, n, x, y
    <3>. QED  BY AroundFacts DEF s, n, x, y
  <2>. QED  BY <2>1, <2>2, <2>3, <2>4, <2>5
<1>2. PICK rs \in [1..(n + 1) -> Seq(V)] :
        Rewrites(rs, s, from, to) /\ Replaced(s, from, to) = rs[1]
  <2>1. s \in Seq(V)
    BY <1>1
  <2> HIDE DEF s
  <2>. QED  BY <2>1, ReplacedRewrites
<1>3. PICK ra \in [1..(x + 1) -> Seq(V)] :
        Rewrites(ra, a, from, to) /\ Replaced(a, from, to) = ra[1]
  BY ReplacedRewrites
<1>4. PICK rb \in [1..(y + 1) -> Seq(V)] :
        Rewrites(rb, b, from, to) /\ Replaced(b, from, to) = rb[1]
  BY ReplacedRewrites
<1> DEFINE val(r, t, k, i) ==
             CASE i > k -> IF from = <<>> THEN to ELSE <<>>
               [] i <= k /\ from = <<>> -> to \o <<t[i]>> \o r[i + 1]
               [] i <= k /\ from # <<>> /\ Found(t, from, i) -> to \o r[i + l]
               [] OTHER -> <<t[i]>> \o r[i + 1]
<1>5. /\ \A i \in 1..(n + 1) : rs[i] = val(rs, s, n, i)
      /\ \A i \in 1..(x + 1) : ra[i] = val(ra, a, x, i)
      /\ \A i \in 1..(y + 1) : rb[i] = val(rb, b, y, i)
  BY <1>2, <1>3, <1>4, Zenon DEF Rewrites
<1>6. /\ \A i \in 1..(n + 1) : Found(s, from, i) <=>
           i + l <= n + 1 /\ \A q \in 1..l : s[i + q - 1] = from[q]
      /\ \A i \in 1..(x + 1) : Found(a, from, i) <=>
           i + l <= x + 1 /\ \A q \in 1..l : a[i + q - 1] = from[q]
      /\ \A i \in 1..(y + 1) : Found(b, from, i) <=>
           i + l <= y + 1 /\ \A q \in 1..l : b[i + q - 1] = from[q]
  <2>1. s \in Seq(V)
    BY <1>1
  <2> HIDE DEF s
  <2>. QED  BY <2>1, FoundIs
<1> HIDE DEF s, n, x, y, l
<1>7. ASSUME NEW i \in 1..(y + 1)
      PROVE  Found(s, from, x + 1 + i) <=> Found(b, from, i)
  <2> DEFINE j == x + 1 + i
  <2>0. x \in Nat /\ y \in Nat /\ l \in Nat /\ n = x + 1 + y
    BY <1>1
  <2>1. j \in 1..(n + 1) /\ (j + l <= n + 1 <=> i + l <= y + 1)
    BY <2>0
  <2>2. ASSUME NEW q \in 1..l, i + l <= y + 1 PROVE s[j + q - 1] = b[i + q - 1]
    <3>1. i + q - 1 \in 1..y /\ j + q - 1 = x + 1 + (i + q - 1)
      BY <1>1, <2>2
    <3>. QED  BY <1>1, <3>1
  <2> HIDE DEF j
  <2>. QED  BY <1>6, <2>1, <2>2 DEF j
<1>8. ASSUME NEW i \in 1..x, from # <<>>
      PROVE  Found(s, from, i) <=> Found(a, from, i)
  <2>1. i \in 1..(n + 1) /\ i \in 1..(x + 1)
    BY <1>1
  <2>2. CASE i + l <= x + 1
    <3>1. ASSUME NEW q \in 1..l PROVE s[i + q - 1] = a[i + q - 1]
      <4>1. i + q - 1 \in 1..x
        BY <1>1, <2>2
      <4>. QED  BY <1>1, <4>1
    <3>2. i + l <= n + 1
      BY <1>1, <2>2
    <3>. QED  BY <1>6, <2>1, <2>2, <3>1, <3>2
  <2>3. CASE ~(i + l <= x + 1)
    <3>1. ~Found(a, from, i)
      BY <1>6, <2>1, <2>3
    <3>2. PICK q \in 1..l : i + q - 1 = x + 1
      <4>1. x + 2 - i \in 1..l /\ i + (x + 2 - i) - 1 = x + 1
        BY <1>1, <2>3
      <4>. QED  BY <4>1
    <3>3. s[i + q - 1] # from[q]
      BY <1>1, <3>2
    <3>. QED  BY <1>6, <2>1, <3>1, <3>3
  <2>. QED  BY <2>2, <2>3
<1> DEFINE T == {i \in 1..(y + 1) : rs[x + 1 + i] = rb[i]}
<1>9. ASSUME NEW i \in 1..(y + 1), \A j \in (i + 1)..(y + 1) : j \in T PROVE i \in T
  <2>0. x \in Nat /\ y \in Nat /\ l \in Nat /\ n = x + 1 + y
    BY <1>1
  <2> DEFINE j == x + 1 + i
  <2>1. j \in 1..(n + 1) /\ (j > n <=> i > y) /\ (j <= n <=> i <= y)
        /\ j + 1 = x + 1 + (i + 1) /\ j + l = x + 1 + (i + l)
    BY <2>0
  <2>2. rs[j] = val(rs, s, n, j) /\ rb[i] = val(rb, b, y, i)
    BY <1>5, <2>1
  <2>3. Found(s, from, j) <=> Found(b, from, i)
    BY <1>7
  <2>4. i <= y => s[j] = b[i] /\ rs[j + 1] = rb[i + 1]
    <3> SUFFICES ASSUME i <= y PROVE s[j] = b[i] /\ rs[j + 1] = rb[i + 1]
      OBVIOUS
    <3>1. i \in 1..y /\ i + 1 \in (i + 1)..(y + 1)
      BY <2>0
    <3>2. rs[x + 1 + (i + 1)] = rb[i + 1]
      BY <1>9, <3>1
    <3>. QED  BY <1>1, <2>1, <3>1, <3>2
  <2>5. from # <<>> /\ Found(b, from, i) => rs[j + l] = rb[i + l]
    <3> SUFFICES ASSUME from # <<>>, Found(b, from, i) PROVE rs[j + l] = rb[i + l]
      OBVIOUS
    <3>1. i + l <= y + 1 /\ l >= 1
      BY <1>1, <1>6
    <3>2. i + l \in (i + 1)..(y + 1)
      BY <2>0, <3>1
    <3>3. rs[x + 1 + (i + l)] = rb[i + l]
      BY <1>9, <3>2
    <3>. QED  BY <2>1, <3>3
  <2> HIDE DEF j, T
  <2>6. rs[j] = rb[i]
    <3>1. CASE i > y
      <4>1. ~(i <= y) /\ j > n /\ ~(j <= n)
        BY <2>0, <2>1, <3>1
      <4>. QED  BY <2>2, <3>1, <4>1
    <3>2. CASE ~(i > y)
      <4>1. i <= y /\ ~(j > n) /\ j <= n
        BY <2>0, <2>1, <3>2
      <4>2. CASE from = <<>>
        BY <2>2, <2>4, <3>2, <4>1, <4>2
      <4>3. CASE from # <<>> /\ Found(b, from, i)
        BY <2>2, <2>3, <2>5, <3>2, <4>1, <4>3
      <4>4. CASE from # <<>> /\ ~Found(b, from, i)
        BY <2>2, <2>3, <2>4, <3>2, <4>1, <4>4
      <4>. QED  BY <4>2, <4>3, <4>4
    <3>. QED  BY <3>1, <3>2
  <2>. QED  BY <2>6 DEF T, j
<1> HIDE DEF T
<1>10. rs[x + 2] = rb[1]
  <2>0. x \in Nat /\ y \in Nat /\ y + 1 \in Nat
    BY <1>1
  <2>1. 1..(y + 1) \subseteq T
    BY <1>9, <2>0, Backwards
  <2>2. 1 \in T /\ x + 1 + 1 = x + 2
    BY <2>0, <2>1
  <2>. QED  BY <2>2 DEF T
<1> DEFINE w == <<m>> \o rb[1]
           Q == {i \in 1..(x + 1) : rs[i] = ra[i] \o w}
<1>11. rb[1] \in Seq(V) /\ w \in Seq(V)
  <2>1. 1 \in 1..(y + 1)
    BY <1>1
  <2>. QED  BY <2>1
<1>12. x + 1 \in Q
  <2>0. x \in Nat /\ y \in Nat /\ l \in Nat /\ n = x + 1 + y
    BY <1>1
  <2> DEFINE j == x + 1
  <2>1. j \in 1..(n + 1) /\ j <= n /\ ~(j > n) /\ j \in 1..(x + 1) /\ j > x /\ ~(j <= x)
    BY <2>0
  <2>2. rs[j] = val(rs, s, n, j) /\ ra[j] = val(ra, a, x, j)
    BY <1>5, <2>1
  <2>3. s[j] = m /\ rs[j + 1] = rb[1]
    <3>1. j + 1 = x + 2
      BY <2>0
    <3>. QED  BY <1>1, <1>10, <3>1
  <2>4. from # <<>> => ~Found(s, from, j)
    <3> SUFFICES ASSUME from # <<>>, Found(s, from, j) PROVE FALSE
      OBVIOUS
    <3>1. 1 \in 1..l /\ j + 1 - 1 = j
      BY <1>1, <2>1
    <3>2. s[j + 1 - 1] = from[1]
      BY <1>6, <2>1, <3>1
    <3>. QED  BY <1>1, <2>3, <3>1, <3>2
  <2> HIDE DEF j
  <2>5. CASE from = <<>>
    <3>1. rs[j] = to \o <<m>> \o rb[1] /\ ra[j] = to
      BY <2>1, <2>2, <2>3, <2>5
    <3>2. to \o <<m>> \o rb[1] = to \o (<<m>> \o rb[1])
      <4> DEFINE d == rb[1]
      <4>1. d \in Seq(V)
        BY <1>11
      <4> HIDE DEF d
      <4>2. to \o <<m>> \o d = to \o (<<m>> \o d)
        BY <4>1
      <4>. QED  BY <4>2 DEF d
    <3>. QED  BY <2>1, <3>1, <3>2 DEF j
  <2>6. CASE from # <<>>
    <3>1. rs[j] = <<m>> \o rb[1] /\ ra[j] = <<>>
      BY <2>1, <2>2, <2>3, <2>4, <2>6
    <3>2. <<>> \o (<<m>> \o rb[1]) = <<m>> \o rb[1]
      BY <1>11
    <3>. QED  BY <2>1, <3>1, <3>2 DEF j
  <2>. QED  BY <2>5, <2>6
<1> HIDE DEF w
<1>13. ASSUME NEW i \in 1..(x + 1), \A j \in (i + 1)..(x + 1) : j \in Q PROVE i \in Q
  <2>0. x \in Nat /\ y \in Nat /\ l \in Nat /\ n = x + 1 + y
    BY <1>1
  <2>1. CASE i = x + 1
    BY <1>12, <2>1
  <2>2. CASE i # x + 1
    <3>1. i \in 1..x /\ i \in 1..(n + 1) /\ i <= n /\ ~(i > n) /\ i <= x /\ ~(i > x)
      BY <2>0, <2>2
    <3>2. rs[i] = val(rs, s, n, i) /\ ra[i] = val(ra, a, x, i) /\ s[i] = a[i]
      BY <1>1, <1>5, <3>1
    <3>3. i + 1 \in (i + 1)..(x + 1)
      BY <2>0, <3>1
    <3>4. rs[i + 1] = ra[i + 1] \o w /\ ra[i + 1] \in Seq(V)
      BY <1>13, <3>3
    <3>5. a[i] \in V
      BY <1>1, <3>1
    <3>6. CASE from = <<>>
      <4> DEFINE c == a[i]
                 d == ra[i + 1]
      <4>1. rs[i] = to \o <<c>> \o (d \o w) /\ ra[i] = to \o <<c>> \o d /\ c \in V /\ d \in Seq(V)
        BY <3>1, <3>2, <3>4, <3>5, <3>6
      <4> HIDE DEF c, d
      <4>2. to \o <<c>> \o (d \o w) = (to \o <<c>> \o d) \o w
        BY <1>11, <4>1
      <4>. QED  BY <4>1, <4>2
    <3>7. CASE from # <<>> /\ ~Found(a, from, i)
      <4> DEFINE c == a[i]
                 d == ra[i + 1]
      <4>0. ~Found(s, from, i)
        BY <1>8, <3>1, <3>7
      <4>1. rs[i] = <<c>> \o (d \o w) /\ ra[i] = <<c>> \o d /\ c \in V /\ d \in Seq(V)
        BY <3>1, <3>2, <3>4, <3>5, <3>7, <4>0
      <4> HIDE DEF c, d
      <4>2. <<c>> \o (d \o w) = (<<c>> \o d) \o w
        BY <1>11, <4>1
      <4>. QED  BY <4>1, <4>2
    <3>8. CASE from # <<>> /\ Found(a, from, i)
      <4> DEFINE d == ra[i + l]
      <4>0. Found(s, from, i)
        BY <1>8, <3>1, <3>8
      <4>1. i + l \in (i + 1)..(x + 1)
        <5>1. i + l <= x + 1 /\ l >= 1
          BY <1>1, <1>6, <3>8
        <5>. QED  BY <2>0, <5>1
      <4>2. rs[i + l] = d \o w /\ d \in Seq(V)
        BY <1>13, <4>1
      <4>3. rs[i] = to \o (d \o w) /\ ra[i] = to \o d
        BY <3>1, <3>2, <3>8, <4>0, <4>2
      <4> HIDE DEF d
      <4>4. to \o (d \o w) = (to \o d) \o w
        BY <1>11, <4>2
      <4>. QED  BY <4>3, <4>4
    <3>. QED  BY <3>6, <3>7, <3>8
  <2>. QED  BY <2>1, <2>2
<1> HIDE DEF Q
<1>14. rs[1] = ra[1] \o w /\ ra[1] \in Seq(V)
  <2>0. x + 1 \in Nat
    BY <1>1
  <2>1. 1..(x + 1) \subseteq Q
    BY <1>13, <2>0, Backwards
  <2>2. 1 \in Q /\ 1 \in 1..(x + 1)
    BY <1>1, <2>1
  <2>. QED  BY <2>2 DEF Q
<1> DEFINE c == ra[1]
           d == rb[1]
<1>15. c \in Seq(V) /\ d \in Seq(V) /\ rs[1] = c \o w /\ w = <<m>> \o d
  BY <1>11, <1>14 DEF w
<1> HIDE DEF c, d
<1>16. rs[1] = c \o <<m>> \o d
  BY <1>15
<1>. QED  BY <1>2, <1>3, <1>4, <1>16 DEF c, d, s, Around

-----------------------------------------------------------------------------
(* Calls *)

(* An action has a name. *)
LEMMA InsideCall ==
  ASSUME NEW i \in Nat, NEW j \in Nat, NEW n \in Nat, 1 <= i, i + 2 <= j, j <= n
  PROVE  i + 1 \in 1..n
  OBVIOUS

(* An action that was parsed ends, in the string it is in.                 *)
LEMMA ParsedCall ==
  ASSUME NEW V, NEW text \in Seq(V), NEW funcs, Parses(text, funcs),
         NEW i \in 1..Len(text), text[i] = "open"
  PROVE  /\ CloseOf(text, i) \in (i + 2)..Len(text)
         /\ text[CloseOf(text, i)] = "close"
         /\ \A k \in (i + 1)..(CloseOf(text, i) - 1) : text[k] \notin {"open", "close", "break"}
         /\ i + 1 \in 1..Len(text) /\ text[i + 1] \in funcs
<1> DEFINE n == Len(text)
           Is(j) == text[j] = "close" /\ \A k \in i..(j - 1) : text[k] # "close"
           c == CHOOSE j \in i..n : Is(j)
<1>0. n \in Nat
  BY LenProperties
<1>1. PICK j \in (i + 2)..n :
        text[j] = "close" /\ \A k \in (i + 1)..(j - 1) : text[k] \notin {"open", "close", "break"}
  BY DEF Parses
<1>2. text[i + 1] \in funcs
  BY DEF Parses
<1> HIDE DEF n
<1>a. i \in Nat /\ j \in Nat /\ i + 2 <= j /\ j <= n /\ 1 <= i
  BY <1>0, <1>1 DEF n
<1>3. Is(j) /\ j \in i..n
  <2>1. ASSUME NEW k \in i..(j - 1) PROVE text[k] # "close"
    <3>1. CASE k = i
      BY <3>1
    <3>2. CASE k # i
      <4>1. k \in (i + 1)..(j - 1)
        BY <1>a, <3>2
      <4>. QED  BY <1>1, <4>1
    <3>. QED  BY <3>1, <3>2
  <2>2. j \in i..n
    BY <1>a
  <2>. QED  BY <1>1, <2>1, <2>2
<1>4. Is(c) /\ c \in i..n
  <2> HIDE DEF Is
  <2>. QED  BY <1>3
<1>5. CloseOf(text, i) = c
  BY Zenon DEF CloseOf, n
<1> HIDE DEF c
<1>b. c \in Nat /\ i <= c /\ c <= n
  BY <1>a, <1>4
<1>6. c = j
  <2>1. ~(c < j)
    <3> SUFFICES ASSUME c < j PROVE FALSE
      OBVIOUS
    <3>1. c \in i..(j - 1)
      BY <1>a, <1>b
    <3>. QED  BY <1>3, <1>4, <3>1
  <2>2. ~(j < c)
    <3> SUFFICES ASSUME j < c PROVE FALSE
      OBVIOUS
    <3>1. j \in i..(c - 1)
      BY <1>a, <1>b
    <3>. QED  BY <1>3, <1>4, <3>1
  <2>. QED  BY <1>a, <1>b, <2>1, <2>2
<1>7. i + 1 \in 1..n
  BY <1>0, <1>a, InsideCall
<1>. QED  BY <1>1, <1>2, <1>5, <1>6, <1>7 DEF n

(* A part of a text. *)
LEMMA PartTyped ==
  ASSUME NEW V, NEW text \in Seq(V), NEW i \in Nat, NEW j \in Int, i >= 1, j <= Len(text),
         NEW W, \A k \in i..j : text[k] \in W
  PROVE  SubSeq(text, i, j) \in Seq(W)
  BY SubSeqProperties

(* The arguments of a call are texts, and there is one. *)
LEMMA ArgumentsTyped ==
  ASSUME NEW text \in Seq(Word \cup {"break"}), NEW funcs, Parses(text, funcs),
         NEW i \in 1..Len(text), text[i] = "open"
  PROVE  Arguments(text, i) \in Seq(Text) /\ Arguments(text, i) # <<>>
<1> DEFINE c == CloseOf(text, i)
           s == SubSeq(text, i + 2, c - 1)
<1>1. /\ c \in (i + 2)..Len(text) /\ Len(text) \in Nat
      /\ \A k \in (i + 1)..(c - 1) : text[k] \notin {"open", "close", "break"}
  BY ParsedCall, LenProperties
<1>2. \A k \in 1..Len(text) : text[k] \in Word \cup {"break"}
  BY SeqIsFunction
<1> HIDE DEF c
<1>3. \A k \in (i + 2)..(c - 1) : text[k] \in Word
  <2> SUFFICES ASSUME NEW k \in (i + 2)..(c - 1) PROVE text[k] \in Word
    OBVIOUS
  <2> DEFINE n == Len(text)
  <2>0. c \in Int /\ n \in Nat /\ c <= n /\ i \in Nat /\ 1 <= i
    BY <1>1
  <2> HIDE DEF n
  <2>1. k \in (i + 1)..(c - 1) /\ k \in 1..n
    BY <2>0
  <2>. QED  BY <1>1, <1>2, <2>1 DEF n
<1>4. s \in Seq(Word)
  <2> DEFINE n == Len(text)
  <2>0. c \in Int /\ n \in Nat /\ c <= n /\ i \in Nat /\ 1 <= i
    BY <1>1
  <2> HIDE DEF n
  <2>2. i + 2 \in Nat /\ c - 1 \in Int /\ i + 2 >= 1 /\ c - 1 <= n
    BY <2>0
  <2>1. i + 2 \in Nat /\ c - 1 \in Int /\ i + 2 >= 1 /\ c - 1 <= Len(text)
    BY <2>2 DEF n
  <2>. QED  BY <1>3, <2>1, PartTyped
<1> HIDE DEF s
<1>5. Split(s, "bar") \in Seq(Seq(Word \ {"bar"})) /\ Split(s, "bar") # <<>>
  BY <1>4, SplitTyped
<1>6. Split(s, "bar") \in Seq(Text)
  <2>1. Seq(Word \ {"bar"}) \subseteq Text
    BY SeqMonotonic DEF Text
  <2>. QED  BY <1>5, <2>1, SeqMonotonic
<1>. QED  BY <1>5, <1>6 DEF Arguments, s, c

LEMMA FirstTyped ==
  ASSUME NEW V, NEW s \in Seq(V), s # <<>>
  PROVE  s[1] \in V /\ Last(s) \in V /\ Len(s) >= 1 /\ Len(s) \in Nat
<1>1. Len(s) \in Nat /\ Len(s) >= 1 /\ \A i \in 1..Len(s) : s[i] \in V
  BY SeqIsFunction, EmptySeq
<1>. QED  BY <1>1 DEF Last

LEMMA FrontTyped ==
  ASSUME NEW V, NEW s \in Seq(V), s # <<>>
  PROVE  Front(s) \in Seq(V)
<1>1. Len(s) \in Nat /\ Len(s) >= 1 /\ \A i \in 1..Len(s) : s[i] \in V
  BY SeqIsFunction, EmptySeq
<1>2. Len(s) - 1 \in Int /\ Len(s) - 1 <= Len(s) /\ \A k \in 1..(Len(s) - 1) : s[k] \in V
  BY <1>1
<1>. QED  BY <1>2, PartTyped DEF Front

(* What the environment gives is a text, and so is what it is recorded     *)
(* under.                                                                  *)
LEMMA GetenvTyped ==
  ASSUME NEW name
  PROVE  Getenv(name) \in Text
<1>1. <<>> \in Text
  BY DEF Text
<1>. QED  BY <1>1, ValuesAssumption DEF Getenv, IsSet

LEMMA EnvValueTyped ==
  ASSUME NEW args \in Seq(Text), args # <<>>
  PROVE  EnvValue(args) \in Text
<1> DEFINE names == IF Len(args) = 1 THEN args ELSE Front(args)
           some == {n \in ToSet(names) : Getenv(n) # <<>>}
           set == Only(names, some)
<1>1. names \in Seq(Text)
  BY FrontTyped
<1> HIDE DEF names
<1>3. set = <<>> \/ Getenv(set[1]) \in Text
  BY GetenvTyped
<1>4. Last(args) \in Text /\ <<>> \in Text
  BY FirstTyped DEF Text
<1>5. EnvValue(args) = CASE set # <<>> -> Getenv(set[1])
                         [] set = <<>> /\ Len(args) > 1 -> Last(args)
                         [] OTHER -> <<>>
  BY Zenon DEF EnvValue, names
<1> HIDE DEF set
<1>6. CASE set # <<>>
  BY <1>3, <1>5, <1>6
<1>7. CASE set = <<>>
  BY <1>4, <1>5, <1>7
<1>. QED  BY <1>6, <1>7

LEMMA ConcatTyped ==
  ASSUME NEW V, NEW a \in Seq(V), NEW b \in Seq(V)
  PROVE  a \o b \in Seq(V)
  OBVIOUS

LEMMA EnvKeyTyped ==
  ASSUME NEW args \in Seq(Text), args # <<>>
  PROVE  EnvKey(args) \in Text
<1>1. args[1] \in Text /\ Len(args) \in Nat /\ Len(args) >= 1
  BY FirstTyped
<1>2. <<"comma">> \in Text /\ "comma" \in Word /\ <<>> \in Text
  <2>2. "comma" \in Word
    BY WordsAssumption
  <2>. QED  BY <2>2 DEF Text
<1> DEFINE rest == IF Len(args) = 1 THEN <<>> ELSE Join(Tail(args), "comma")
<1>3. rest \in Text
  <2>1. CASE Len(args) = 1
    BY <1>2, <2>1
  <2>2. CASE Len(args) # 1
    <3> DEFINE V == Text
    <3>1. Tail(args) \in Seq(V) /\ Tail(args) # <<>>
      <4> DEFINE n == Len(args)
      <4>0. n \in Nat /\ n >= 1 /\ n # 1
        BY <1>1, <2>2
      <4> HIDE DEF n
      <4>1. args \in Seq(V) /\ n >= 2
        BY <4>0
      <4> HIDE DEF V
      <4>2. Tail(args) \in Seq(V) /\ Len(Tail(args)) = n - 1
        BY <4>0, <4>1, HeadTailProperties DEF n
      <4> DEFINE rest2 == Tail(args)
      <4>3. Len(rest2) = n - 1
        BY <4>2
      <4> HIDE DEF rest2
      <4>4. rest2 # <<>>
        BY <4>0, <4>3, EmptySeq
      <4>. QED  BY <4>2, <4>4 DEF rest2
    <3>2. Tail(args) \in Seq(Seq(Word))
      BY <3>1 DEF Text
    <3>3. Join(Tail(args), "comma") \in Seq(Word)
      <4> DEFINE parts == Tail(args)
                 mark == "comma"
      <4>1. parts \in Seq(Seq(Word)) /\ parts # <<>> /\ mark \in Word
        BY <1>2, <3>1, <3>2
      <4> HIDE DEF parts, mark
      <4>2. Join(parts, mark) \in Seq(Word)
        BY <4>1, JoinFacts
      <4>. QED  BY <4>2 DEF parts, mark
    <3>. QED  BY <2>2, <3>3 DEF Text
  <2>. QED  BY <2>1, <2>2
<1> HIDE DEF rest
<1>4. args[1] \o <<"comma">> \o rest \in Text
  <2> DEFINE a == args[1]
             b == <<"comma">>
  <2>1. a \in Seq(Word) /\ b \in Seq(Word) /\ rest \in Seq(Word)
    BY <1>1, <1>2, <1>3 DEF Text
  <2> HIDE DEF a, b
  <2>2. a \o b \o rest \in Seq(Word)
    BY <2>1
  <2>. QED  BY <2>2 DEF a, b, Text
<1>. QED  BY <1>4 DEF EnvKey, rest

-----------------------------------------------------------------------------
(* What is written *)

LEMMA FrontOf ==
  ASSUME NEW V, NEW s \in Seq(V)
  PROVE  Front(s) \in Seq(V)
<1>1. Len(s) \in Nat /\ \A i \in 1..Len(s) : s[i] \in V
  BY SeqIsFunction
<1>2. Len(s) - 1 \in Int /\ Len(s) - 1 <= Len(s) /\ \A k \in 1..(Len(s) - 1) : s[k] \in V
  BY <1>1
<1>. QED  BY <1>2, PartTyped DEF Front

(* A path is a text. *)
LEMMA ResolveTyped ==
  ASSUME NEW dir \in Text, NEW path \in Text
  PROVE  Resolve(dir, path) \in Text
<1>1. dir \o path \in Text
  BY ConcatTyped DEF Text
<1>. QED  BY <1>1 DEF Resolve

LEMMA OnlyOf ==
  ASSUME NEW V, NEW s \in Seq(V), NEW S
  PROVE  Only(s, S) \in Seq(V)
<1>1. Seq(V \cap S) \subseteq Seq(V)
  BY SeqMonotonic
<1>. QED  BY <1>1, OnlyTyped

(* An ordered map of texts stays one. *)
LEMMA SetTyped ==
  ASSUME NEW map \in Seq(Resource), NEW key \in Text, NEW value \in Text
  PROVE  Set(map, key, value) \in Seq(Resource)
<1>1. Len(map) \in Nat /\ DOMAIN map = 1..Len(map) /\ \A i \in 1..Len(map) : map[i] \in Resource
  BY SeqIsFunction
<1>2. CASE \E i \in DOMAIN map : map[i].key = key
  <2> DEFINE t == [i \in DOMAIN map |-> IF map[i].key = key
                     THEN [map[i] EXCEPT !.value = value] ELSE map[i]]
  <2>1. \A i \in 1..Len(map) : [map[i] EXCEPT !.value = value] \in Resource
    BY <1>1 DEF Resource
  <2>2. t \in [1..Len(map) -> Resource]
    BY <1>1, <2>1
  <2>3. Set(map, key, value) = t
    BY <1>2 DEF Set
  <2> HIDE DEF t
  <2>. QED  BY <1>1, <2>2, <2>3, IsSequence
<1>3. CASE ~ \E i \in DOMAIN map : map[i].key = key
  <2>1. [key |-> key, value |-> value] \in Resource
    BY DEF Resource
  <2>2. Append(map, [key |-> key, value |-> value]) \in Seq(Resource)
    BY <2>1, AppendProperties
  <2>. QED  BY <1>3, <2>2 DEF Set
<1>. QED  BY <1>2, <1>3

(* An encoded text, and one that is written, is a text. *)
LEMMA EncodedTyped ==
  ASSUME NEW text \in Text
  PROVE  Encoded(text) \in Text /\ Decoded(text) \in Text
<1>1. Len(text) \in Nat /\ DOMAIN text = 1..Len(text) /\ \A i \in 1..Len(text) : text[i] \in Word
  BY SeqIsFunction DEF Text
<1>2. "quote" \in Word /\ "escaped" \in Word
  BY WordsAssumption DEF Marks
<1>3. Encoded(text) \in [1..Len(text) -> Word]
  BY <1>1, <1>2 DEF Encoded
<1>4. Decoded(text) \in [1..Len(text) -> Word]
  BY <1>1, <1>2 DEF Decoded
<1>. QED  BY <1>1, <1>3, <1>4, IsSequence DEF Text

LEMMA MarshalledTyped ==
  ASSUME NEW path, NEW text \in Text
  PROVE  Marshalled(path, text) \in Text
<1>1. Encoded(text) \in Text
  BY EncodedTyped
<1>2. Only(Encoded(text), ToSet(Encoded(text)) \ {"none"}) \in Text
  BY <1>1, OnlyOf DEF Text
<1>. QED  BY <1>1, <1>2 DEF Marshalled

(* A call that is inserted is a text. *)
LEMMA CallTyped ==
  ASSUME NEW fn \in Word, NEW args \in Seq(Text), args # <<>>
  PROVE  Call(fn, args) \in Text
<1> DEFINE mark == "bar"
           a == <<"open", fn>>
           b == <<"close">>
           j == Join(args, mark)
<1>1. mark \in Word /\ "open" \in Word /\ "close" \in Word
  BY WordsAssumption DEF Marks
<1>2. args \in Seq(Seq(Word))
  BY DEF Text
<1>3. a \in Seq(Word) /\ b \in Seq(Word)
  BY <1>1
<1>4. Call(fn, args) = a \o j \o b
  BY DEF Call
<1> HIDE DEF a, b, mark
<1>5. j \in Seq(Word)
  BY <1>1, <1>2, JoinFacts
<1> HIDE DEF j
<1>6. a \o j \in Seq(Word)
  BY <1>3, <1>5, ConcatTyped
<1>7. (a \o j) \o b \in Seq(Word)
  BY <1>3, <1>6, ConcatTyped
<1>. QED  BY <1>4, <1>7 DEF Text

(* So is the name of what a Terraform state gives. *)
LEMMA TFStateKeyTyped ==
  ASSUME NEW state \in Seq(Resource), NEW i \in DOMAIN state
  PROVE  TFStateKey(state, state[i].value) \in Text
<1> DEFINE value == state[i].value
           same == Only(state, {r \in ToSet(state) : r.value = value})
           first == same[1].key
           of == Only(same, {r \in ToSet(same) : first[1] = "data" /\ r.key[1] = first[2]})
<1>1. DOMAIN state = 1..Len(state) /\ state[i] \in {r \in ToSet(state) : r.value = value}
  BY SeqIsFunction DEF ToSet
<1>2. same # <<>>
  BY <1>1, OnlyFinds
<1>3. same \in Seq(Resource)
  BY OnlyOf
<1>4. TFStateKey(state, value) = IF of = <<>> THEN first ELSE of[1].key
  BY Zenon DEF TFStateKey
<1> HIDE DEF same
<1>5. same[1] \in Resource
  BY <1>2, <1>3, FirstTyped
<1>6. of \in Seq(Resource)
  BY <1>3, OnlyOf
<1> HIDE DEF of
<1>7. of # <<>> => of[1] \in Resource
  BY <1>6, FirstTyped
<1>. QED  BY <1>4, <1>5, <1>7 DEF Resource

(* The elements of an ordered set, counted by what comes before them.      *)
LEMMA Ranked ==
  ASSUME NEW S, IsFiniteSet(S), NEW before \in [S -> SUBSET S],
         \A i \in S : i \notin before[i],
         \A i, j \in S : i = j \/ i \in before[j] \/ j \in before[i],
         \A i, j \in S : j \in before[i] => before[j] \subseteq before[i],
         NEW k \in 1..Cardinality(S)
  PROVE  \E i \in S : Cardinality(before[i]) = k - 1
<1> DEFINE n == Cardinality(S)
           rank == [i \in S |-> Cardinality(before[i])]
<1>1. n \in Nat /\ \A i \in S : IsFiniteSet(before[i]) /\ Cardinality(before[i]) \in Nat
  BY FS_CardinalityType, FS_Subset
<1>2. \A i \in S : Cardinality(before[i]) < n
  <2>1. TAKE i \in S
  <2>2. Cardinality(before[i]) <= n /\ (n = Cardinality(before[i]) => S = before[i])
    BY FS_Subset
  <2>. QED  BY <1>1, <2>2
<1>3. ASSUME NEW i \in S, NEW j \in S, j \in before[i]
      PROVE  Cardinality(before[j]) < Cardinality(before[i])
  <2>1. before[j] \in SUBSET before[i] /\ before[j] # before[i]
    BY <1>3
  <2>2. Cardinality(before[j]) <= Cardinality(before[i])
        /\ (Cardinality(before[i]) = Cardinality(before[j]) => before[i] = before[j])
    BY <1>1, <2>1, FS_Subset
  <2>. QED  BY <1>1, <2>1, <2>2
<1>4. \A i, j \in S : Cardinality(before[i]) = Cardinality(before[j]) => i = j
  <2>1. TAKE i, j \in S
  <2>2. HAVE Cardinality(before[i]) = Cardinality(before[j])
  <2>3. Cardinality(before[i]) \in Nat
    BY <1>1
  <2>4. i \notin before[j] /\ j \notin before[i]
    BY <1>3, <2>2, <2>3
  <2>. QED  BY <2>4
<1>5. IsFiniteSet(0..(n - 1)) /\ Cardinality(0..(n - 1)) = n
  <2>1. 0 \in Int /\ n - 1 \in Int
    BY <1>1
  <2>2. IsFiniteSet(0..(n - 1)) /\ Cardinality(0..(n - 1)) = IF 0 > n - 1 THEN 0 ELSE (n - 1) - 0 + 1
    BY <2>1, FS_Interval
  <2> HIDE DEF n
  <2>. QED  BY <1>1, <2>2
<1>6. rank \in [S -> 0..(n - 1)]
  <2>1. \A i \in S : Cardinality(before[i]) \in 0..(n - 1)
    <3> HIDE DEF n
    <3>. QED  BY <1>1, <1>2
  <2>. QED  BY <2>1
<1>7. rank \in Injection(S, 0..(n - 1))
  <2>1. \A i, j \in S : rank[i] = rank[j] => i = j
    BY <1>4
  <2> HIDE DEF rank
  <2>. QED  BY <1>6, <2>1 DEF Injection, IsInjective
<1>8. rank \in Surjection(S, 0..(n - 1))
  <2> HIDE DEF rank
  <2>. QED  BY <1>5, <1>7, FS_Injection
<1>9. k - 1 \in 0..(n - 1)
  <2>1. k \in 1..n
    OBVIOUS
  <2> HIDE DEF n
  <2>. QED  BY <1>1, <2>1
<1>10. \E i \in S : rank[i] = k - 1
  <2> HIDE DEF rank
  <2>. QED  BY <1>8, <1>9 DEF Surjection
<1>. QED  BY <1>10

=============================================================================
