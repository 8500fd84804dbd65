----------------------------- MODULE PullProofs -----------------------------
(***************************************************************************)
(* Proofs about the texts that are rendered and written, and the stack of  *)
(* those being rendered, for every environment, every project, state       *)
(* machine and set of commands, and every choice of faults.                *)
(***************************************************************************)
EXTENDS PullProps, TemplateProofs

-----------------------------------------------------------------------------
(* Sequences *)

(* A sequence of anything is a sequence of its elements. *)
LEMMA SeqOfItsElements ==
  ASSUME NEW S, NEW s \in Seq(S)
  PROVE  IsSeq(s)
<1>1. /\ Len(s) \in Nat
      /\ DOMAIN s = 1..Len(s)
      /\ s = [i \in 1..Len(s) |-> s[i]]
  BY LenProperties
<1>2. \A i \in 1..Len(s) : s[i] \in ToSet(s)
  BY <1>1 DEF ToSet
<1>3. s \in [1..Len(s) -> ToSet(s)]
  BY <1>1, <1>2
<1>4. \A n \in Nat : s \in [1..n -> ToSet(s)] => s \in Seq(ToSet(s))
  BY SeqDef, Zenon
<1>. QED  BY <1>1, <1>3, <1>4 DEF IsSeq

LEMMA SeqFacts ==
  ASSUME NEW s, IsSeq(s)
  PROVE  /\ Len(s) \in Nat
         /\ DOMAIN s = 1..Len(s)
         /\ s = <<>> <=> Len(s) = 0
         /\ s # <<>> => Len(s) >= 1
<1>1. s \in Seq(ToSet(s))
  BY DEF IsSeq
<1>2. Len(s) \in Nat /\ DOMAIN s = 1..Len(s)
  BY <1>1, LenProperties
<1>3. s # <<>> => Len(s) \in Nat \ {0}
  BY <1>1, EmptySeq
<1>4. Len(<<>>) = 0
  OBVIOUS
<1>. QED  BY <1>2, <1>3, <1>4

LEMMA OneElement ==
  ASSUME NEW e
  PROVE  IsSeq(<<e>>)
<1>1. <<e>> \in Seq({e})
  OBVIOUS
<1>. QED  BY <1>1, SeqOfItsElements

(* A function on 1..n is a sequence of length n. *)
LEMMA FunctionIsSeq ==
  ASSUME NEW n \in Nat, NEW s, NEW T, s \in [1..n -> T]
  PROVE  IsSeq(s) /\ Len(s) = n
<1>1. s \in Seq(T)
  BY SeqDef, Zenon
<1>2. Len(s) \in Nat /\ DOMAIN s = 1..Len(s)
  BY <1>1, LenProperties
<1>3. DOMAIN s = 1..n
  OBVIOUS
<1>4. Len(s) = n
  BY <1>2, <1>3
<1>. QED  BY <1>1, <1>4, SeqOfItsElements

LEMMA AppendFacts ==
  ASSUME NEW s, IsSeq(s), NEW e
  PROVE  /\ IsSeq(Append(s, e))
         /\ Len(Append(s, e)) = Len(s) + 1
         /\ \A i \in 1..Len(s) : Append(s, e)[i] = s[i]
         /\ Append(s, e)[Len(s) + 1] = e
<1> DEFINE S == ToSet(s) \cup {e}
<1>1. s \in Seq(ToSet(s)) /\ ToSet(s) \subseteq S /\ e \in S
  BY DEF IsSeq
<1>2. s \in Seq(S)
  BY <1>1, SeqMonotonic
<1>3. /\ Append(s, e) \in Seq(S)
      /\ Len(Append(s, e)) = Len(s) + 1
      /\ \A i \in 1..Len(s) : Append(s, e)[i] = s[i]
      /\ Append(s, e)[Len(s) + 1] = e
  BY <1>1, <1>2, AppendProperties
<1>. QED  BY <1>3, SeqOfItsElements

LEMMA PrefixFacts ==
  ASSUME NEW s, IsSeq(s), NEW n \in Nat, n <= Len(s)
  PROVE  /\ IsSeq(SubSeq(s, 1, n))
         /\ Len(SubSeq(s, 1, n)) = n
         /\ \A i \in 1..n : SubSeq(s, 1, n)[i] = s[i]
<1>1. DOMAIN s = 1..Len(s) /\ Len(s) \in Nat
  BY SeqFacts
<1>2. \A i \in 1..n : s[i] \in ToSet(s)
  BY <1>1 DEF ToSet
<1>3. /\ SubSeq(s, 1, n) \in Seq(ToSet(s))
      /\ Len(SubSeq(s, 1, n)) = IF 1 <= n THEN n - 1 + 1 ELSE 0
      /\ \A i \in 1..(n - 1 + 1) : SubSeq(s, 1, n)[i] = s[1 + i - 1]
  BY <1>2, SubSeqProperties
<1>4. IsSeq(SubSeq(s, 1, n))
  BY <1>3, SeqOfItsElements
<1>5. n - 1 + 1 = n /\ \A i \in 1..n : 1 + i - 1 = i
  OBVIOUS
<1>6. Len(SubSeq(s, 1, n)) = n
  BY <1>3, <1>5
<1>. QED  BY <1>3, <1>4, <1>5, <1>6

LEMMA FrontFacts ==
  ASSUME NEW s, IsSeq(s), s # <<>>
  PROVE  /\ IsSeq(Front(s))
         /\ Len(Front(s)) = Len(s) - 1
         /\ \A i \in 1..(Len(s) - 1) : Front(s)[i] = s[i]
<1>1. Len(s) \in Nat /\ Len(s) >= 1
  BY SeqFacts
<1>2. Len(s) - 1 \in Nat /\ Len(s) - 1 <= Len(s)
  BY <1>1
<1>. QED  BY <1>2, PrefixFacts DEF Front

(* The last element is replaced. *)
LEMMA ReplaceLast ==
  ASSUME NEW s, IsSeq(s), s # <<>>, NEW e
  PROVE  LET t == Append(Front(s), e) IN
         /\ IsSeq(t)
         /\ Len(t) = Len(s)
         /\ \A i \in 1..(Len(s) - 1) : t[i] = s[i]
         /\ t[Len(s)] = e
<1>1. Len(s) \in Nat /\ Len(s) >= 1
  BY SeqFacts
<1>. QED  BY <1>1, FrontFacts, AppendFacts

(* The last element is replaced, and one is added. *)
LEMMA ReplaceLastAndAdd ==
  ASSUME NEW s, IsSeq(s), s # <<>>, NEW d, NEW e
  PROVE  LET t == Front(s) \o <<d, e>> IN
         /\ IsSeq(t)
         /\ Len(t) = Len(s) + 1
         /\ \A i \in 1..(Len(s) - 1) : t[i] = s[i]
         /\ t[Len(s)] = d /\ t[Len(s) + 1] = e
<1> DEFINE S == ToSet(Front(s)) \cup {d, e}
<1>1. Len(s) \in Nat /\ Len(s) >= 1
  BY SeqFacts
<1>2. Front(s) \in Seq(ToSet(Front(s)))
  BY FrontFacts DEF IsSeq
<1>3. Front(s) \in Seq(S)
  BY <1>2, SeqMonotonic
<1>4. <<d, e>> \in Seq(S) /\ Len(<<d, e>>) = 2 /\ <<d, e>>[1] = d /\ <<d, e>>[2] = e
  OBVIOUS
<1> HIDE DEF S
<1>5. /\ Front(s) \o <<d, e>> \in Seq(S)
      /\ Len(Front(s) \o <<d, e>>) = Len(Front(s)) + 2
      /\ \A i \in 1..(Len(Front(s)) + 2) :
           (Front(s) \o <<d, e>>)[i] =
             IF i <= Len(Front(s)) THEN Front(s)[i] ELSE <<d, e>>[i - Len(Front(s))]
  BY <1>3, <1>4, ConcatProperties
<1>6. IsSeq(Front(s) \o <<d, e>>)
  BY <1>5, SeqOfItsElements
<1>7. Len(Front(s)) = Len(s) - 1 /\ \A i \in 1..(Len(s) - 1) : Front(s)[i] = s[i]
  BY FrontFacts
<1>. QED  BY <1>1, <1>4, <1>5, <1>6, <1>7

-----------------------------------------------------------------------------
(* Ordered maps *)

LEMMA NothingAsked == IsMap(<<>>) /\ IsSeq(<<>>)
BY DEF IsMap, IsSeq

(* OrderdMap.Set keeps every key once. *)
LEMMA SetKeepsMap ==
  ASSUME NEW m, IsMap(m), NEW k, NEW v
  PROVE  IsMap(Set(m, k, v))
<1>1. Len(m) \in Nat /\ DOMAIN m = 1..Len(m) /\ IsSeq(m)
  BY SeqFacts DEF IsMap
<1>2. CASE \E i \in DOMAIN m : m[i].key = k
  <2> DEFINE e(i) == IF m[i].key = k THEN [m[i] EXCEPT !.value = v] ELSE m[i]
             t == [i \in DOMAIN m |-> e(i)]
  <2>1. Set(m, k, v) = t
    BY <1>2 DEF Set
  <2>2. t \in [1..Len(m) -> {e(i) : i \in DOMAIN m}]
    BY <1>1
  <2>3. IsSeq(t) /\ DOMAIN t = DOMAIN m
    BY <1>1, <2>2, FunctionIsSeq
  <2>4. \A i \in DOMAIN m : DOMAIN e(i) = {"key", "value"} /\ e(i).key = m[i].key
    BY DEF IsMap
  <2>5. \A i \in DOMAIN m : t[i] = e(i)
    OBVIOUS
  <2> HIDE DEF t, e
  <2>. QED  BY <2>1, <2>3, <2>4, <2>5 DEF IsMap
<1>3. CASE ~ \E i \in DOMAIN m : m[i].key = k
  <2> DEFINE r == [key |-> k, value |-> v]
  <2>1. Set(m, k, v) = Append(m, r)
    BY <1>3 DEF Set
  <2>2. DOMAIN r = {"key", "value"} /\ r.key = k
    OBVIOUS
  <2> HIDE DEF r
  <2>3. /\ IsSeq(Append(m, r))
        /\ Len(Append(m, r)) = Len(m) + 1
        /\ \A i \in 1..Len(m) : Append(m, r)[i] = m[i]
        /\ Append(m, r)[Len(m) + 1] = r
    BY <1>1, AppendFacts
  <2>4. DOMAIN Append(m, r) = 1..(Len(m) + 1)
    BY <2>3, SeqFacts
  <2>. QED  BY <1>1, <1>3, <2>1, <2>2, <2>3, <2>4 DEF IsMap
<1>. QED  BY <1>2, <1>3

-----------------------------------------------------------------------------
(* Moves of the stack *)

StackTyped ==
  /\ IsSeq(frames) /\ IsSeq(nested)
  /\ \A i \in DOMAIN frames : DOMAIN frames[i] = FrameFields

StackInv == StackTyped /\ StackKept /\ FilesNested

(* What the invariant says of the stack, by positions. *)
LEMMA StackFacts ==
  ASSUME StackInv
  PROVE  /\ Len(frames) \in Nat /\ DOMAIN frames = 1..Len(frames)
         /\ Len(nested) \in Nat /\ DOMAIN nested = 1..Len(nested)
         /\ frames = <<>> => Len(frames) = 0 /\ Len(nested) = 0 /\ nested = <<>>
         /\ frames # <<>> => Len(frames) >= 1 /\ Len(frames) = Len(nested) + 1
BY SeqFacts DEF StackInv, StackTyped, StackKept

(* An error leaves nothing on the stack. *)
LEMMA EmptiedStack ==
  ASSUME frames' = <<>>, nested' = <<>>
  PROVE  StackInv'
BY DEF StackInv, StackTyped, StackKept, FilesNested, IsSeq

LEMMA SameStack ==
  ASSUME StackInv, UNCHANGED <<frames, nested, stage, disk>>
  PROVE  StackInv'
BY DEF StackInv, StackTyped, StackKept, FilesNested

(* Nothing is rendered, before and after. *)
LEMMA NoStack ==
  ASSUME StackInv, frames = <<>>, UNCHANGED <<frames, nested>>
  PROVE  StackInv'
<1>1. nested = <<>>
  BY StackFacts
<1>. QED  BY <1>1, EmptiedStack

(* The file on top of a text that goes on is there. *)
LEMMA UnfinishedIsThere ==
  ASSUME StackInv, frames # <<>>, Unfinished(Top), NEW i \in DOMAIN nested
  PROVE  nested[i] \in DOMAIN disk
<1>1. SUFFICES ASSUME nested[i] \notin DOMAIN disk
               PROVE  FALSE
  OBVIOUS
<1>2. i = Len(nested) /\ frames[i + 1].text = <<>> /\ frames[i + 1].next = 1
  BY <1>1 DEF StackInv, FilesNested
<1>3. i + 1 = Len(frames)
  BY <1>2, StackFacts
<1>4. Top.text = <<>> /\ Top.next = 1
  BY <1>2, <1>3 DEF Top, Last
<1>. QED  BY <1>4 DEF Unfinished

(* The topmost text goes on, in its place. *)
LEMMA TopGoesOn ==
  ASSUME StackInv, frames # <<>>, Unfinished(Top),
         NEW f, DOMAIN f = FrameFields, f.dir = Top.dir,
         frames' = Append(Front(frames), f),
         UNCHANGED <<nested, stage, disk>>
  PROVE  StackInv'
<1>1. /\ IsSeq(frames')
      /\ Len(frames') = Len(frames)
      /\ \A i \in 1..(Len(frames) - 1) : frames'[i] = frames[i]
      /\ frames'[Len(frames)] = f
  BY ReplaceLast DEF StackInv, StackTyped
<1>2. /\ Len(frames) \in Nat /\ Len(frames) >= 1 /\ Len(frames) = Len(nested) + 1
      /\ DOMAIN nested = 1..Len(nested) /\ Len(nested) \in Nat
      /\ DOMAIN frames = 1..Len(frames)
  BY StackFacts
<1>3. DOMAIN frames' = 1..Len(frames) /\ frames' # <<>>
  BY <1>1, <1>2, SeqFacts
<1>4. \A i \in DOMAIN frames' :
        DOMAIN frames'[i] = FrameFields /\ frames'[i].dir = frames[i].dir
  BY <1>1, <1>2, <1>3 DEF StackInv, StackTyped, Top, Last
<1>5. StackTyped'
  BY <1>1, <1>4 DEF StackInv, StackTyped
<1>6. \A i \in DOMAIN nested : i + 1 \in DOMAIN frames'
  BY <1>2, <1>3
<1>7. StackKept'
  BY <1>1, <1>2, <1>3, <1>4, <1>6 DEF StackInv, StackKept
<1>8. FilesNested'
  BY UnfinishedIsThere DEF FilesNested
<1>. QED  BY <1>5, <1>7, <1>8 DEF StackInv

(* A file that is not on the stack is put on it. *)
LEMMA FileIsNested ==
  ASSUME StackInv, frames # <<>>, Unfinished(Top),
         NEW target, ~Nested(target),
         NEW f, DOMAIN f = FrameFields, f.dir = Top.dir,
         frames' = Front(frames) \o <<f, NewFrame(Contents(target), Dir(target))>>,
         nested' = Append(nested, target),
         UNCHANGED <<stage, disk>>
  PROVE  StackInv'
<1> DEFINE g == NewFrame(Contents(target), Dir(target))
<1>1. /\ IsSeq(frames')
      /\ Len(frames') = Len(frames) + 1
      /\ \A i \in 1..(Len(frames) - 1) : frames'[i] = frames[i]
      /\ frames'[Len(frames)] = f /\ frames'[Len(frames) + 1] = g
  BY ReplaceLastAndAdd DEF StackInv, StackTyped
<1>2. /\ IsSeq(nested')
      /\ Len(nested') = Len(nested) + 1
      /\ \A i \in 1..Len(nested) : nested'[i] = nested[i]
      /\ nested'[Len(nested) + 1] = target
  BY AppendFacts DEF StackInv, StackTyped
<1>3. /\ Len(frames) \in Nat /\ Len(frames) >= 1 /\ Len(frames) = Len(nested) + 1
      /\ DOMAIN nested = 1..Len(nested) /\ Len(nested) \in Nat
      /\ DOMAIN frames = 1..Len(frames)
  BY StackFacts
<1>4. /\ DOMAIN frames' = 1..(Len(frames) + 1) /\ frames' # <<>>
      /\ DOMAIN nested' = 1..(Len(nested) + 1)
  BY <1>1, <1>2, <1>3, SeqFacts
<1>5. /\ DOMAIN g = FrameFields /\ g.dir = Dir(target) /\ g.text = Contents(target)
      /\ g.next = 1
  BY DEF NewFrame, FrameFields
<1> HIDE DEF g
<1>6. \A i \in DOMAIN frames' : DOMAIN frames'[i] = FrameFields
  BY <1>1, <1>3, <1>4, <1>5 DEF StackInv, StackTyped
<1>7. \A i \in 1..Len(frames) : frames'[i].dir = frames[i].dir
  BY <1>1, <1>3 DEF Top, Last
<1>8. \A i \in DOMAIN nested' : frames'[i + 1].dir = Dir(nested'[i])
  <2>1. TAKE i \in DOMAIN nested'
  <2>2. CASE i = Len(nested) + 1
    BY <1>1, <1>2, <1>3, <1>5, <2>2
  <2>3. CASE i \in DOMAIN nested
    <3>1. i + 1 \in 1..Len(frames) /\ nested'[i] = nested[i]
      BY <1>2, <1>3, <2>3
    <3>. QED  BY <1>7, <2>3, <3>1 DEF StackInv, StackKept
  <2>. QED  BY <1>3, <1>4, <2>1, <2>2, <2>3
<1>9. \A i, j \in DOMAIN nested' : EqualFold(nested'[i], nested'[j]) => i = j
  <2>1. \A i \in 1..Len(nested) : ~EqualFold(nested'[i], target)
    BY <1>2, <1>3 DEF Nested
  <2>2. \A i \in 1..Len(nested) : ~EqualFold(target, nested'[i])
    BY <2>1 DEF EqualFold
  <2>3. \A i, j \in 1..Len(nested) : EqualFold(nested'[i], nested'[j]) => i = j
    BY <1>2, <1>3 DEF StackInv, StackKept
  <2>. QED  BY <1>2, <1>3, <1>4, <2>1, <2>2, <2>3
<1>10. StackTyped'
  BY <1>1, <1>2, <1>6 DEF StackTyped
<1>11. StackKept'
  <2>1. Len(nested') = Len(frames') - 1
    BY <1>1, <1>2, <1>3
  <2>2. stage' \in {"locations", "config", "definition"}
    BY DEF StackInv, StackKept
  <2>. QED  BY <1>4, <1>8, <1>9, <2>1, <2>2 DEF StackKept
<1>12. FilesNested'
  <2> SUFFICES ASSUME NEW i \in DOMAIN nested'
               PROVE  /\ nested'[i] \in DOMAIN disk \/ i = Len(nested')
                      /\ nested'[i] \notin DOMAIN disk =>
                           frames'[i + 1].text = <<>> /\ frames'[i + 1].next = 1
    BY DEF FilesNested
  <2>1. CASE i \in DOMAIN nested
    BY <1>2, <1>3, <2>1, UnfinishedIsThere
  <2>2. CASE i = Len(nested) + 1
    <3>1. target \notin DOMAIN disk => Contents(target) = <<>>
      BY DEF Contents, ThereIs
    <3>. QED  BY <1>1, <1>2, <1>3, <1>5, <2>2, <3>1
  <2>. QED  BY <1>3, <1>4, <2>1, <2>2
<1>. QED  BY <1>10, <1>11, <1>12 DEF StackInv

(* A nested text is finished, and the text that nests it goes on. *)
LEMMA FileReturns ==
  ASSUME StackInv, Len(frames) > 1,
         NEW f, DOMAIN f = FrameFields, f.dir = frames[Len(frames) - 1].dir,
         frames' = Append(SubSeq(frames, 1, Len(frames) - 2), f),
         nested' = Front(nested),
         UNCHANGED <<stage, disk>>
  PROVE  StackInv'
<1>0. PICK n : n = Len(frames)
  OBVIOUS
<1>1. /\ n \in Nat /\ n >= 2 /\ n = Len(nested) + 1 /\ n - 2 \in Nat
      /\ DOMAIN nested = 1..(n - 1) /\ frames # <<>> /\ nested # <<>>
      /\ DOMAIN frames = 1..n
  <2>1. n \in Nat /\ DOMAIN frames = 1..n
    BY <1>0, StackFacts
  <2>2. n >= 2 /\ frames # <<>>
    BY <1>0, <2>1, StackFacts
  <2>3. n = Len(nested) + 1 /\ Len(nested) \in Nat /\ DOMAIN nested = 1..Len(nested)
    BY <1>0, <2>2, StackFacts
  <2>4. Len(nested) = n - 1 /\ Len(nested) >= 1
    BY <2>1, <2>2, <2>3
  <2>5. nested # <<>>
    BY <2>4, SeqFacts DEF StackInv, StackTyped
  <2>. QED  BY <2>1, <2>2, <2>3, <2>4, <2>5
<1>2. PICK s : s = SubSeq(frames, 1, n - 2)
  OBVIOUS
<1>3. /\ IsSeq(frames')
      /\ Len(frames') = n - 1
      /\ \A i \in 1..(n - 2) : frames'[i] = frames[i]
      /\ frames'[n - 1] = f
  <2>1. IsSeq(s) /\ Len(s) = n - 2 /\ \A i \in 1..(n - 2) : s[i] = frames[i]
    <3>1. n - 2 <= Len(frames) /\ IsSeq(frames)
      BY <1>0, <1>1 DEF StackInv, StackTyped
    <3>. QED  BY <1>1, <1>2, <3>1, PrefixFacts
  <2>2. frames' = Append(s, f)
    BY <1>0, <1>2
  <2>3. Len(s) + 1 = n - 1
    BY <1>1, <2>1
  <2>4. /\ IsSeq(Append(s, f))
        /\ Len(Append(s, f)) = Len(s) + 1
        /\ \A i \in 1..Len(s) : Append(s, f)[i] = s[i]
        /\ Append(s, f)[Len(s) + 1] = f
    BY <2>1, AppendFacts
  <2>. QED  BY <2>1, <2>2, <2>3, <2>4
<1>4. /\ IsSeq(nested')
      /\ Len(nested') = n - 2
      /\ \A i \in 1..(n - 2) : nested'[i] = nested[i]
  <2>1. IsSeq(nested) /\ nested # <<>>
    BY <1>1 DEF StackInv, StackTyped
  <2>2. Len(nested) - 1 = n - 2
    BY <1>0, <1>1, StackFacts
  <2>. QED  BY <2>1, <2>2, FrontFacts
<1>5. /\ DOMAIN frames' = 1..(n - 1) /\ frames' # <<>>
      /\ DOMAIN nested' = 1..(n - 2)
  BY <1>1, <1>3, <1>4, SeqFacts
<1>6. \A i \in DOMAIN frames' :
        DOMAIN frames'[i] = FrameFields /\ frames'[i].dir = frames[i].dir
  BY <1>1, <1>3, <1>5 DEF StackInv, StackTyped
<1>7. StackTyped'
  BY <1>3, <1>4, <1>6 DEF StackTyped
<1>8. \A i \in DOMAIN nested' :
        /\ i \in DOMAIN nested /\ i # Len(nested)
        /\ i + 1 \in DOMAIN frames' /\ nested'[i] = nested[i]
  BY <1>1, <1>4, <1>5
<1>9. \A i \in DOMAIN nested' : frames'[i + 1].dir = Dir(nested'[i])
  BY <1>6, <1>8 DEF StackInv, StackKept
<1>10. \A i, j \in DOMAIN nested' : EqualFold(nested'[i], nested'[j]) => i = j
  BY <1>8 DEF StackInv, StackKept
<1>11. StackKept'
  BY <1>1, <1>3, <1>4, <1>5, <1>9, <1>10 DEF StackInv, StackKept
<1>12. FilesNested'
  BY <1>8 DEF StackInv, FilesNested
<1>. QED  BY <1>7, <1>11, <1>12 DEF StackInv

(* The first text is put on the stack. *)
LEMMA TextBegins ==
  ASSUME StackInv, frames = <<>>, stage \in {"locations", "config", "definition"},
         NEW f, DOMAIN f = FrameFields, frames' = <<f>>,
         UNCHANGED <<nested, stage>>
  PROVE  StackInv'
<1>1. nested' = <<>>
  BY StackFacts
<1>2. IsSeq(frames') /\ Len(frames') = 1 /\ DOMAIN frames' = {1}
  BY DEF IsSeq, ToSet
<1>3. IsSeq(nested') /\ Len(nested') = 0 /\ DOMAIN nested' = {}
  BY <1>1 DEF IsSeq
<1>. QED  BY <1>1, <1>2, <1>3 DEF StackInv, StackTyped, StackKept, FilesNested

-----------------------------------------------------------------------------
(* The invariant, in the parts that actions change one at a time *)

LoaderTyped ==
  /\ DOMAIN loader = DOMAIN NewLoader
  /\ IsSeq(loader.states)
  /\ IsMap(loader.envs) /\ IsMap(loader.mustEnvs)

FilesTyped ==
  /\ IsFiniteSet(DOMAIN disk)
  /\ "states" \in DOMAIN config /\ IsSeq(config.states)

RestTyped ==
  /\ cmd \in Commands /\ machine \in Machines
  /\ stage \in Stages
  /\ DOMAIN cfg = DOMAIN NewConfig /\ IsSeq(cfg.states)

LEMMA InvParts ==
  /\ IInv <=> StackInv /\ LoaderTyped /\ FilesTyped /\ RestTyped /\ Counted
  /\ IInv' <=> StackInv' /\ LoaderTyped' /\ FilesTyped' /\ RestTyped' /\ Counted'
BY DEF IInv, TypeOK, StackInv, StackTyped, LoaderTyped, FilesTyped, RestTyped

Failed == {"error", "cycle", "unavailable", "crashed"}

(* A load that fails remembers what it had, and renders nothing. *)
LEMMA FailKeeps ==
  ASSUME IInv, NEW l \in Failed, Fail(l), UNCHANGED <<files, machine, cmd>>
  PROVE  IInv'
<1>1. StackInv'
  BY EmptiedStack DEF Fail
<1>2. LoaderTyped' /\ FilesTyped' /\ RestTyped'
  BY InvParts DEF Fail, files, LoaderTyped, FilesTyped, RestTyped, Failed, Stages, Ended
<1>3. Counted'
  BY InvParts DEF Fail, files, Counted, Failed
<1>. QED  BY <1>1, <1>2, <1>3, InvParts

(* Rendering changes the stack, and what is noted of the environment. *)
LEMMA RenderingKeeps ==
  ASSUME IInv, StackInv', LoaderTyped',
         loader'.at = loader.at, loader'.states = loader.states,
         UNCHANGED <<files, machine, cmd, stage, cfg>>
  PROVE  IInv'
<1>1. FilesTyped' /\ RestTyped'
  BY InvParts DEF files, FilesTyped, RestTyped
<1>2. Counted'
  BY InvParts DEF files, Counted
<1>. QED  BY <1>1, <1>2, InvParts

(* A stage ends in the next one while nothing is rendered. *)
LEMMA GotoKeeps ==
  ASSUME IInv, frames = <<>>, NEW l \in Stages, Goto(l),
         LoaderTyped', FilesTyped', Counted',
         DOMAIN cfg' = DOMAIN NewConfig, IsSeq(cfg'.states),
         cmd' = cmd, machine' = machine
  PROVE  IInv'
<1>1. StackInv'
  BY InvParts, NoStack DEF Goto
<1>2. RestTyped'
  BY InvParts DEF Goto, RestTyped
<1>. QED  BY <1>1, <1>2, InvParts

(* Where nothing can be rendered, nothing is. *)
LEMMA NothingRendered ==
  ASSUME IInv, stage \notin {"locations", "config", "definition"}
  PROVE  frames = <<>> /\ nested = <<>>
<1>1. frames = <<>>
  BY DEF IInv, StackKept
<1>. QED  BY <1>1, InvParts, StackFacts

LEMMA TopFields ==
  ASSUME StackInv, frames # <<>>
  PROVE  /\ DOMAIN Top = FrameFields
         /\ \A value, found :
              /\ DOMAIN Returned(value, found) = FrameFields
              /\ Returned(value, found).dir = Top.dir
              /\ Returned(value, found).text = Top.text
<1>1. Len(frames) \in DOMAIN frames
  BY StackFacts
<1>2. DOMAIN Top = FrameFields
  BY <1>1 DEF StackInv, StackTyped, Top, Last
<1>. QED  BY <1>2 DEF Returned, FrameFields

-----------------------------------------------------------------------------
(* Rendering *)

LEMMA CopyKeeps ==
  ASSUME IInv, Copy, UNCHANGED <<files, machine, cmd>>
  PROVE  IInv'
<1>1. PICK k, out : frames' = Append(Front(frames), [Top EXCEPT !.next = k, !.out = out])
  BY DEF Copy
<1>2. /\ frames # <<>> /\ Unfinished(Top)
      /\ UNCHANGED <<nested, stage, disk>>
  BY DEF Copy, files
<1>3. DOMAIN Top = FrameFields
  BY <1>2, InvParts, TopFields
<1>4. PICK f : f = [Top EXCEPT !.next = k, !.out = out]
  OBVIOUS
<1>5. DOMAIN f = FrameFields /\ f.dir = Top.dir
  BY <1>3, <1>4 DEF FrameFields
<1>6. frames' = Append(Front(frames), f)
  BY <1>1, <1>4
<1>7. StackInv'
  BY <1>2, <1>5, <1>6, InvParts, TopGoesOn
<1>. QED  BY <1>7, InvParts, RenderingKeeps DEF Copy, LoaderTyped

(* What a call emits goes to the text it is in. *)
LEMMA EmitKeepsStack ==
  ASSUME IInv, NEW fns, AtCall(fns), NEW value, NEW found, Emit(value, found),
         UNCHANGED <<files, machine, cmd>>
  PROVE  StackInv' /\ UNCHANGED <<stage, nested, cfg>>
<1>1. /\ frames # <<>> /\ Unfinished(Top)
      /\ UNCHANGED <<nested, stage, disk, cfg>>
  BY DEF AtCall, Emit, files
<1>2. PICK f : f = Returned(value, found)
  OBVIOUS
<1>3. DOMAIN f = FrameFields /\ f.dir = Top.dir
  BY <1>1, <1>2, InvParts, TopFields
<1>4. frames' = Append(Front(frames), f)
  BY <1>2 DEF Emit
<1>5. StackInv'
  BY <1>1, <1>3, <1>4, InvParts, TopGoesOn
<1>. QED  BY <1>1, <1>5

LEMMA CallEnvKeeps ==
  ASSUME IInv, CallEnv, UNCHANGED <<files, machine, cmd>>
  PROVE  IInv'
<1>1. StackInv' /\ UNCHANGED <<stage, nested, cfg>>
  BY EmitKeepsStack DEF CallEnv
<1>2. PICK m : m = Set(loader.envs, EnvKey(Args), EnvValue(Args))
  OBVIOUS
<1>3. IsMap(m) /\ DOMAIN loader = DOMAIN NewLoader
  BY <1>2, InvParts, SetKeepsMap DEF LoaderTyped
<1>4. loader' = [loader EXCEPT !.envs = m]
  BY <1>2 DEF CallEnv
<1>5. LoaderTyped' /\ loader'.at = loader.at /\ loader'.states = loader.states
  BY <1>3, <1>4, InvParts DEF LoaderTyped, NewLoader
<1>. QED  BY <1>1, <1>5, RenderingKeeps

LEMMA CallMustEnvKeeps ==
  ASSUME IInv, CallMustEnv, UNCHANGED <<files, machine, cmd>>
  PROVE  IInv'
<1>1. StackInv' /\ UNCHANGED <<stage, nested, cfg>>
  BY EmitKeepsStack DEF CallMustEnv
<1>2. PICK m : m = Set(loader.mustEnvs, Args[1], Getenv(Args[1]))
  OBVIOUS
<1>3. IsMap(m) /\ DOMAIN loader = DOMAIN NewLoader
  BY <1>2, InvParts, SetKeepsMap DEF LoaderTyped
<1>4. loader' = [loader EXCEPT !.mustEnvs = m] \/ loader' = loader
  BY <1>2 DEF CallMustEnv
<1>5. LoaderTyped' /\ loader'.at = loader.at /\ loader'.states = loader.states
  BY <1>3, <1>4, InvParts DEF LoaderTyped, NewLoader
<1>. QED  BY <1>1, <1>5, RenderingKeeps

LEMMA LookupKeeps ==
  ASSUME IInv, CallTFState \/ CallFile, UNCHANGED <<files, machine, cmd>>
  PROVE  IInv'
<1>1. CASE Fail("error")
  BY <1>1, FailKeeps DEF Failed
<1>2. CASE ~Fail("error")
  <2>1. PICK fns, value, found :
          AtCall(fns) /\ Emit(value, found) /\ UNCHANGED loader
    <3>1. CASE CallTFState
      BY <1>2, <3>1 DEF CallTFState
    <3>2. CASE CallFile
      BY <3>2 DEF CallFile
    <3>. QED  BY <3>1, <3>2
  <2>2. StackInv' /\ UNCHANGED <<stage, nested, cfg>>
    BY <2>1, EmitKeepsStack
  <2>. QED  BY <2>1, <2>2, InvParts, RenderingKeeps DEF LoaderTyped
<1>. QED  BY <1>1, <1>2

LEMMA CallTemplateFileKeeps ==
  ASSUME IInv, CallTemplateFile, UNCHANGED <<files, machine, cmd>>
  PROVE  IInv'
<1>1. CASE Fail("cycle") \/ Fail("error")
  BY <1>1, FailKeeps DEF Failed
<1>2. CASE ~(Fail("cycle") \/ Fail("error"))
  <2>1. PICK target : target = Target
    OBVIOUS
  <2>2. PICK f : f = Returned(<<>>, ThereIs(target))
    OBVIOUS
  <2>3. /\ ~Nested(target)
        /\ nested' = Append(nested, target)
        /\ frames' = Front(frames) \o <<f, NewFrame(Contents(target), Dir(target))>>
        /\ UNCHANGED <<stage, loader, cfg>>
    BY <1>2, <2>1, <2>2 DEF CallTemplateFile
  <2>4. frames # <<>> /\ Unfinished(Top)
    BY DEF CallTemplateFile, AtCall
  <2>5. DOMAIN f = FrameFields /\ f.dir = Top.dir
    BY <2>2, <2>4, InvParts, TopFields
  <2>6. StackInv'
    BY <2>3, <2>4, <2>5, InvParts, FileIsNested DEF files
  <2>. QED  BY <2>3, <2>6, InvParts, RenderingKeeps DEF LoaderTyped
<1>. QED  BY <1>1, <1>2

LEMMA ReturnKeeps ==
  ASSUME IInv, ReturnNested \/ ReturnMissing, UNCHANGED <<files, machine, cmd>>
  PROVE  IInv'
<1>1. CASE ReturnMissing
  BY <1>1, FailKeeps DEF ReturnMissing, Failed
<1>2. CASE ReturnNested
  <2>1. PICK c : c = frames[Len(frames) - 1]
    OBVIOUS
  <2>2. PICK f : f = [c EXCEPT !.out = @ \o Top.out]
    OBVIOUS
  <2>3. /\ Len(frames) > 1
        /\ frames' = Append(SubSeq(frames, 1, Len(frames) - 2), f)
        /\ nested' = Front(nested)
        /\ UNCHANGED <<stage, loader, cfg>>
    BY <1>2, <2>1, <2>2 DEF ReturnNested
  <2>4. Len(frames) - 1 \in DOMAIN frames
    <3>1. Len(frames) \in Nat /\ DOMAIN frames = 1..Len(frames)
      BY InvParts, StackFacts
    <3>. QED  BY <2>3, <3>1
  <2>5. DOMAIN c = FrameFields
    BY <2>1, <2>4 DEF IInv, TypeOK
  <2>6. DOMAIN f = FrameFields /\ f.dir = c.dir
    BY <2>2, <2>5 DEF FrameFields
  <2>7. StackInv'
    BY <2>1, <2>3, <2>6, InvParts, FileReturns DEF files
  <2>. QED  BY <2>3, <2>7, InvParts, RenderingKeeps DEF LoaderTyped
<1>. QED  BY <1>1, <1>2

-----------------------------------------------------------------------------
(* The stages of Load *)

LEMMA BeginKeeps ==
  ASSUME IInv, stage \in {"locations", "config", "definition"},
         NEW text, NEW dir, Begin(text, dir), UNCHANGED <<files, machine, cmd>>
  PROVE  IInv'
<1>1. CASE Fail("error")
  BY <1>1, FailKeeps DEF Failed
<1>2. CASE ~Fail("error")
  <2>1. PICK f : f = NewFrame(text, dir)
    OBVIOUS
  <2>2. frames = <<>> /\ frames' = <<f>> /\ UNCHANGED <<stage, nested, loader, cfg>>
    BY <1>2, <2>1 DEF Begin
  <2>3. DOMAIN f = FrameFields
    BY <2>1 DEF NewFrame, FrameFields
  <2>4. StackInv'
    BY <2>2, <2>3, InvParts, TextBegins
  <2>. QED  BY <2>2, <2>4, InvParts, RenderingKeeps DEF LoaderTyped
<1>. QED  BY <1>1, <1>2

(* The outermost text has returned: nothing else is on the stack. *)
LEMMA RenderedAlone ==
  ASSUME IInv, Rendered
  PROVE  nested = <<>>
<1>1. Len(frames) = 1 /\ frames # <<>>
  BY InvParts, StackFacts DEF Rendered
<1>2. Len(nested) = 0
  BY <1>1, InvParts, StackFacts
<1>. QED  BY <1>2, SeqFacts DEF IInv, TypeOK

(* A text has been rendered, and the next stage begins. *)
LEMMA EndKeeps ==
  ASSUME IInv, Rendered, NEW l \in Stages, stage' = l, frames' = <<>>,
         LoaderTyped', Counted', DOMAIN cfg' = DOMAIN NewConfig, cfg'.states = cfg.states,
         UNCHANGED <<nested, files, machine, cmd>>
  PROVE  IInv'
<1>1. nested' = <<>>
  BY RenderedAlone
<1>2. StackInv'
  BY <1>1, EmptiedStack
<1>3. FilesTyped' /\ RestTyped'
  BY InvParts DEF FilesTyped, RestTyped, files
<1>. QED  BY <1>2, <1>3, InvParts

LEMMA PreLoadKeeps ==
  ASSUME IInv, PreLoad, UNCHANGED <<files, machine, cmd>>
  PROVE  IInv'
<1>1. CASE Fail("error")
  BY <1>1, FailKeeps DEF Failed
<1>2. CASE ~Fail("error")
  <2>1. PICK l \in {"config", "locations"} :
          Goto(l) /\ (l = "locations" => config.states # <<>>)
    BY <1>2 DEF PreLoad
  <2>2. loader' = loader /\ cfg' = [cfg EXCEPT !.inline = config.inline, !.path = config.path]
    BY <1>2 DEF PreLoad
  <2>3. frames = <<>> /\ loader.at = 1
    BY NothingRendered DEF PreLoad, IInv, Counted
  <2>4. DOMAIN cfg' = DOMAIN NewConfig /\ cfg'.states = cfg.states
    BY <2>2, InvParts DEF RestTyped
  <2>5. LoaderTyped' /\ FilesTyped'
    BY <2>2, InvParts DEF LoaderTyped, FilesTyped, files
  <2>6. Counted'
    BY <2>1, <2>2, <2>3, InvParts DEF Counted, Goto, files
  <2>7. l \in Stages /\ IsSeq(cfg'.states)
    BY <2>4, InvParts DEF Stages, RestTyped
  <2>. QED  BY <2>1, <2>3, <2>4, <2>5, <2>6, <2>7, GotoKeeps
<1>. QED  BY <1>1, <1>2

LEMMA EndLocationsKeeps ==
  ASSUME IInv, EndLocations, UNCHANGED <<files, machine, cmd>>
  PROVE  IInv'
<1>1. CASE Fail("error")
  BY <1>1, FailKeeps DEF Failed
<1>2. CASE ~Fail("error")
  <2>1. PICK locations : locations =
          [i \in DOMAIN config.states |->
             [config.states[i] EXCEPT !.location = Split(Top.out, "break")[i]]]
    OBVIOUS
  <2>2. /\ loader' = [loader EXCEPT !.states = locations]
        /\ stage' = "states" /\ frames' = <<>>
        /\ UNCHANGED <<nested, cfg>>
    BY <1>2, <2>1 DEF EndLocations
  <2>3. Len(config.states) \in Nat /\ DOMAIN config.states = 1..Len(config.states)
    BY SeqFacts DEF IInv, TypeOK
  <2>4. IsSeq(locations) /\ Len(locations) = Len(config.states)
    <3>1. locations \in [1..Len(config.states) -> {locations[i] : i \in DOMAIN config.states}]
      BY <2>1, <2>3
    <3>. QED  BY <2>3, <3>1, FunctionIsSeq
  <2>5. loader.at = 1 /\ Len(config.states) >= 1
    BY SeqFacts DEF EndLocations, IInv, Counted, TypeOK
  <2>6. LoaderTyped' /\ loader'.at = loader.at /\ loader'.states = locations
    BY <2>2, <2>4, InvParts DEF LoaderTyped, NewLoader
  <2>7. Counted'
    BY <2>2, <2>3, <2>4, <2>5, <2>6 DEF Counted, files
  <2>8. DOMAIN cfg' = DOMAIN NewConfig /\ cfg'.states = cfg.states /\ "states" \in Stages
    BY <2>2, InvParts DEF RestTyped, Stages
  <2>. QED  BY <2>2, <2>6, <2>7, <2>8, EndKeeps DEF EndLocations
<1>. QED  BY <1>1, <1>2

(* A Terraform state after the other, until there are template functions   *)
(* for all of them.                                                        *)
LEMMA AppendTFStateKeeps ==
  ASSUME IInv, AppendTFState, UNCHANGED <<files, machine, cmd>>
  PROVE  IInv'
<1>1. CASE Fail("error")
  BY <1>1, FailKeeps DEF Failed
<1>2. CASE ~Fail("error")
  <2>1. PICK fns : loader' = [loader EXCEPT !.at = @ + 1, !.funcs = fns]
    BY <1>2 DEF AppendTFState
  <2>2. PICK l \in {"config", "states"} :
          Goto(l) /\ (l = "states" => loader.at # Len(loader.states))
    BY <1>2 DEF AppendTFState
  <2>3. cfg' = [cfg EXCEPT !.states = loader.states]
    BY <1>2 DEF AppendTFState
  <2>4. /\ frames = <<>> /\ loader.at \in 1..(Len(config.states) + 1)
        /\ Len(loader.states) = Len(config.states) /\ loader.at <= Len(config.states)
    BY NothingRendered DEF AppendTFState, IInv, Counted
  <2>5. Len(config.states) \in Nat
    BY SeqFacts DEF IInv, TypeOK
  <2>6. /\ loader'.at = loader.at + 1 /\ loader'.states = loader.states
        /\ LoaderTyped'
    BY <2>1, InvParts DEF LoaderTyped, NewLoader
  <2>7. loader'.at \in 1..(Len(config.states) + 1)
    BY <2>4, <2>5, <2>6
  <2>8. l = "states" => loader'.at <= Len(config.states)
    BY <2>2, <2>4, <2>5, <2>6
  <2>9. Counted'
    BY <2>2, <2>4, <2>6, <2>7, <2>8 DEF Counted, Goto, files
  <2>10. FilesTyped' /\ l \in Stages
    BY InvParts DEF FilesTyped, files, Stages
  <2>11. DOMAIN cfg' = DOMAIN NewConfig /\ IsSeq(cfg'.states)
    BY <2>3, InvParts DEF RestTyped, LoaderTyped, NewConfig
  <2>. QED  BY <2>2, <2>4, <2>6, <2>9, <2>10, <2>11, GotoKeeps
<1>. QED  BY <1>1, <1>2

LEMMA EndConfigKeeps ==
  ASSUME IInv, EndConfig \/ EndDefinition, UNCHANGED <<files, machine, cmd>>
  PROVE  IInv'
<1>1. CASE Fail("error")
  BY <1>1, FailKeeps DEF Failed
<1>2. CASE ~Fail("error")
  <2>1. PICK l \in {"check", "loaded"} : stage' = l
    BY <1>2 DEF EndConfig, EndDefinition
  <2>2. Rendered /\ frames' = <<>> /\ UNCHANGED <<nested, loader>>
    BY <1>2 DEF EndConfig, EndDefinition
  <2>3. DOMAIN cfg' = DOMAIN NewConfig /\ cfg'.states = cfg.states
    BY <1>2, InvParts DEF EndConfig, EndDefinition, RestTyped, NewConfig
  <2>4. LoaderTyped' /\ Counted' /\ l \in Stages
    BY <2>1, <2>2, InvParts DEF LoaderTyped, Counted, files, Stages, Ended
  <2>. QED  BY <2>1, <2>2, <2>3, <2>4, EndKeeps
<1>. QED  BY <1>1, <1>2

LEMMA CheckKeeps ==
  ASSUME IInv, Check, UNCHANGED <<files, machine, cmd>>
  PROVE  IInv'
<1>1. CASE Fail("error")
  BY <1>1, FailKeeps DEF Failed
<1>2. CASE ~Fail("error")
  <2>1. PICK l \in {"loaded", "definition"} : Goto(l)
    BY <1>2 DEF Check
  <2>2. frames = <<>> /\ loader' = loader
    BY <1>2, NothingRendered DEF Check
  <2>3. DOMAIN cfg' = DOMAIN NewConfig /\ cfg'.states = cfg.states
    BY <1>2, InvParts DEF Check, RestTyped, NewConfig
  <2>4. LoaderTyped' /\ FilesTyped' /\ Counted' /\ l \in Stages
    BY <2>1, <2>2, InvParts DEF LoaderTyped, FilesTyped, Counted, Goto, files, Stages, Ended
  <2>5. IsSeq(cfg'.states)
    BY <2>3, InvParts DEF RestTyped
  <2>. QED  BY <2>1, <2>2, <2>3, <2>4, <2>5, GotoKeeps
<1>. QED  BY <1>1, <1>2

LEMMA LoadKeeps ==
  ASSUME IInv, Load, UNCHANGED <<machine, cmd>>
  PROVE  IInv'
<1>1. CASE Copy \/ CallEnv \/ CallMustEnv \/ CallTFState \/ CallFile
             \/ CallTemplateFile \/ ReturnNested \/ ReturnMissing
  BY <1>1, CopyKeeps, CallEnvKeeps, CallMustEnvKeeps, LookupKeeps,
     CallTemplateFileKeeps, ReturnKeeps DEF Load
<1>2. CASE BeginLocations \/ BeginConfig \/ BeginDefinition
  <2>1. CASE Fail("error")
    BY <2>1, FailKeeps DEF Load, Failed
  <2>2. CASE ~Fail("error")
    <3>1. \E text, dir : Begin(text, dir)
      BY <1>2, <2>2 DEF BeginLocations, BeginConfig, BeginDefinition
    <3>2. stage \in {"locations", "config", "definition"}
      BY <1>2 DEF BeginLocations, BeginConfig, BeginDefinition
    <3>. QED  BY <3>1, <3>2, BeginKeeps DEF Load
  <2>. QED  BY <2>1, <2>2
<1>3. CASE PreLoad \/ EndLocations \/ AppendTFState \/ EndConfig \/ Check \/ EndDefinition
  BY <1>3, PreLoadKeeps, EndLocationsKeeps, AppendTFStateKeeps, EndConfigKeeps,
     CheckKeeps DEF Load
<1>. QED  BY <1>1, <1>2, <1>3 DEF Load

-----------------------------------------------------------------------------
(* The commands *)

LEMMA InitKeeps == Init => IInv
<1> SUFFICES ASSUME Init PROVE IInv
  OBVIOUS
<1>2. cmd \in Commands
  BY CommandsAssumption DEF Init
<1>3. frames = <<>> /\ nested = <<>> /\ IsSeq(<<>>) /\ IsMap(<<>>)
  BY NothingAsked DEF Init
<1>4. StackInv
  BY <1>3 DEF StackInv, StackTyped, StackKept, FilesNested
<1>5. FilesTyped
  <2>1. config \in ConfigFile /\ IsFiniteSet(DOMAIN disk)
    BY ProjectsAssumption DEF Init
  <2>2. config.states \in Seq(TFStateConfig) /\ "states" \in DOMAIN config
    BY <2>1 DEF ConfigFile
  <2>. QED  BY <2>1, <2>2, SeqOfItsElements DEF FilesTyped
<1>6. LoaderTyped /\ RestTyped
  BY <1>2, <1>3 DEF Init, LoaderTyped, RestTyped, NewLoader, NewConfig, Stages, Ended
<1>7. Len(config.states) \in Nat
  BY <1>5, SeqFacts DEF FilesTyped
<1>8. Counted
  BY <1>7 DEF Init, Counted, NewLoader
<1>. QED  BY <1>4, <1>5, <1>6, <1>8, InvParts

LEMMA StartKeeps ==
  ASSUME IInv, NEW c \in Commands, Start(c)
  PROVE  IInv'
<1>1. StackInv'
  BY EmptiedStack DEF Start
<1>2. FilesTyped'
  BY InvParts DEF Start, files, FilesTyped
<1>3. stage' \in {"describe", "flag", "decode"}
  BY DEF Start
<1>4. LoaderTyped' /\ RestTyped'
  BY <1>3, NothingAsked, InvParts
  DEF Start, LoaderTyped, RestTyped, NewLoader, NewConfig, Stages
<1>5. Len(config.states) \in Nat
  BY SeqFacts DEF IInv, TypeOK
<1>6. Counted'
  BY <1>3, <1>5 DEF Start, Counted, NewLoader, files
<1>. QED  BY <1>1, <1>2, <1>4, <1>6, InvParts

LEMMA LoadStepKeeps ==
  ASSUME IInv, LoadStep
  PROVE  IInv'
<1>1. CASE Load
  BY <1>1, LoadKeeps DEF LoadStep
<1>2. CASE AppendFlag(cmd.tfstate) /\ UNCHANGED files
  <2>1. CASE Fail("error")
    BY <1>2, <2>1, FailKeeps DEF LoadStep, Failed
  <2>2. CASE ~Fail("error")
    <3>1. PICK fns : loader' = [loader EXCEPT !.funcs = fns]
      BY <1>2, <2>2 DEF AppendFlag
    <3>2. Goto("decode") /\ cfg' = cfg /\ frames = <<>> /\ stage = "flag"
      BY <1>2, <2>2, NothingRendered DEF AppendFlag
    <3>3. LoaderTyped' /\ loader'.at = loader.at
      BY <3>1, InvParts DEF LoaderTyped, NewLoader
    <3>4. FilesTyped' /\ Counted' /\ "decode" \in Stages
      BY <1>2, <3>2, <3>3, InvParts DEF FilesTyped, Counted, Goto, files, Stages
    <3>5. DOMAIN cfg' = DOMAIN NewConfig /\ IsSeq(cfg'.states)
      BY <3>2, InvParts DEF RestTyped
    <3>. QED  BY <3>2, <3>3, <3>4, <3>5, GotoKeeps DEF LoadStep
  <2>. QED  BY <2>1, <2>2
<1>. QED  BY <1>1, <1>2 DEF LoadStep

LEMMA DescribeKeeps ==
  ASSUME IInv, DescribeForPull \/ DescribeForInit
  PROVE  IInv'
<1>1. UNCHANGED <<files, machine, cmd>>
  BY DEF DescribeForPull, DescribeForInit
<1>2. CASE Fail("error")
  BY <1>1, <1>2, FailKeeps DEF Failed
<1>3. CASE ~Fail("error")
  <2>1. PICK l \in {"definition file", "config file"} :
          Goto(l) /\ (l = "config file" => stage = "describe")
    BY <1>3 DEF DescribeForPull, DescribeForInit
  <2>2. frames = <<>> /\ loader' = loader
    BY <1>3, NothingRendered DEF DescribeForPull, DescribeForInit
  <2>3. DOMAIN cfg' = DOMAIN NewConfig /\ IsSeq(cfg'.states)
    <3>1. CASE DescribeForPull
      <4>1. cfg' = [cfg EXCEPT !.body = machine.body, !.definition = machine.definition]
        BY <1>3, <3>1 DEF DescribeForPull
      <4>. QED  BY <4>1, InvParts DEF RestTyped, NewConfig
    <3>2. CASE DescribeForInit
      <4>1. PICK body, definition, states, path, envs, mustEnvs :
              /\ cfg' = [body |-> body, definition |-> definition, states |-> states,
                         inline |-> FALSE, path |-> path, envs |-> envs,
                         mustEnvs |-> mustEnvs]
              /\ \/ states = <<>>
                 \/ states = <<[location |-> cmd.tfstate, fn |-> "tfstate"]>>
        BY <1>3, <3>2 DEF DescribeForInit
      <4>2. IsSeq(states)
        <5>. QED  BY <4>1, OneElement, NothingAsked
      <4>. QED  BY <4>1, <4>2 DEF NewConfig
    <3>. QED  BY <3>1, <3>2
  <2>4. LoaderTyped' /\ FilesTyped' /\ Counted' /\ l \in Stages
    BY <1>1, <2>1, <2>2, InvParts
    DEF LoaderTyped, FilesTyped, Counted, Goto, files, Stages, Ended
  <2>. QED  BY <1>1, <2>1, <2>2, <2>3, <2>4, GotoKeeps
<1>. QED  BY <1>2, <1>3

LEMMA PutIsFinite ==
  ASSUME IsFiniteSet(DOMAIN disk), NEW path, NEW text
  PROVE  IsFiniteSet(DOMAIN Put(path, text))
<1>1. DOMAIN Put(path, text) = DOMAIN disk \cup {path}
  BY DEF Put
<1>. QED  BY <1>1, FS_AddElement

LEMMA CreateKeeps ==
  ASSUME IInv, CreateConfigFile \/ CreateDefinitionFile \/ ReadResources \/ Replace
  PROVE  IInv'
<1>1. UNCHANGED <<loader, cfg, machine, cmd>> /\ frames = <<>> /\ nested = <<>>
  BY NothingRendered
  DEF CreateConfigFile, CreateDefinitionFile, ReadResources, Replace, loading, Fail
<1>2. LoaderTyped' /\ DOMAIN cfg' = DOMAIN NewConfig /\ IsSeq(cfg'.states)
  BY <1>1, InvParts DEF LoaderTyped, RestTyped
<1>3. CASE CreateConfigFile
  <2>1. config'.states = <<>> /\ "states" \in DOMAIN config' /\ disk' = disk
    BY <1>3 DEF CreateConfigFile
  <2>2. FilesTyped'
    BY <2>1, NothingAsked, InvParts DEF FilesTyped
  <2>3. Goto("read for config") /\ stage = "config file"
    BY <1>3 DEF CreateConfigFile
  <2>4. Counted' /\ "read for config" \in Stages
    <3>1. loader'.at = 1 /\ stage' = "read for config"
      BY <1>1, <2>3, InvParts DEF Counted, Goto
    <3>2. Len(config'.states) = 0 /\ 1 \in 1..(0 + 1)
      BY <2>1
    <3>3. loader'.at \in 1..(Len(config'.states) + 1)
      BY <3>1, <3>2, Zenon
    <3>. QED  BY <3>1, <3>3 DEF Counted, Stages
  <2>. QED  BY <1>1, <1>2, <2>2, <2>3, <2>4, GotoKeeps
<1>4. CASE CreateDefinitionFile
  <2>1. config' = config /\ disk' = Put(DefinitionPath, <<>>)
    BY <1>4 DEF CreateDefinitionFile
  <2>2. FilesTyped'
    BY <2>1, PutIsFinite, InvParts DEF FilesTyped
  <2>3. Goto("read for definition")
    BY <1>4 DEF CreateDefinitionFile
  <2>4. Counted' /\ "read for definition" \in Stages
    BY <1>1, <2>1, <2>3, InvParts DEF Counted, Goto, Stages
  <2>. QED  BY <1>1, <1>2, <2>2, <2>3, <2>4, GotoKeeps
<1>5. CASE ReadResources
  <2>1. UNCHANGED files
    BY <1>5 DEF ReadResources
  <2>2. CASE Fail("error")
    BY <1>1, <2>1, <2>2, FailKeeps DEF Failed
  <2>3. CASE ~Fail("error")
    <3>1. PICK l \in {"write config", "write definition"} :
            Goto(l) /\ (l = "write config" => stage = "read for config")
      BY <1>5, <2>3 DEF ReadResources
    <3>2. FilesTyped' /\ Counted' /\ l \in Stages
      BY <1>1, <2>1, <3>1, InvParts DEF FilesTyped, Counted, Goto, files, Stages
    <3>. QED  BY <1>1, <1>2, <3>1, <3>2, GotoKeeps
  <2>. QED  BY <2>2, <2>3
<1>6. CASE Replace
  <2>1. UNCHANGED <<files, stage, frames, nested>>
    BY <1>6 DEF Replace, loading
  <2>2. StackInv'
    BY <1>1, <2>1, EmptiedStack
  <2>. QED  BY <1>1, <1>2, <2>1, <2>2, RenderingKeeps
<1>. QED  BY <1>3, <1>4, <1>5, <1>6

LEMMA WriteConfigKeeps ==
  ASSUME IInv, WriteConfig
  PROVE  IInv'
<1>1. UNCHANGED <<disk, loader, cfg, machine, cmd>> /\ Goto("definition file")
        /\ stage = "write config"
  BY DEF WriteConfig
<1>2. PICK body, states :
        /\ config' = [config EXCEPT !.empty = FALSE, !.body = body, !.states = states]
        /\ states = [i \in DOMAIN cfg.states |->
                       [cfg.states[i] EXCEPT !.location = Split(data, "break")[i + 1]]]
  BY DEF WriteConfig
<1>3. Len(cfg.states) \in Nat /\ DOMAIN cfg.states = 1..Len(cfg.states)
  BY SeqFacts DEF IInv, TypeOK
<1>4. states \in [1..Len(cfg.states) -> {states[i] : i \in DOMAIN cfg.states}]
  BY <1>2, <1>3
<1>5. IsSeq(states) /\ Len(states) \in Nat
  BY <1>3, <1>4, FunctionIsSeq
<1>6. "states" \in DOMAIN config' /\ config'.states = states
  BY <1>2, InvParts DEF FilesTyped
<1>7. FilesTyped' /\ LoaderTyped'
  BY <1>1, <1>5, <1>6, InvParts DEF FilesTyped, LoaderTyped
<1>8. loader.at = 1 /\ frames = <<>>
  BY <1>1, NothingRendered DEF IInv, Counted
<1>9. Counted' /\ "definition file" \in Stages
  <2>1. loader'.at = 1 /\ stage' = "definition file"
    BY <1>1, <1>8 DEF Goto
  <2>2. \A n \in Nat : 1 \in 1..(n + 1)
    OBVIOUS
  <2>3. loader'.at \in 1..(Len(config'.states) + 1)
    BY <1>5, <1>6, <2>1, <2>2
  <2>. QED  BY <2>1, <2>3 DEF Counted, Stages
<1>10. DOMAIN cfg' = DOMAIN NewConfig /\ IsSeq(cfg'.states)
  BY <1>1, InvParts DEF RestTyped
<1>. QED  BY <1>1, <1>7, <1>8, <1>9, <1>10, GotoKeeps

LEMMA WriteDefinitionKeeps ==
  ASSUME IInv, WriteDefinition
  PROVE  IInv'
<1>1. UNCHANGED <<config, loader, cfg, machine, cmd>> /\ Goto("ok")
  BY DEF WriteDefinition
<1>2. FilesTyped'
  BY <1>1, PutIsFinite, InvParts DEF WriteDefinition, FilesTyped
<1>3. LoaderTyped' /\ Counted' /\ "ok" \in Stages
  BY <1>1, InvParts DEF LoaderTyped, Counted, Goto, Stages, Ended
<1>4. DOMAIN cfg' = DOMAIN NewConfig /\ IsSeq(cfg'.states) /\ frames = <<>>
  BY <1>1, NothingRendered, InvParts DEF RestTyped, WriteDefinition
<1>. QED  BY <1>1, <1>2, <1>3, <1>4, GotoKeeps

LEMMA UnchangedKeeps ==
  ASSUME IInv, UNCHANGED vars
  PROVE  IInv'
<1>1. UNCHANGED <<files, machine, cmd, stage, frames, nested, loader, cfg>>
  BY DEF vars, loading
<1>2. StackInv' /\ LoaderTyped'
  BY <1>1, InvParts, SameStack DEF files, LoaderTyped
<1>. QED  BY <1>1, <1>2, RenderingKeeps

(* What is being rendered is what ConfigLoader remembers, none of it twice, *)
(* and every Terraform state is counted, whatever is loaded or written and  *)
(* wherever it fails (config.go:199-310).                                   *)
THEOREM Invariance == Spec => []IInv
<1>1. Init => IInv
  BY InitKeeps
<1>2. IInv /\ [Next]_vars => IInv'
  <2> SUFFICES ASSUME IInv, [Next]_vars
               PROVE  IInv'
    OBVIOUS
  <2>1. ASSUME NEW c \in Commands, Start(c) PROVE IInv'
    BY <2>1, StartKeeps
  <2>2. CASE LoadStep
    BY <2>2, LoadStepKeeps
  <2>3. CASE DescribeForPull \/ DescribeForInit
    BY <2>3, DescribeKeeps
  <2>4. CASE CreateConfigFile \/ CreateDefinitionFile \/ ReadResources \/ Replace
    BY <2>4, CreateKeeps
  <2>5. CASE WriteConfig
    BY <2>5, WriteConfigKeeps
  <2>6. CASE WriteDefinition
    BY <2>6, WriteDefinitionKeeps
  <2>7. CASE CallFails \/ Crash
    BY <2>7, FailKeeps DEF CallFails, Crash, Failed
  <2>8. CASE UNCHANGED vars
    BY <2>8, UnchangedKeeps
  <2>. QED  BY <2>1, <2>2, <2>3, <2>4, <2>5, <2>6, <2>7, <2>8 DEF Next, Step
<1>. QED  BY <1>1, <1>2, PTL DEF Spec

(* All files on the stack but the last are there, and they differ.         *)
LEMMA BoundFromInv == IInv => NestingBounded
<1> SUFFICES ASSUME IInv PROVE NestingBounded
  OBVIOUS
<1>2. Len(nested) \in Nat /\ DOMAIN nested = 1..Len(nested) /\ IsFiniteSet(DOMAIN disk)
  BY InvParts, StackFacts DEF FilesTyped
<1>3. Cardinality(DOMAIN disk) \in Nat
  BY <1>2, FS_CardinalityType
<1>4. CASE Len(nested) = 0
  BY <1>3, <1>4 DEF NestingBounded
<1>5. CASE Len(nested) # 0
  <2>0. PICK k \in Nat : k = Len(nested) /\ k # 0
    BY <1>2, <1>5
  <2>1. PICK n : n = k - 1
    OBVIOUS
  <2> DEFINE there == [i \in 1..n |-> nested[i]]
  <2>2. n \in Nat /\ \A i \in 1..n : i \in DOMAIN nested /\ i # Len(nested)
    <3>1. n \in Nat
      BY <2>0, <2>1
    <3>2. \A i \in 1..n : i \in 1..k /\ i # k
      BY <2>0, <2>1, <3>1
    <3>. QED  BY <1>2, <2>0, <3>1, <3>2
  <2>3. there \in [1..n -> DOMAIN disk]
    BY <2>2 DEF IInv, FilesNested
  <2>4. \A i, j \in 1..n : there[i] = there[j] => i = j
    BY <2>2 DEF IInv, StackKept, EqualFold
  <2>5. there \in Injection(1..n, DOMAIN disk)
    BY <2>3, <2>4 DEF Injection, IsInjective
  <2>6. Cardinality(1..n) <= Cardinality(DOMAIN disk)
    BY <1>2, <2>5, FS_Injection
  <2>7. Cardinality(1..n) = n
    BY <2>2, FS_Interval
  <2>8. k = n + 1 /\ n <= Cardinality(DOMAIN disk)
    BY <2>0, <2>1, <2>2, <2>6, <2>7
  <2>. QED  BY <1>3, <2>0, <2>2, <2>8 DEF NestingBounded
<1>. QED  BY <1>4, <1>5

(* Texts are nested no deeper than there are files, and one that is not    *)
(* there: a cycle is cut before a file is rendered within itself           *)
(* (config.go:206-210).                                                    *)
THEOREM NestsFewFiles == Spec => []NestingBounded
BY Invariance, BoundFromInv, PTL

-----------------------------------------------------------------------------
(* What is replaced in a text, and asked for *)

LEMMA FiniteDomain ==
  ASSUME NEW V, NEW s \in Seq(V), NEW S, S \subseteq DOMAIN s
  PROVE  IsFiniteSet(S)
<1>1. Len(s) \in Nat /\ DOMAIN s = 1..Len(s)
  BY SeqIsFunction
<1>2. IsFiniteSet(1..Len(s))
  BY <1>1, FS_Interval
<1>. QED  BY <1>1, <1>2, FS_Subset

(* The calls that are inserted are texts, and so are the values they       *)
(* replace.                                                                *)
LEMMA TFStateCallsTyped ==
  ASSUME NEW state \in Seq(Resource)
  PROVE  TFStateCalls(state) \in Seq(Replacement)
<1> DEFINE value(i) == state[i].value
           first == {i \in DOMAIN state : value(i) # <<>> /\ \A j \in 1..(i - 1) : value(j) # value(i)}
           before(i) == {j \in first : \/ Len(value(j)) > Len(value(i))
                                       \/ (Len(value(j)) = Len(value(i)) /\ j < i)}
           nth(k) == CHOOSE i \in first : Cardinality(before(i)) = k - 1
           call == [i \in first |->
                 [value |-> value(i),
                  call |-> Call("tfstate", <<TFStateKey(state, value(i))>>)]]
           all == [k \in 1..Cardinality(first) |-> call[nth(k)]]
           ordered == [i \in first |-> before(i)]
<1>1. TFStateCalls(state) = all
  BY Zenon DEF TFStateCalls
<1>2. first \subseteq DOMAIN state /\ IsFiniteSet(first)
  BY FiniteDomain
<1>3. DOMAIN state = 1..Len(state) /\ Len(state) \in Nat
      /\ \A i \in DOMAIN state : state[i] \in Resource
  BY SeqIsFunction
<1>4. \A i \in DOMAIN state : value(i) \in Text /\ Len(value(i)) \in Nat
  BY <1>3, LenProperties DEF Resource, Text
<1>5. call \in [first -> Replacement]
  <2>1. SUFFICES ASSUME NEW i \in first
                 PROVE  Call("tfstate", <<TFStateKey(state, value(i))>>) \in Text
    BY <1>2, <1>4 DEF Replacement
  <2>2. TFStateKey(state, value(i)) \in Text
    BY <1>2, TFStateKeyTyped
  <2> DEFINE args == <<TFStateKey(state, value(i))>>
  <2>3. args \in Seq(Text) /\ args # <<>>
    BY <2>2
  <2>4. "tfstate" \in Word
    BY WordsAssumption
  <2> HIDE DEF args
  <2>5. Call("tfstate", args) \in Text
    BY <2>3, <2>4, CallTyped
  <2>. QED  BY <2>5 DEF args
<1> HIDE DEF call
<1>6. \A i \in first : i \in Int /\ value(i) \in Text /\ Len(value(i)) \in Nat
  BY <1>2, <1>3, <1>4
<1>7. ordered \in [first -> SUBSET first] /\ \A i \in first : ordered[i] = before(i)
  OBVIOUS
<1> DEFINE n(i) == Len(value(i))
<1>8. \A i, j \in first : j \in ordered[i] <=> n(j) > n(i) \/ (n(j) = n(i) /\ j < i)
  OBVIOUS
<1>9. \A i \in first : n(i) \in Nat /\ i \in Int
  BY <1>6
<1> HIDE DEF ordered, first, n
<1>10. \A i \in first : i \notin ordered[i]
  BY <1>8, <1>9
<1>11. \A i, j \in first : i = j \/ i \in ordered[j] \/ j \in ordered[i]
  BY <1>8, <1>9
<1>12. ASSUME NEW i \in first, NEW j \in first, j \in ordered[i]
       PROVE  ordered[j] \subseteq ordered[i]
  <2>1. ASSUME NEW k \in ordered[j] PROVE k \in ordered[i]
    <3>1. k \in first
      BY <1>7
    <3>2. n(k) > n(j) \/ (n(k) = n(j) /\ k < j)
      BY <1>8, <3>1
    <3>3. n(j) > n(i) \/ (n(j) = n(i) /\ j < i)
      BY <1>8, <1>12
    <3>4. n(k) > n(i) \/ (n(k) = n(i) /\ k < i)
      BY <1>9, <3>1, <3>2, <3>3
    <3>. QED  BY <1>8, <3>1, <3>4
  <2>. QED  BY <2>1
<1>13. \A k \in 1..Cardinality(first) : nth(k) \in first
  <2>1. TAKE k \in 1..Cardinality(first)
  <2>2. \E i \in first : Cardinality(ordered[i]) = k - 1
    BY <1>2, <1>7, <1>10, <1>11, <1>12, Ranked
  <2>3. \E i \in first : Cardinality(before(i)) = k - 1
    BY <1>7, <2>2
  <2> HIDE DEF before
  <2>. QED  BY <2>3
<1>14. Cardinality(first) \in Nat
  BY <1>2, FS_CardinalityType
<1>15. all \in [1..Cardinality(first) -> Replacement]
  <2> HIDE DEF nth
  <2>. QED  BY <1>5, <1>13
<1>. QED  BY <1>1, <1>14, <1>15, IsSequence

LEMMA MustEnvCallsTyped ==
  ASSUME NEW mustEnvs \in Seq(Resource)
  PROVE  MustEnvCalls(mustEnvs) \in Seq(Replacement)
<1>1. DOMAIN mustEnvs = 1..Len(mustEnvs) /\ Len(mustEnvs) \in Nat
      /\ \A i \in DOMAIN mustEnvs : mustEnvs[i] \in Resource
  BY SeqIsFunction
<1>2. ASSUME NEW i \in DOMAIN mustEnvs
      PROVE  [value |-> mustEnvs[i].value, call |-> Call("must_env", <<mustEnvs[i].key>>)]
                \in Replacement
  <2> DEFINE args == <<mustEnvs[i].key>>
  <2>1. mustEnvs[i].key \in Text /\ mustEnvs[i].value \in Text
    BY <1>1 DEF Resource
  <2>2. args \in Seq(Text) /\ args # <<>>
    BY <2>1
  <2>3. "must_env" \in Word
    BY WordsAssumption DEF BuiltIns
  <2> HIDE DEF args
  <2>4. Call("must_env", args) \in Text
    BY <2>2, <2>3, CallTyped
  <2>. QED  BY <2>1, <2>4 DEF args, Replacement
<1>3. MustEnvCalls(mustEnvs) \in [1..Len(mustEnvs) -> Replacement]
  BY <1>1, <1>2 DEF MustEnvCalls
<1>. QED  BY <1>1, <1>3, IsSequence

LEMMA EnvCallsTyped ==
  ASSUME NEW envs \in Seq(Resource)
  PROVE  EnvCalls(envs) \in Seq(Replacement)
<1> DEFINE kept == Only(envs, {e \in ToSet(envs) : e.value # <<>>})
           calling(i) == [value |-> kept[i].value, call |-> Call("env", Split(kept[i].key, "comma"))]
<1>1. EnvCalls(envs) = [i \in DOMAIN kept |-> calling(i)]
  BY Zenon DEF EnvCalls
<1>2. kept \in Seq(Resource)
  BY OnlyOf
<1> HIDE DEF kept
<1>3. DOMAIN kept = 1..Len(kept) /\ Len(kept) \in Nat
      /\ \A i \in DOMAIN kept : kept[i] \in Resource
  BY <1>2, SeqIsFunction
<1>4. ASSUME NEW i \in DOMAIN kept PROVE calling(i) \in Replacement
  <2> DEFINE args == Split(kept[i].key, "comma")
  <2>1. kept[i].key \in Text /\ kept[i].value \in Text
    BY <1>3 DEF Resource
  <2>2. args \in Seq(Text) /\ args # <<>>
    <3>1. args \in Seq(Seq(Word \ {"comma"})) /\ args # <<>>
      BY <2>1, SplitTyped DEF Text
    <3>2. Seq(Word \ {"comma"}) \subseteq Text
      BY SeqMonotonic DEF Text
    <3> HIDE DEF args
    <3>. QED  BY <3>1, <3>2, SeqMonotonic
  <2>3. "env" \in Word
    BY WordsAssumption DEF BuiltIns
  <2> HIDE DEF args
  <2>4. Call("env", args) \in Text
    BY <2>2, <2>3, CallTyped
  <2>. QED  BY <2>1, <2>4 DEF args, Replacement
<1> HIDE DEF calling
<1>5. EnvCalls(envs) \in [1..Len(kept) -> Replacement]
  BY <1>1, <1>3, <1>4
<1>. QED  BY <1>3, <1>5, IsSequence

LEMMA ReverseTyped ==
  ASSUME NEW V, NEW s \in Seq(V)
  PROVE  Reverse(s) \in Seq(V)
<1>1. Len(s) \in Nat /\ \A i \in 1..Len(s) : s[i] \in V
  BY SeqIsFunction
<1>2. \A i \in 1..Len(s) : Len(s) - i + 1 \in 1..Len(s)
  BY <1>1
<1>3. Reverse(s) \in [1..Len(s) -> V]
  BY <1>1, <1>2 DEF Reverse
<1>. QED  BY <1>1, <1>3, IsSequence

LEMMA CallsTyped ==
  ASSUME NEW state \in Seq(Resource), NEW nStates \in Nat,
         NEW mustEnvs \in Seq(Resource), NEW envs \in Seq(Resource)
  PROVE  Calls(state, nStates, mustEnvs, envs) \in Seq(Replacement)
<1> DEFINE same == [i \in 1..nStates |-> TFStateCalls(state)]
           a == FlattenSeq(same)
           b == Reverse(MustEnvCalls(mustEnvs))
           c == Reverse(EnvCalls(envs))
<1>1. same \in [1..nStates -> Seq(Replacement)]
  BY TFStateCallsTyped
<1> HIDE DEF same
<1>2. same \in Seq(Seq(Replacement))
  BY <1>1, IsSequence
<1>3. a \in Seq(Replacement)
  BY <1>2, FlattenTyped
<1>4. b \in Seq(Replacement) /\ c \in Seq(Replacement)
  BY MustEnvCallsTyped, EnvCallsTyped, ReverseTyped
<1>5. Calls(state, nStates, mustEnvs, envs) = a \o b \o c
  BY Zenon DEF Calls, same
<1> HIDE DEF a, b, c
<1>6. (a \o b) \o c \in Seq(Replacement)
  BY <1>3, <1>4
<1>. QED  BY <1>5, <1>6

(* What the flags of init ask for is noted as texts. *)
LEMMA AskedTyped ==
  ASSUME NEW names \in Seq(Text)
  PROVE  Asked(names) \in Seq(Resource)
<1> DEFINE n == Len(names)
           V == Seq(Resource)
           step == [i \in 1..n |-> [m \in V |-> Set(m, EnvKey(<<names[i]>>), EnvValue(<<names[i]>>))]]
           base == <<>>
           Is(g) == g = [i \in 0..n |-> IF i = 0 THEN <<>>
                                       ELSE Set(g[i - 1], EnvKey(<<names[i]>>), EnvValue(<<names[i]>>))]
           envs == CHOOSE g : Is(g)
<1>1. n \in Nat /\ \A i \in 1..n : names[i] \in Text
  BY SeqIsFunction
<1>2. ASSUME NEW i \in 1..n PROVE EnvKey(<<names[i]>>) \in Text /\ EnvValue(<<names[i]>>) \in Text
  <2>1. <<names[i]>> \in Seq(Text) /\ <<names[i]>> # <<>>
    BY <1>1
  <2>. QED  BY <2>1, EnvKeyTyped, EnvValueTyped
<1>3. step \in [1..n -> [V -> V]]
  <2>1. ASSUME NEW i \in 1..n, NEW m \in V
        PROVE  Set(m, EnvKey(<<names[i]>>), EnvValue(<<names[i]>>)) \in V
    BY <1>2, SetTyped
  <2>. QED  BY <2>1
<1>4. base \in V
  OBVIOUS
<1>5. \A i \in 1..n : \A m \in V : step[i][m] = Set(m, EnvKey(<<names[i]>>), EnvValue(<<names[i]>>))
  OBVIOUS
<1>6. Asked(names) = envs[n]
  BY Zenon DEF Asked
<1> HIDE DEF step, V, n, base
<1>7. PICK f \in [0..n -> V] : Iterates(f, n, base, step)
  BY <1>1, <1>3, <1>4, Iteration
<1>8. Is(f)
  <2>1. ASSUME NEW i \in 0..n
        PROVE  f[i] = IF i = 0 THEN <<>> ELSE Set(f[i - 1], EnvKey(<<names[i]>>), EnvValue(<<names[i]>>))
    <3>1. CASE i = 0
      BY <1>7, <3>1 DEF Iterates, base
    <3>2. CASE i # 0
      <4>1. i \in 1..n /\ i - 1 \in 0..n
        BY <1>1, <3>2
      <4>2. f[i - 1] \in V /\ f[i] = step[i][f[i - 1]]
        BY <1>7, <4>1 DEF Iterates
      <4>. QED  BY <1>5, <3>2, <4>1, <4>2
    <3>. QED  BY <3>1, <3>2
  <2>. QED  BY <2>1
<1>9. Is(envs)
  <2> HIDE DEF Is
  <2>. QED  BY <1>8
<1> HIDE DEF envs
<1>10. \A i \in 1..n : envs[i] = Set(envs[i - 1], EnvKey(<<names[i]>>), EnvValue(<<names[i]>>))
  <2>1. \A i \in 1..n : i \in 0..n /\ i # 0
    BY <1>1
  <2>. QED  BY <1>9, <2>1
<1>11. envs[0] = <<>>
  BY <1>1, <1>9
<1> HIDE DEF Is
<1>12. 0..n \subseteq {i \in 0..n : envs[i] \in V}
  <2> DEFINE T == {i \in 0..n : envs[i] \in V}
  <2>1. 0 \in T
    BY <1>1, <1>4, <1>11 DEF base
  <2>2. ASSUME NEW i \in 1..n, i - 1 \in T PROVE i \in T
    <3>1. Set(envs[i - 1], EnvKey(<<names[i]>>), EnvValue(<<names[i]>>)) \in V
      BY <1>2, <2>2, SetTyped DEF V
    <3>. QED  BY <1>1, <1>10, <3>1
  <2> HIDE DEF T
  <2>. QED  BY <1>1, <2>1, <2>2, Induction DEF T
<1>13. n \in 0..n
  BY <1>1
<1>. QED  BY <1>6, <1>12, <1>13 DEF V

LEMMA AskedMustTyped ==
  ASSUME NEW names \in Seq(Text)
  PROVE  AskedMust(names) \in Seq(Resource)
<1> DEFINE n == Len(names)
           V == Seq(Resource)
           step == [i \in 1..n |-> [m \in V |-> Set(m, names[i], Getenv(names[i]))]]
           base == <<>>
           Is(g) == g = [i \in 0..n |-> IF i = 0 THEN <<>>
                                       ELSE Set(g[i - 1], names[i], Getenv(names[i]))]
           envs == CHOOSE g : Is(g)
<1>1. n \in Nat /\ \A i \in 1..n : names[i] \in Text
  BY SeqIsFunction
<1>2. ASSUME NEW i \in 1..n PROVE names[i] \in Text /\ Getenv(names[i]) \in Text
  BY <1>1, GetenvTyped
<1>3. step \in [1..n -> [V -> V]]
  <2>1. ASSUME NEW i \in 1..n, NEW m \in V
        PROVE  Set(m, names[i], Getenv(names[i])) \in V
    BY <1>2, SetTyped
  <2>. QED  BY <2>1
<1>4. base \in V
  OBVIOUS
<1>5. \A i \in 1..n : \A m \in V : step[i][m] = Set(m, names[i], Getenv(names[i]))
  OBVIOUS
<1>6. AskedMust(names) = envs[n]
  BY Zenon DEF AskedMust
<1> HIDE DEF step, V, n, base
<1>7. PICK f \in [0..n -> V] : Iterates(f, n, base, step)
  BY <1>1, <1>3, <1>4, Iteration
<1>8. Is(f)
  <2>1. ASSUME NEW i \in 0..n
        PROVE  f[i] = IF i = 0 THEN <<>> ELSE Set(f[i - 1], names[i], Getenv(names[i]))
    <3>1. CASE i = 0
      BY <1>7, <3>1 DEF Iterates, base
    <3>2. CASE i # 0
      <4>1. i \in 1..n /\ i - 1 \in 0..n
        BY <1>1, <3>2
      <4>2. f[i - 1] \in V /\ f[i] = step[i][f[i - 1]]
        BY <1>7, <4>1 DEF Iterates
      <4>. QED  BY <1>5, <3>2, <4>1, <4>2
    <3>. QED  BY <3>1, <3>2
  <2>. QED  BY <2>1
<1>9. Is(envs)
  <2> HIDE DEF Is
  <2>. QED  BY <1>8
<1> HIDE DEF envs
<1>10. \A i \in 1..n : envs[i] = Set(envs[i - 1], names[i], Getenv(names[i]))
  <2>1. \A i \in 1..n : i \in 0..n /\ i # 0
    BY <1>1
  <2>. QED  BY <1>9, <2>1
<1>11. envs[0] = <<>>
  BY <1>1, <1>9
<1> HIDE DEF Is
<1>12. 0..n \subseteq {i \in 0..n : envs[i] \in V}
  <2> DEFINE T == {i \in 0..n : envs[i] \in V}
  <2>1. 0 \in T
    BY <1>1, <1>4, <1>11 DEF base
  <2>2. ASSUME NEW i \in 1..n, i - 1 \in T PROVE i \in T
    <3>1. Set(envs[i - 1], names[i], Getenv(names[i])) \in V
      BY <1>2, <2>2, SetTyped DEF V
    <3>. QED  BY <1>1, <1>10, <3>1
  <2> HIDE DEF T
  <2>. QED  BY <1>1, <2>1, <2>2, Induction DEF T
<1>13. n \in 0..n
  BY <1>1
<1>. QED  BY <1>6, <1>12, <1>13 DEF V

-----------------------------------------------------------------------------
(* Texts of words *)

(* A text being rendered, of words in V, is between two actions. *)
FrameIs(f, V) ==
  /\ f.text \in V /\ f.out \in V /\ f.dir \in Text
  /\ Parses(f.text, Functions)
  /\ f.next \in 1..(Len(f.text) + 1)
  /\ \A k \in 1..(f.next - 1) : f.text[k] = "open" => CloseOf(f.text, k) < f.next

LEMMA FramesAre ==
  /\ FramesText <=> \A i \in DOMAIN frames : FrameIs(frames[i], Written(i))
  /\ FramesText' <=> (\A i \in DOMAIN frames : FrameIs(frames[i], Written(i)))'
<1>1. FramesText <=> \A i \in DOMAIN frames : FrameIs(frames[i], Written(i))
  BY DEF FramesText, BetweenActions, FrameIs
<1>2. FramesText' <=> (\A i \in DOMAIN frames : FrameIs(frames[i], Written(i)))'
  BY DEF FramesText, BetweenActions, FrameIs
<1>. QED  BY <1>1, <1>2

(* What is written is a sequence of words, with a break at most. *)
LEMMA WrittenIs ==
  \A i : \E W : /\ Written(i) = Seq(W) /\ Word \subseteq W /\ W \subseteq Word \cup {"break"}
                /\ Text \subseteq Written(i)
<1>1. Text \subseteq Seq(Word \cup {"break"})
  BY SeqMonotonic DEF Text
<1>2. TAKE i
<1>3. CASE stage = "locations" /\ i = 1
  BY <1>1, <1>3 DEF Written
<1>4. CASE ~(stage = "locations" /\ i = 1)
  BY <1>4 DEF Written, Text
<1>. QED  BY <1>3, <1>4

(* The text goes on after an action. *)
LEMMA NextAction ==
  ASSUME NEW V, NEW text \in Seq(V), NEW funcs, Parses(text, funcs),
         NEW i \in 1..Len(text), text[i] = "open",
         \A k \in 1..(i - 1) : text[k] = "open" => CloseOf(text, k) < i
  PROVE  /\ CloseOf(text, i) + 1 \in 1..(Len(text) + 1)
         /\ \A k \in 1..CloseOf(text, i) :
              text[k] = "open" => CloseOf(text, k) < CloseOf(text, i) + 1
<1> DEFINE c == CloseOf(text, i)
           n == Len(text)
<1>1. /\ c \in (i + 2)..n /\ text[c] = "close"
      /\ \A k \in (i + 1)..(c - 1) : text[k] \notin {"open", "close", "break"}
  BY ParsedCall
<1>2. n \in Nat /\ i \in 1..n
  BY LenProperties
<1> HIDE DEF c, n
<1>3. c \in Nat /\ i \in Nat /\ 1 <= i /\ i < c /\ c <= n
  BY <1>1, <1>2
<1>4. c + 1 \in 1..(n + 1)
  BY <1>2, <1>3
<1>5. ASSUME NEW k \in 1..c, text[k] = "open" PROVE CloseOf(text, k) < c + 1
  <2>1. CASE k < i
    <3>1. k \in 1..(i - 1)
      BY <1>3, <2>1
    <3>2. CloseOf(text, k) < i
      BY <1>5, <3>1
    <3>3. CloseOf(text, k) \in Nat
      <4>1. k \in 1..n
        BY <1>2, <1>3
      <4>. QED  BY <1>5, <4>1, ParsedCall DEF n
    <3>. QED  BY <1>3, <3>2, <3>3
  <2>2. CASE k = i
    BY <1>3, <2>2 DEF c
  <2>3. CASE k > i /\ k < c
    <3>1. k \in (i + 1)..(c - 1)
      BY <1>3, <2>3
    <3>. QED  BY <1>1, <1>5, <3>1
  <2>4. CASE k = c
    BY <1>1, <1>5, <2>4
  <2>. QED  BY <1>3, <2>1, <2>2, <2>3, <2>4
<1>. QED  BY <1>4, <1>5 DEF c, n

(* After a call comes the next action. *)
LEMMA AfterCall ==
  ASSUME NEW i, NEW f, FrameIs(f, Written(i)), DOMAIN f = FrameFields,
         f.next <= Len(f.text), f.text[f.next] = "open",
         NEW value \in Text, NEW missing
  PROVE  FrameIs([f EXCEPT !.next = CloseOf(f.text, @) + 1, !.out = @ \o value,
                           !.missing = missing], Written(i))
<1> DEFINE g == [f EXCEPT !.next = CloseOf(f.text, @) + 1, !.out = @ \o value,
                          !.missing = missing]
<1>1. PICK W : Written(i) = Seq(W) /\ Word \subseteq W /\ Text \subseteq Seq(W)
  BY WrittenIs
<1>2. g.next = CloseOf(f.text, f.next) + 1 /\ g.out = f.out \o value
      /\ g.text = f.text /\ g.dir = f.dir
  BY DEF FrameFields
<1> HIDE DEF g
<1>3. f.out \o value \in Written(i)
  <2>1. f.out \in Seq(W) /\ value \in Seq(W)
    BY <1>1 DEF FrameIs
  <2>. QED  BY <1>1, <2>1, ConcatTyped
<1>4. f.text \in Seq(W) /\ Parses(f.text, Functions) /\ f.next \in 1..Len(f.text)
  <2>1. Len(f.text) \in Nat
    BY <1>1, LenProperties DEF FrameIs
  <2>. QED  BY <1>1, <2>1 DEF FrameIs
<1>5. /\ CloseOf(f.text, f.next) + 1 \in 1..(Len(f.text) + 1)
      /\ \A k \in 1..CloseOf(f.text, f.next) :
              f.text[k] = "open" => CloseOf(f.text, k) < CloseOf(f.text, f.next) + 1
  BY <1>4, NextAction DEF FrameIs
<1>6. CloseOf(f.text, f.next) + 1 - 1 = CloseOf(f.text, f.next)
  <2>1. CloseOf(f.text, f.next) \in (f.next + 2)..Len(f.text)
    BY <1>4, ParsedCall
  <2>. QED  BY <2>1
<1>7. FrameIs(g, Written(i))
  <2>1. g.text \in Written(i) /\ g.out \in Written(i) /\ g.dir \in Text /\ Parses(g.text, Functions)
    BY <1>2, <1>3 DEF FrameIs
  <2> DEFINE c == CloseOf(f.text, f.next)
             n == Len(f.text)
  <2>2. g.next = c + 1 /\ c + 1 \in 1..(n + 1) /\ c + 1 - 1 = c /\ g.text = f.text
        /\ \A k \in 1..c : f.text[k] = "open" => CloseOf(f.text, k) < c + 1
    BY <1>2, <1>5, <1>6
  <2> HIDE DEF c
  <2> DEFINE m == g.next
  <2>8. m = c + 1
    BY <2>2
  <2> HIDE DEF m
  <2>9. c \in Nat
    <3>1. c \in (f.next + 2)..n /\ n \in Nat /\ f.next \in Nat
      BY <1>4, ParsedCall, LenProperties DEF c
    <3> HIDE DEF n
    <3>. QED  BY <3>1
  <2>5. m = c + 1 /\ m - 1 = c
    BY <2>8, <2>9
  <2> HIDE DEF m
  <2>6. 1..(m - 1) = 1..c /\ m \in 1..(n + 1)
    BY <2>2, <2>5
  <2>7. \A k \in 1..c : f.text[k] = "open" => CloseOf(f.text, k) < m
    BY <2>2, <2>5
  <2>3. g.next \in 1..(n + 1)
        /\ \A k \in 1..(g.next - 1) : f.text[k] = "open" => CloseOf(f.text, k) < g.next
    BY <2>6, <2>7 DEF m
  <2>4. g.next \in 1..(Len(g.text) + 1)
        /\ \A k \in 1..(g.next - 1) : g.text[k] = "open" => CloseOf(g.text, k) < g.next
    BY <2>2, <2>3
  <2>. QED  BY <2>1, <2>4 DEF FrameIs
<1>. QED  BY <1>7 DEF g

(* The topmost text goes on, in its place. *)
LEMMA TopTextGoesOn ==
  ASSUME IInv, FramesText, frames # <<>>,
         NEW f, FrameIs(f, Written(Len(frames))), frames' = Append(Front(frames), f),
         stage' = stage, loader'.funcs = loader.funcs
  PROVE  FramesText'
<1>1. /\ IsSeq(frames') /\ Len(frames') = Len(frames)
      /\ \A i \in 1..(Len(frames) - 1) : frames'[i] = frames[i]
      /\ frames'[Len(frames)] = f
  BY ReplaceLast DEF IInv, TypeOK
<1>2. Len(frames) \in Nat /\ DOMAIN frames = 1..Len(frames) /\ DOMAIN frames' = 1..Len(frames)
  BY <1>1, SeqFacts DEF IInv, TypeOK
<1>3. \A i \in DOMAIN frames : FrameIs(frames[i], Written(i))
  BY FramesAre
<1>4. \A i : Written(i)' = Written(i)
  BY DEF Written
<1>5. \A g, V : FrameIs(g, V)' <=> FrameIs(g, V)
  BY DEF FrameIs, Functions
<1>6. ASSUME NEW i \in DOMAIN frames' PROVE FrameIs(frames'[i], Written(i))
  <2>1. CASE i = Len(frames)
    BY <1>1, <2>1
  <2>2. CASE i # Len(frames)
    <3> DEFINE n == Len(frames)
    <3>0. n \in Nat /\ i \in 1..n /\ i # n /\ DOMAIN frames = 1..n
      BY <1>2, <2>2
    <3> HIDE DEF n
    <3>1. i \in 1..(n - 1) /\ i \in DOMAIN frames
      BY <3>0
    <3>. QED  BY <1>1, <1>3, <3>1 DEF n
  <2>. QED  BY <2>1, <2>2
<1>7. (\A i \in DOMAIN frames : FrameIs(frames[i], Written(i)))'
  BY <1>4, <1>6 DEF FrameIs, Functions
<1>. QED  BY <1>7, FramesAre

(* Nothing is rendered, and nothing is wrong with it. *)
LEMMA NoFrames ==
  ASSUME frames' = <<>>
  PROVE  FramesText'
BY DEF FramesText, BetweenActions

(* The topmost text, and the call it stops before. *)
LEMMA TopFacts ==
  ASSUME IInv, FramesText, frames # <<>>
  PROVE  /\ Len(frames) \in Nat /\ Len(frames) >= 1 /\ Len(frames) \in DOMAIN frames
         /\ Top = frames[Len(frames)] /\ DOMAIN Top = FrameFields
         /\ FrameIs(Top, Written(Len(frames)))
         /\ Top.text \in Seq(Word \cup {"break"}) /\ Top.out \in Seq(Word \cup {"break"})
         /\ Top.dir \in Text
         /\ Len(Top.text) \in Nat /\ Top.next \in 1..(Len(Top.text) + 1)
<1>1. Len(frames) \in Nat /\ Len(frames) >= 1 /\ DOMAIN frames = 1..Len(frames)
  BY SeqFacts DEF IInv, TypeOK
<1>2. Len(frames) \in DOMAIN frames /\ Top = frames[Len(frames)]
  BY <1>1 DEF Top, Last
<1>3. FrameIs(Top, Written(Len(frames)))
  BY <1>2, FramesAre
<1>4. DOMAIN Top = FrameFields
  BY <1>2 DEF IInv, TypeOK
<1>5. PICK W : Written(Len(frames)) = Seq(W) /\ W \subseteq Word \cup {"break"}
  BY WrittenIs
<1>6. Seq(W) \subseteq Seq(Word \cup {"break"})
  BY <1>5, SeqMonotonic
<1>7. Top.text \in Seq(Word \cup {"break"}) /\ Top.out \in Seq(Word \cup {"break"})
  BY <1>3, <1>5, <1>6 DEF FrameIs
<1>8. Len(Top.text) \in Nat
  BY <1>7, LenProperties
<1>. QED  BY <1>1, <1>2, <1>3, <1>4, <1>7, <1>8 DEF FrameIs

LEMMA CallFacts ==
  ASSUME IInv, FramesText, NEW fns, AtCall(fns)
  PROVE  /\ frames # <<>> /\ Unfinished(Top)
         /\ Top.next \in 1..Len(Top.text) /\ Top.next <= Len(Top.text)
         /\ Top.text[Top.next] = "open"
         /\ Args \in Seq(Text) /\ Args # <<>> /\ Args[1] \in Text /\ Target \in Text
         /\ Top.text[Top.next + 1] \in Functions \cap fns
<1>1. frames # <<>> /\ Unfinished(Top) /\ Top.text[Top.next] = "open"
      /\ Top.text[Top.next + 1] \in fns
  BY DEF AtCall
<1>2. /\ Top.text \in Seq(Word \cup {"break"}) /\ Top.dir \in Text
      /\ Len(Top.text) \in Nat /\ Top.next \in 1..(Len(Top.text) + 1)
      /\ Parses(Top.text, Functions)
  BY <1>1, TopFacts DEF FrameIs
<1>3. Top.next \in 1..Len(Top.text) /\ Top.next <= Len(Top.text)
  BY <1>1, <1>2 DEF Unfinished
<1>4. Args \in Seq(Text) /\ Args # <<>>
  BY <1>1, <1>2, <1>3, ArgumentsTyped DEF Args
<1>5. Args[1] \in Text
  BY <1>4, FirstTyped
<1>6. Target \in Text
  BY <1>2, <1>5, ResolveTyped DEF Target
<1>7. Top.text[Top.next + 1] \in Functions
  BY <1>1, <1>2, <1>3, ParsedCall
<1>. QED  BY <1>1, <1>3, <1>4, <1>5, <1>6, <1>7

LEMMA ContentsTyped ==
  ASSUME FilesText, NEW path
  PROVE  Contents(path) \in Text
<1>1. <<>> \in Text
  BY DEF Text
<1>. QED  BY <1>1 DEF FilesText, Contents, ThereIs

(* What a call gives is added to the text. *)
LEMMA EmitKeepsText ==
  ASSUME IInv, FramesText, NEW fns, AtCall(fns), NEW value \in Text, NEW found,
         Emit(value, found), loader'.funcs = loader.funcs
  PROVE  FramesText'
<1> DEFINE f == Returned(value, found)
           missing == Top.missing \/ ~found
<1>1. /\ frames # <<>> /\ Top.next <= Len(Top.text) /\ Top.text[Top.next] = "open"
  BY CallFacts
<1>2. FrameIs(Top, Written(Len(frames))) /\ DOMAIN Top = FrameFields
  BY <1>1, TopFacts
<1> DEFINE t == Top
           w == Len(frames)
<1>3. FrameIs([t EXCEPT !.next = CloseOf(t.text, @) + 1, !.out = @ \o value,
                        !.missing = missing], Written(w))
  <2> HIDE DEF missing, t, w
  <2>. QED  BY <1>1, <1>2, AfterCall DEF t, w
<1>4. f = [t EXCEPT !.next = CloseOf(t.text, @) + 1, !.out = @ \o value,
                    !.missing = missing]
  BY DEF Returned
<1>5. FrameIs(f, Written(Len(frames)))
  BY <1>3, <1>4
<1>6. frames' = Append(Front(frames), f) /\ stage' = stage
  BY DEF Emit
<1> HIDE DEF f
<1>. QED  BY <1>1, <1>5, <1>6, TopTextGoesOn

(* So is what is copied. *)
LEMMA CopyKeepsText ==
  ASSUME IInv, FramesText, Copy
  PROVE  FramesText'
<1> DEFINE n == Len(Top.text)
           Is(i) == /\ i <= n => Top.text[i] = "open"
                    /\ \A j \in Top.next..(i - 1) : Top.text[j] # "open"
           end == CHOOSE i \in Top.next..(n + 1) : Is(i)
           out == Top.out \o SubSeq(Top.text, Top.next, end - 1)
           f == [Top EXCEPT !.next = end, !.out = out]
<1>1. frames # <<>> /\ Unfinished(Top) /\ stage' = stage /\ loader'.funcs = loader.funcs
  BY DEF Copy
<1>2. frames' = Append(Front(frames), f)
  BY DEF Copy
<1>3. FrameIs(Top, Written(Len(frames))) /\ DOMAIN Top = FrameFields
      /\ n \in Nat /\ Top.next \in 1..(n + 1)
  BY <1>1, TopFacts
<1>4. \E i \in Top.next..(n + 1) : Is(i)
  <2> DEFINE S == {i \in 1..n : Top.text[i] = "open"}
             m == Top.next
  <2>0. m \in 1..(n + 1) /\ n \in Nat
    BY <1>3
  <2>1. PICK j \in m..(n + 1) : (j <= n => j \in S) /\ \A k \in m..(j - 1) : k \notin S
    <3> HIDE DEF m, n, S
    <3>. QED  BY <2>0, FirstPosition
  <2>2. \A k \in m..(j - 1) : k \in 1..n
    <3> HIDE DEF m, n
    <3>. QED  BY <2>0
  <2>3. Is(j)
    BY <2>1, <2>2
  <2>. QED  BY <2>1, <2>3
<1>5. end \in Top.next..(n + 1) /\ Is(end)
  <2> HIDE DEF Is
  <2>. QED  BY <1>4
<1> HIDE DEF end
<1>6. PICK W : Written(Len(frames)) = Seq(W)
  BY WrittenIs
<1>7. out \in Seq(W)
  <2> DEFINE m == Top.next
             s == Top.text
  <2>1. s \in Seq(W) /\ Top.out \in Seq(W)
    BY <1>3, <1>6 DEF FrameIs
  <2>2. n = Len(s) /\ \A k \in 1..n : s[k] \in W
    BY <2>1, SeqIsFunction
  <2>3. m \in Nat /\ m >= 1 /\ end - 1 \in Int /\ end - 1 <= n /\ \A k \in m..(end - 1) : k \in 1..n
    <3>1. m \in 1..(n + 1) /\ n \in Nat /\ end \in m..(n + 1)
      BY <1>3, <1>5
    <3> HIDE DEF m, n
    <3>. QED  BY <3>1
  <2>4. SubSeq(s, m, end - 1) \in Seq(W)
    <3>1. \A k \in m..(end - 1) : s[k] \in W
      BY <2>2, <2>3
    <3> HIDE DEF m
    <3>. QED  BY <2>1, <2>2, <2>3, <3>1, PartTyped DEF n
  <2>. QED  BY <2>1, <2>4, ConcatTyped
<1>8. f.text = Top.text /\ f.dir = Top.dir /\ f.next = end /\ f.out = out
  BY <1>3 DEF FrameFields
<1> HIDE DEF f, out
<1>9. ASSUME NEW k \in 1..(end - 1), Top.text[k] = "open"
      PROVE  CloseOf(Top.text, k) < end
  <2> DEFINE m == Top.next
  <2>1. end \in m..(n + 1) /\ m \in 1..(n + 1) /\ n \in Nat
    BY <1>3, <1>5
  <2>2. k \notin m..(end - 1)
    BY <1>5, <1>9
  <2>3. k \in 1..(m - 1) /\ k \in 1..n
    <3> HIDE DEF m, n
    <3>. QED  BY <2>1, <2>2
  <2>4. CloseOf(Top.text, k) < m
    BY <1>3, <1>9, <2>3 DEF FrameIs
  <2>5. CloseOf(Top.text, k) \in (k + 2)..n
    BY <1>3, <1>6, <1>9, <2>3, ParsedCall DEF FrameIs
  <2> DEFINE c == CloseOf(Top.text, k)
  <2> HIDE DEF m, n, c
  <2>6. c \in Nat
    BY <2>3, <2>5 DEF c
  <2>. QED  BY <2>1, <2>4, <2>6 DEF c
<1>10. end \in 1..(n + 1)
  <2> DEFINE m == Top.next
  <2>1. end \in m..(n + 1) /\ m \in 1..(n + 1) /\ n \in Nat
    BY <1>3, <1>5
  <2> HIDE DEF m, n
  <2>. QED  BY <2>1
<1>11. FrameIs(f, Written(Len(frames)))
  BY <1>3, <1>6, <1>7, <1>8, <1>9, <1>10 DEF FrameIs
<1>. QED  BY <1>1, <1>2, <1>11, TopTextGoesOn DEF f

(* A file is rendered from its beginning. *)
LEMMA NewFrameIs ==
  ASSUME NEW V, NEW text \in V, Parses(text, Functions), NEW dir \in Text, <<>> \in V,
         Len(text) \in Nat
  PROVE  FrameIs(NewFrame(text, dir), V)
<1> DEFINE f == NewFrame(text, dir)
<1>1. f.text = text /\ f.out = <<>> /\ f.dir = dir /\ f.next = 1
  BY DEF NewFrame
<1> HIDE DEF f
<1>2. f.next \in 1..(Len(f.text) + 1) /\ 1..(f.next - 1) = {}
  BY <1>1
<1>. QED  BY <1>1, <1>2 DEF FrameIs, f

LEMMA WrittenSame ==
  ASSUME UNCHANGED <<stage, loader.funcs>>
  PROVE  /\ \A i : Written(i)' = Written(i)
         /\ Functions' = Functions
BY DEF Written, Functions

(* A nested file is one of words. *)
LEMMA TemplateFileKeepsText ==
  ASSUME IInv, FramesText, FilesText, CallTemplateFile
  PROVE  FramesText'
<1>1. CASE Fail("cycle") \/ Fail("error")
  BY <1>1, NoFrames DEF Fail
<1>2. CASE ~(Fail("cycle") \/ Fail("error"))
  <2> DEFINE target == Target
             f == Returned(<<>>, ThereIs(target))
             g == NewFrame(Contents(target), Dir(target))
             n == Len(frames)
  <2>1. /\ AtCall({"template_file"}) /\ Parses(Contents(target), Functions)
        /\ frames' = Front(frames) \o <<f, g>>
        /\ UNCHANGED <<stage, loader, cfg>>
    BY <1>2 DEF CallTemplateFile
  <2>2. /\ frames # <<>> /\ Top.next <= Len(Top.text) /\ Top.text[Top.next] = "open"
        /\ target \in Text
    BY <2>1, CallFacts
  <2>3. FrameIs(Top, Written(n)) /\ DOMAIN Top = FrameFields /\ n \in Nat /\ n >= 1
    BY <2>2, TopFacts
  <2>4. FrameIs(f, Written(n))
    <3> DEFINE t == Top
               missing == Top.missing \/ ~ThereIs(target)
               none == <<>>
    <3>1. none \in Text
      BY DEF Text
    <3>2. f = [t EXCEPT !.next = CloseOf(t.text, @) + 1, !.out = @ \o none, !.missing = missing]
      BY DEF Returned
    <3>3. FrameIs([t EXCEPT !.next = CloseOf(t.text, @) + 1, !.out = @ \o none,
                            !.missing = missing], Written(n))
      <4> HIDE DEF missing, t, n, none
      <4>. QED  BY <2>2, <2>3, <3>1, AfterCall DEF t, n
    <3>. QED  BY <3>2, <3>3
  <2>5. FrameIs(g, Text)
    <3>1. Contents(target) \in Text /\ <<>> \in Text
      BY ContentsTyped DEF Text
    <3>2. Dir(target) \in Text
      BY <2>2, FrontOf DEF Dir, Text
    <3>3. Len(Contents(target)) \in Nat
      BY <3>1, LenProperties DEF Text
    <3>. QED  BY <2>1, <3>1, <3>2, <3>3, NewFrameIs
  <2>6. Written(n + 1) = Text
    <3>1. n + 1 # 1
      <4> HIDE DEF n
      <4>. QED  BY <2>3
    <3>. QED  BY <3>1 DEF Written
  <2> HIDE DEF f, g, target
  <2>7. /\ IsSeq(frames') /\ Len(frames') = n + 1
        /\ \A i \in 1..(n - 1) : frames'[i] = frames[i]
        /\ frames'[n] = f /\ frames'[n + 1] = g
    BY <2>1, <2>2, ReplaceLastAndAdd DEF IInv, TypeOK
  <2>8. DOMAIN frames = 1..n /\ DOMAIN frames' = 1..(n + 1)
    BY <2>7, SeqFacts DEF IInv, TypeOK
  <2> HIDE DEF n
  <2>9. \A i \in DOMAIN frames : FrameIs(frames[i], Written(i))
    BY FramesAre
  <2>10. ASSUME NEW i \in DOMAIN frames' PROVE FrameIs(frames'[i], Written(i))
    <3>1. CASE i = n
      BY <2>4, <2>7, <3>1
    <3>2. CASE i = n + 1
      BY <2>5, <2>6, <2>7, <3>2
    <3>3. CASE i # n /\ i # n + 1
      <4>1. i \in 1..(n - 1) /\ i \in DOMAIN frames
        BY <2>3, <2>8, <3>3
      <4>. QED  BY <2>7, <2>9, <4>1
    <3>. QED  BY <3>1, <3>2, <3>3
  <2>11. (\A i \in DOMAIN frames : FrameIs(frames[i], Written(i)))'
    BY <2>1, <2>10, WrittenSame DEF FrameIs
  <2>. QED  BY <2>11, FramesAre
<1>. QED  BY <1>1, <1>2

(* What it is rendered as is added to the text that nests it. *)
LEMMA ReturnKeepsText ==
  ASSUME IInv, FramesText, ReturnNested
  PROVE  FramesText'
<1> DEFINE n == Len(frames)
           c == frames[n - 1]
           f == [c EXCEPT !.out = @ \o Top.out]
           kept == SubSeq(frames, 1, n - 2)
<1>1. /\ n > 1 /\ frames' = Append(kept, f) /\ UNCHANGED <<stage, loader>>
      /\ n \in Nat /\ DOMAIN frames = 1..n /\ frames # <<>>
  <2>1. n > 1 /\ frames' = Append(kept, f) /\ UNCHANGED <<stage, loader>>
    BY DEF ReturnNested
  <2>2. n \in Nat /\ DOMAIN frames = 1..n /\ (frames = <<>> => n = 0)
    BY SeqFacts DEF IInv, TypeOK
  <2> HIDE DEF n
  <2>. QED  BY <2>1, <2>2
<1>2. \A i \in DOMAIN frames : FrameIs(frames[i], Written(i)) /\ DOMAIN frames[i] = FrameFields
  BY FramesAre DEF IInv, TypeOK
<1>3. n - 1 \in DOMAIN frames /\ n - 2 \in Nat /\ n \in DOMAIN frames /\ n # 1
      /\ n - 2 <= n /\ n - 2 + 1 = n - 1
  <2> HIDE DEF n
  <2>. QED  BY <1>1
<1>4. Top.out \in Text
  <2>1. Top = frames[n]
    BY DEF Top, Last
  <2>2. Written(n) = Text
    BY <1>3 DEF Written
  <2>. QED  BY <1>2, <1>3, <2>1, <2>2 DEF FrameIs
<1>5. FrameIs(c, Written(n - 1)) /\ DOMAIN c = FrameFields
  BY <1>2, <1>3
<1>6. /\ IsSeq(kept) /\ Len(kept) = n - 2 /\ \A i \in 1..(n - 2) : kept[i] = frames[i]
  BY <1>3, PrefixFacts DEF IInv, TypeOK
<1>7. PICK W : Written(n - 1) = Seq(W) /\ Word \subseteq W /\ Text \subseteq Seq(W)
  BY WrittenIs
<1>8. f.text = c.text /\ f.dir = c.dir /\ f.next = c.next /\ f.out = c.out \o Top.out
  BY <1>5 DEF FrameFields
<1> HIDE DEF f, c, kept
<1>9. f.out \in Seq(W)
  <2>1. c.out \in Seq(W) /\ Top.out \in Seq(W)
    BY <1>4, <1>5, <1>7 DEF FrameIs
  <2>. QED  BY <1>8, <2>1, ConcatTyped
<1>10. FrameIs(f, Written(n - 1))
  BY <1>5, <1>7, <1>8, <1>9 DEF FrameIs
<1>11. /\ IsSeq(frames') /\ Len(frames') = n - 2 + 1
       /\ \A i \in 1..(n - 2) : frames'[i] = kept[i]
       /\ frames'[n - 2 + 1] = f
  <2>1. /\ IsSeq(frames') /\ Len(frames') = Len(kept) + 1
        /\ \A i \in 1..Len(kept) : frames'[i] = kept[i]
        /\ frames'[Len(kept) + 1] = f
    BY <1>1, <1>6, AppendFacts
  <2>. QED  BY <1>6, <2>1
<1>12. DOMAIN frames' = 1..(n - 1)
  BY <1>3, <1>11, SeqFacts
<1> HIDE DEF n
<1>13. ASSUME NEW i \in DOMAIN frames' PROVE FrameIs(frames'[i], Written(i))
  <2>1. CASE i = n - 1
    BY <1>3, <1>10, <1>11, <2>1
  <2>2. CASE i # n - 1
    <3>1. i \in 1..(n - 2) /\ i \in DOMAIN frames
      BY <1>1, <1>12, <2>2
    <3>. QED  BY <1>2, <1>6, <1>11, <3>1
  <2>. QED  BY <2>1, <2>2
<1>14. (\A i \in DOMAIN frames : FrameIs(frames[i], Written(i)))'
  BY <1>1, <1>13, WrittenSame DEF FrameIs
<1>. QED  BY <1>14, FramesAre

(* A text is rendered from its beginning. *)
LEMMA BeginKeepsText ==
  ASSUME IInv, NEW text, NEW dir \in Text, Begin(text, dir), text \in Written(1)
  PROVE  FramesText'
<1>1. CASE Fail("error")
  BY <1>1, NoFrames DEF Fail
<1>2. CASE ~Fail("error")
  <2> DEFINE f == NewFrame(text, dir)
  <2>1. Parses(text, Functions) /\ frames' = <<f>> /\ UNCHANGED <<stage, loader>>
    BY <1>2 DEF Begin
  <2>2. PICK W : Written(1) = Seq(W)
    BY WrittenIs
  <2>3. <<>> \in Written(1) /\ Len(text) \in Nat
    <3>1. text \in Seq(W) /\ <<>> \in Seq(W)
      BY <2>2
    <3>. QED  BY <2>2, <3>1, LenProperties
  <2>4. FrameIs(f, Written(1))
    BY <2>1, <2>3, NewFrameIs
  <2> HIDE DEF f
  <2>5. DOMAIN frames' = {1} /\ frames'[1] = f
    BY <2>1
  <2>6. (\A i \in DOMAIN frames : FrameIs(frames[i], Written(i)))'
    BY <2>1, <2>4, <2>5, WrittenSame DEF FrameIs
  <2>. QED  BY <2>6, FramesAre
<1>. QED  BY <1>1, <1>2

-----------------------------------------------------------------------------
(* Loading *)

(* Records keep their fields. *)
LEMMA Fields ==
  ASSUME IInv
  PROVE  /\ DOMAIN cfg = {"body", "definition", "states", "inline", "path", "envs", "mustEnvs"}
         /\ DOMAIN loader = {"funcs", "at", "states", "envs", "mustEnvs"}
BY DEF IInv, TypeOK, NewLoader, NewConfig

LEMMA TextParts ==
  /\ TextInv <=> FilesText /\ FramesText /\ LoaderText /\ CfgText /\ DataText
  /\ TextInv' <=> FilesText' /\ FramesText' /\ LoaderText' /\ CfgText' /\ DataText'
BY DEF TextInv

(* No load goes on by writing. *)
LEMMA LoadStageAfter ==
  ASSUME Loading, Load
  PROVE  stage' \notin {"config file", "read for config", "write config", "write definition"}
<1>1. CASE Copy \/ CallEnv \/ CallMustEnv \/ CallTFState \/ CallFile
           \/ CallTemplateFile \/ ReturnNested \/ ReturnMissing
  BY <1>1 DEF Loading, Copy, CallEnv, CallMustEnv, CallTFState, CallFile,
              CallTemplateFile, ReturnNested, ReturnMissing, Emit, Fail
<1>2. CASE PreLoad \/ BeginLocations \/ EndLocations \/ AppendTFState
           \/ BeginConfig \/ EndConfig \/ Check \/ BeginDefinition \/ EndDefinition
  BY <1>2 DEF PreLoad, BeginLocations, EndLocations, AppendTFState,
              BeginConfig, EndConfig, Check, BeginDefinition, EndDefinition,
              Begin, Goto, Fail
<1>. QED  BY <1>1, <1>2 DEF Load

(* What is in a file, and what is written, stays while a project loads.    *)
LEMMA LoadKeepsRest ==
  ASSUME TextInv, Loading, Load, UNCHANGED <<machine, cmd, data, calls>>
  PROVE  FilesText' /\ DataText'
<1>1. UNCHANGED files
  BY DEF Load
<1>2. FilesText'
  BY <1>1, TextParts DEF FilesText, files
<1>3. stage' \notin {"write config", "write definition"}
  BY LoadStageAfter
<1>. QED  BY <1>2, <1>3, TextParts DEF DataText

(* A failure leaves nothing to be rendered. *)
LEMMA FailKeepsText ==
  ASSUME IInv, TextInv, NEW l \in Failed, Fail(l),
         UNCHANGED <<files, machine, cmd, data, calls>>
  PROVE  TextInv'
<1>1. FramesText'
  BY NoFrames DEF Fail
<1>2. FilesText' /\ LoaderText'
  BY TextParts DEF Fail, FilesText, LoaderText, files
<1>3. stage' \in Failed /\ cfg' = cfg
  BY DEF Fail
<1>4. CfgText' /\ DataText'
  BY <1>3, TextParts DEF CfgText, DataText, Failed
<1>. QED  BY <1>1, <1>2, <1>4, TextParts

(* What a call in a text is replaced by is a text, and so is what is noted *)
(* of it.                                                                  *)
LEMMA RenderingKeepsText ==
  ASSUME IInv, TextInv, Loading,
         Copy \/ CallEnv \/ CallMustEnv \/ CallTFState \/ CallFile
           \/ CallTemplateFile \/ ReturnNested \/ ReturnMissing
  PROVE  FramesText' /\ LoaderText' /\ CfgText'
<1>0. FramesText /\ LoaderText /\ CfgText /\ FilesText
  BY TextParts
<1>a. stage \notin {"config file", "read for config", "write config"}
  BY DEF Loading
<1>1. CASE Copy
  <2>1. UNCHANGED <<stage, loader, cfg>>
    BY <1>1 DEF Copy
  <2>. QED  BY <1>0, <1>1, <2>1, CopyKeepsText DEF LoaderText, CfgText
<1>2. CASE CallEnv
  <2>1. AtCall({"env"}) /\ Emit(EnvValue(Args), TRUE)
        /\ loader' = [loader EXCEPT !.envs = Set(@, EnvKey(Args), EnvValue(Args))]
    BY <1>2 DEF CallEnv
  <2>2. EnvKey(Args) \in Text /\ EnvValue(Args) \in Text
    BY <1>0, <2>1, CallFacts, EnvKeyTyped, EnvValueTyped
  <2>3. loader'.funcs = loader.funcs /\ loader'.mustEnvs = loader.mustEnvs
        /\ loader'.envs = Set(loader.envs, EnvKey(Args), EnvValue(Args))
    BY <2>1, Fields
  <2>4. FramesText'
    BY <1>0, <2>1, <2>2, <2>3, EmitKeepsText
  <2>5. Set(loader.envs, EnvKey(Args), EnvValue(Args)) \in Seq(Resource)
    BY <1>0, <2>2, SetTyped DEF LoaderText
  <2>6. LoaderText'
    BY <1>0, <2>3, <2>5 DEF LoaderText
  <2>7. CfgText'
    BY <1>0, <2>1 DEF Emit, CfgText
  <2>. QED  BY <2>4, <2>6, <2>7
<1>3. CASE CallMustEnv
  <2> DEFINE name == Args[1]
             value == Getenv(name)
             map == Set(loader.mustEnvs, name, value)
  <2>1. AtCall({"must_env"}) /\ Emit(value, IsSet(name))
        /\ loader' \in {[loader EXCEPT !.mustEnvs = map], loader}
    BY <1>3 DEF CallMustEnv
  <2>2. name \in Text /\ value \in Text
    BY <1>0, <2>1, CallFacts, GetenvTyped
  <2>5. map \in Seq(Resource)
    BY <1>0, <2>2, SetTyped DEF LoaderText
  <2> HIDE DEF map, value, name
  <2>3. loader'.funcs = loader.funcs /\ loader'.envs = loader.envs
        /\ loader'.mustEnvs \in {map, loader.mustEnvs}
    BY <2>1, Fields
  <2>4. FramesText'
    BY <1>0, <2>1, <2>2, <2>3, EmitKeepsText
  <2>6. LoaderText'
    BY <1>0, <2>3, <2>5 DEF LoaderText
  <2>7. CfgText'
    BY <1>0, <2>1 DEF Emit, CfgText
  <2>. QED  BY <2>4, <2>6, <2>7
<1>4. CASE CallTFState
  <2> DEFINE fn == Top.text[Top.next + 1]
             found == Lookups(loader.funcs[fn], Args[1])
  <2>1. AtCall(DOMAIN loader.funcs)
        /\ IF found = <<>> THEN Fail("error") ELSE Emit(found[1].value, TRUE) /\ UNCHANGED loader
    BY <1>4 DEF CallTFState
  <2>2. CASE found = <<>>
    <3>1. Fail("error")
      BY <2>1, <2>2
    <3>. QED  BY <1>0, <3>1, NoFrames DEF Fail, LoaderText, CfgText
  <2>3. CASE found # <<>>
    <3>1. fn \in DOMAIN loader.funcs
      BY <2>1 DEF AtCall
    <3>2. found \in Seq(Resource)
      BY <1>0, <3>1, OnlyOf DEF LoaderText, Lookups
    <3>3. Emit(found[1].value, TRUE) /\ UNCHANGED loader
      BY <2>1, <2>3
    <3> DEFINE value == found[1].value
    <3> HIDE DEF found
    <3>4. found[1] \in Resource
      BY <2>3, <3>2, FirstTyped
    <3>5. value \in Text
      BY <3>4 DEF Resource
    <3>6. Emit(value, TRUE)
      BY <3>3
    <3> HIDE DEF value
    <3>7. FramesText'
      BY <1>0, <2>1, <3>3, <3>5, <3>6, EmitKeepsText
    <3>. QED  BY <1>0, <3>3, <3>6, <3>7 DEF Emit, LoaderText, CfgText
  <2>. QED  BY <2>2, <2>3
<1>5. CASE CallFile
  <2> DEFINE value == Contents(Target)
             found == ThereIs(Target)
  <2>1. AtCall({"file"}) /\ Emit(value, found) /\ UNCHANGED loader
    BY <1>5 DEF CallFile
  <2>2. value \in Text
    BY <1>0, ContentsTyped
  <2> HIDE DEF value, found
  <2>3. FramesText'
    BY <1>0, <2>1, <2>2, EmitKeepsText
  <2>. QED  BY <1>0, <2>1, <2>3 DEF Emit, LoaderText, CfgText
<1>6. CASE CallTemplateFile
  <2>1. UNCHANGED <<loader, cfg>> /\ stage' \in {stage, "cycle", "error"}
    BY <1>6 DEF CallTemplateFile, Fail
  <2>. QED  BY <1>0, <1>6, <1>a, <2>1, TemplateFileKeepsText DEF LoaderText, CfgText
<1>7. CASE ReturnNested
  <2>1. UNCHANGED <<stage, loader, cfg>>
    BY <1>7 DEF ReturnNested
  <2>. QED  BY <1>0, <1>7, <2>1, ReturnKeepsText DEF LoaderText, CfgText
<1>8. CASE ReturnMissing
  <2>1. Fail("error")
    BY <1>8 DEF ReturnMissing
  <2>. QED  BY <1>0, <2>1, NoFrames DEF Fail, LoaderText, CfgText
<1>. QED  BY <1>1, <1>2, <1>3, <1>4, <1>5, <1>6, <1>7, <1>8

(* The locations of the Terraform states, in one text. *)
LEMMA LocationsTyped ==
  ASSUME NEW W, Word \subseteq W, "break" \in W,
         NEW states \in Seq(TFStateConfig), states # <<>>
  PROVE  /\ [i \in DOMAIN states |-> states[i].location] \in Seq(Text)
         /\ Join([i \in DOMAIN states |-> states[i].location], "break") \in Seq(W)
<1> DEFINE parts == [i \in DOMAIN states |-> states[i].location]
           mark == "break"
<1>1. Len(states) \in Nat /\ DOMAIN states = 1..Len(states) /\ Len(states) >= 1
      /\ \A i \in DOMAIN states : states[i] \in TFStateConfig
  BY SeqIsFunction, FirstTyped
<1>2. parts \in [1..Len(states) -> Text]
  BY <1>1 DEF TFStateConfig
<1> HIDE DEF parts
<1>3. parts \in Seq(Text) /\ Len(parts) = Len(states)
  BY <1>1, <1>2, IsSequence
<1>4. parts # <<>>
  <2>1. Len(parts) # 0
    <3> DEFINE n == Len(states)
               m == Len(parts)
    <3>1. n >= 1 /\ n \in Nat /\ m = n
      BY <1>1, <1>3
    <3> HIDE DEF n, m
    <3>2. m # 0
      BY <3>1
    <3>. QED  BY <3>2 DEF m
  <2>. QED  BY <1>3, <2>1, EmptySeq
<1>5. parts \in Seq(Seq(W))
  <2>1. Text \subseteq Seq(W)
    BY SeqMonotonic DEF Text
  <2>. QED  BY <1>3, <2>1, SeqMonotonic
<1>6. mark \in W
  OBVIOUS
<1> HIDE DEF mark
<1>7. Join(parts, mark) \in Seq(W)
  BY <1>4, <1>5, <1>6, JoinFacts
<1>. QED  BY <1>3, <1>7 DEF parts, mark

(* What is rendered of words is a text of words. *)
LEMMA RenderedText ==
  ASSUME IInv, FramesText, Rendered, stage # "locations"
  PROVE  Top.out \in Text
<1>1. Len(frames) = 1 /\ frames # <<>>
  <2>1. Len(frames) = 1
    BY DEF Rendered
  <2>. QED  BY <2>1
<1>2. FrameIs(Top, Written(1))
  BY <1>1, TopFacts
<1>. QED  BY <1>2 DEF FrameIs, Written

(* Each stage of a load is given texts, and leaves texts. *)
LEMMA StagesKeepText ==
  ASSUME IInv, TextInv, Loading,
         PreLoad \/ BeginLocations \/ EndLocations \/ AppendTFState
           \/ BeginConfig \/ EndConfig \/ Check \/ BeginDefinition \/ EndDefinition
  PROVE  FramesText' /\ LoaderText' /\ CfgText'
<1>0. FramesText /\ LoaderText /\ CfgText /\ FilesText
  BY TextParts
<1>a. stage' \notin {"config file", "read for config", "write config"}
  BY DEF Loading, PreLoad, BeginLocations, EndLocations, AppendTFState,
              BeginConfig, EndConfig, Check, BeginDefinition, EndDefinition,
              Begin, Goto, Fail
<1>b. ConfigDir \in Text
  BY ProjectsAssumption
<1>c. SUFFICES FramesText' /\ LoaderText'
               /\ cfg'.body \in Text /\ cfg'.definition \in Text /\ cfg'.path \in Text
               /\ cfg'.envs \in Seq(Resource) /\ cfg'.mustEnvs \in Seq(Resource)
  BY <1>a DEF CfgText
<1>d. ASSUME UNCHANGED cfg
      PROVE  /\ cfg'.body \in Text /\ cfg'.definition \in Text /\ cfg'.path \in Text
             /\ cfg'.envs \in Seq(Resource) /\ cfg'.mustEnvs \in Seq(Resource)
  BY <1>0, <1>d DEF CfgText
<1>e. ASSUME NEW l, Fail(l)
      PROVE  FramesText' /\ LoaderText' /\ UNCHANGED cfg
  BY <1>0, <1>e, NoFrames DEF Fail, LoaderText
<1>f. ASSUME NEW text, NEW dir, Begin(text, dir) PROVE LoaderText' /\ UNCHANGED cfg
  BY <1>0, <1>f DEF Begin, Fail, LoaderText
<1>1. CASE PreLoad
  <2>1. CASE Fail("error")
    BY <1>d, <1>e, <2>1
  <2>2. CASE ~Fail("error")
    <3>1. /\ UNCHANGED <<frames, loader>> /\ frames = <<>>
          /\ cfg' = [cfg EXCEPT !.inline = config.inline, !.path = config.path]
      BY <1>1, <2>2, NothingRendered DEF PreLoad, Goto
    <3>2. config.path \in Text
      BY <1>0 DEF FilesText, ConfigFile
    <3>3. /\ cfg'.body = cfg.body /\ cfg'.definition = cfg.definition /\ cfg'.path = config.path
          /\ cfg'.envs = cfg.envs /\ cfg'.mustEnvs = cfg.mustEnvs
      BY <3>1, Fields
    <3>. QED  BY <1>0, <3>1, <3>2, <3>3, NoFrames DEF LoaderText, CfgText
  <2>. QED  BY <2>1, <2>2
<1>2. CASE BeginLocations
  <2> DEFINE text == Join([i \in DOMAIN config.states |-> config.states[i].location], "break")
  <2>1. Begin(text, ConfigDir) /\ stage = "locations"
    BY <1>2 DEF BeginLocations
  <2>2. config.states \in Seq(TFStateConfig) /\ config.states # <<>>
    BY <1>0, <2>1 DEF FilesText, ConfigFile, IInv, Counted
  <2>3. text \in Written(1)
    BY <2>1, <2>2, LocationsTyped DEF Written
  <2> HIDE DEF text
  <2>. QED  BY <1>b, <1>d, <1>f, <2>1, <2>3, BeginKeepsText
<1>3. CASE EndLocations
  <2>1. CASE Fail("error")
    BY <1>d, <1>e, <2>1
  <2>2. CASE ~Fail("error")
    <3>1. PICK states : loader' = [loader EXCEPT !.states = states]
      BY <1>3, <2>2 DEF EndLocations
    <3>2. frames' = <<>> /\ UNCHANGED cfg
      BY <1>3, <2>2 DEF EndLocations
    <3>3. loader'.funcs = loader.funcs /\ loader'.envs = loader.envs
          /\ loader'.mustEnvs = loader.mustEnvs
      BY <3>1, Fields
    <3>. QED  BY <1>0, <1>d, <3>2, <3>3, NoFrames DEF LoaderText
  <2>. QED  BY <2>1, <2>2
<1>4. CASE AppendTFState
  <2>1. CASE Fail("error")
    BY <1>d, <1>e, <2>1
  <2>2. CASE ~Fail("error")
    <3> DEFINE path == Resolve(ConfigDir, loader.states[loader.at].location)
               fn == loader.states[loader.at].fn
               at == loader.at + 1
    <3>1. /\ path \in DOMAIN States
          /\ loader' = [loader EXCEPT !.at = at,
                  !.funcs = [f \in DOMAIN loader.funcs \cup {fn} |->
                               IF f = fn THEN States[path] ELSE loader.funcs[f]]]
      BY <1>4, <2>2 DEF AppendTFState
    <3> HIDE DEF path, fn, at
    <3>2. UNCHANGED frames /\ cfg' = [cfg EXCEPT !.states = loader.states] /\ frames = <<>>
      BY <1>4, <2>2, NothingRendered DEF AppendTFState, Goto
    <3> DEFINE funcs == [f \in DOMAIN loader.funcs \cup {fn} |->
                               IF f = fn THEN States[path] ELSE loader.funcs[f]]
    <3>3. funcs \in [DOMAIN funcs -> Seq(Resource)]
      <4>1. States[path] \in Seq(Resource)
        BY <3>1, ValuesAssumption
      <4>2. \A f \in DOMAIN loader.funcs : loader.funcs[f] \in Seq(Resource)
        BY <1>0 DEF LoaderText
      <4> DEFINE known == loader.funcs
                 new == States[path]
                 R == Seq(Resource)
      <4> HIDE DEF known, new, R
      <4>3. [f \in DOMAIN known \cup {fn} |-> IF f = fn THEN new ELSE known[f]]
              \in [DOMAIN known \cup {fn} -> R]
        BY <4>1, <4>2 DEF known, new, R
      <4>. QED  BY <4>3 DEF known, new, R
    <3>4. loader'.funcs = funcs /\ loader'.envs = loader.envs
          /\ loader'.mustEnvs = loader.mustEnvs
      BY <3>1, Fields
    <3> HIDE DEF funcs
    <3>5. LoaderText'
      BY <1>0, <3>3, <3>4 DEF LoaderText
    <3>6. /\ cfg'.body = cfg.body /\ cfg'.definition = cfg.definition /\ cfg'.path = cfg.path
          /\ cfg'.envs = cfg.envs /\ cfg'.mustEnvs = cfg.mustEnvs
      BY <3>2, Fields
    <3>. QED  BY <1>0, <3>2, <3>5, <3>6, NoFrames DEF CfgText
  <2>. QED  BY <2>1, <2>2
<1>5. CASE BeginConfig
  <2>1. Begin(config.body, ConfigDir) /\ stage = "config"
    BY <1>5 DEF BeginConfig
  <2>2. config.body \in Written(1)
    BY <1>0, <2>1 DEF Written, FilesText, ConfigFile
  <2>. QED  BY <1>b, <1>d, <1>f, <2>1, <2>2, BeginKeepsText
<1>6. CASE EndConfig
  <2>1. CASE Fail("error")
    BY <1>d, <1>e, <2>1
  <2>2. CASE ~Fail("error")
    <3>1. cfg' = [cfg EXCEPT !.body = Decoded(Top.out)] /\ frames' = <<>> /\ UNCHANGED loader
          /\ Rendered /\ stage = "config"
      BY <1>6, <2>2 DEF EndConfig
    <3>2. Decoded(Top.out) \in Text
      BY <1>0, <3>1, RenderedText, EncodedTyped
    <3>3. /\ cfg'.body = Decoded(Top.out) /\ cfg'.definition = cfg.definition
          /\ cfg'.path = cfg.path /\ cfg'.envs = cfg.envs /\ cfg'.mustEnvs = cfg.mustEnvs
      BY <3>1, Fields
    <3>. QED  BY <1>0, <3>1, <3>2, <3>3, NoFrames DEF CfgText, LoaderText
  <2>. QED  BY <2>1, <2>2
<1>7. CASE Check
  <2>1. CASE Fail("error")
    BY <1>d, <1>e, <2>1
  <2>2. CASE ~Fail("error")
    <3>1. cfg' \in {[cfg EXCEPT !.definition = cfg.body], cfg} /\ UNCHANGED <<loader, frames>>
          /\ frames = <<>>
      BY <1>7, <2>2, NothingRendered DEF Check, Goto
    <3>2. /\ cfg'.body = cfg.body /\ cfg'.definition \in {cfg.body, cfg.definition}
          /\ cfg'.path = cfg.path /\ cfg'.envs = cfg.envs /\ cfg'.mustEnvs = cfg.mustEnvs
      BY <3>1, Fields
    <3>. QED  BY <1>0, <3>1, <3>2, NoFrames DEF CfgText, LoaderText
  <2>. QED  BY <2>1, <2>2
<1>8. CASE BeginDefinition
  <2>1. CASE Fail("error")
    BY <1>d, <1>e, <2>1
  <2>2. CASE ~Fail("error")
    <3> DEFINE path == DefinitionPath
    <3>1. stage = "definition" /\ path \in DOMAIN disk /\ Begin(disk[path], Dir(path))
      BY <1>8, <2>2 DEF BeginDefinition, ThereIs
    <3>2. disk[path] \in Written(1)
      BY <1>0, <3>1 DEF FilesText, Written
    <3>3. Dir(path) \in Text
      <4>1. cfg.path \in Text
        BY <1>0 DEF CfgText
      <4>2. path \in Text
        BY <1>b, <4>1, ResolveTyped DEF DefinitionPath
      <4> HIDE DEF path
      <4>. QED  BY <4>2, FrontOf DEF Dir, Text
    <3> HIDE DEF path
    <3>. QED  BY <1>d, <1>f, <3>1, <3>2, <3>3, BeginKeepsText
  <2>. QED  BY <2>1, <2>2
<1>9. CASE EndDefinition
  <2>1. CASE Fail("error")
    BY <1>d, <1>e, <2>1
  <2>2. CASE ~Fail("error")
    <3>1. cfg' = [cfg EXCEPT !.definition = Decoded(Top.out),
                       !.envs = loader.envs, !.mustEnvs = loader.mustEnvs]
          /\ frames' = <<>> /\ UNCHANGED loader /\ Rendered /\ stage = "definition"
      BY <1>9, <2>2 DEF EndDefinition
    <3>2. Decoded(Top.out) \in Text
      BY <1>0, <3>1, RenderedText, EncodedTyped
    <3>3. /\ cfg'.body = cfg.body /\ cfg'.definition = Decoded(Top.out)
          /\ cfg'.path = cfg.path /\ cfg'.envs = loader.envs /\ cfg'.mustEnvs = loader.mustEnvs
      BY <3>1, Fields
    <3>. QED  BY <1>0, <3>1, <3>2, <3>3, NoFrames DEF CfgText, LoaderText
  <2>. QED  BY <2>1, <2>2
<1>. QED  BY <1>1, <1>2, <1>3, <1>4, <1>5, <1>6, <1>7, <1>8, <1>9

-----------------------------------------------------------------------------
(* Writing *)

(* Two texts with a break between them. *)
LEMMA BrokenIs ==
  \A s : Broken(s) <=> \E a, b \in Text : s = a \o <<"break">> \o b
<1> DEFINE V == Word \cup {"break"}
           m == "break"
<1>0. m \in V /\ Text = Seq(Word) /\ Seq(Word) \subseteq Seq(V)
  BY SeqMonotonic DEF Text
<1>1. ASSUME NEW a \in Text, NEW b \in Text, NEW s, s = a \o <<m>> \o b
      PROVE  Broken(s)
  <2> DEFINE n == Len(s)
             x == Len(a)
             y == Len(b)
  <2>0. a \in Seq(V) /\ b \in Seq(V)
    BY <1>0
  <2> HIDE DEF V, m
  <2>1. /\ s \in Seq(V) /\ n \in Nat /\ x \in Nat /\ y \in Nat
        /\ n = x + 1 + y
        /\ \A i \in 1..x : s[i] = a[i]
        /\ s[x + 1] = m
        /\ \A i \in 1..y : s[x + 1 + i] = b[i]
    BY <1>0, <1>1, <2>0, AroundFacts
  <2>2. (\A i \in 1..x : a[i] \in Word) /\ (\A i \in 1..y : b[i] \in Word)
    BY <1>0, SeqIsFunction
  <2> HIDE DEF n, x, y
  <2>3. \A k \in 1..x : s[k] \in Word
    BY <2>1, <2>2
  <2>4. \A k \in (x + 2)..n : s[k] \in Word
    <3>1. TAKE k \in (x + 2)..n
    <3>2. k - (x + 1) \in 1..y /\ k = x + 1 + (k - (x + 1))
      BY <2>1
    <3>3. s[x + 1 + (k - (x + 1))] = b[k - (x + 1)]
      BY <2>1, <3>2
    <3>. QED  BY <2>2, <3>2, <3>3
  <2>5. x + 1 \in 1..n /\ x + 1 - 1 = x /\ x + 1 + 1 = x + 2 /\ x + 2 \in Nat /\ x + 2 >= 1
        /\ x <= n /\ 1 >= 1 /\ n <= n /\ x \in Int /\ n \in Int /\ 1 \in Nat
    BY <2>1
  <2>6. SubSeq(s, 1, x) \in Seq(Word) /\ SubSeq(s, x + 2, n) \in Seq(Word)
    BY <2>1, <2>3, <2>4, <2>5, PartTyped DEF n
  <2>. QED  BY <1>0, <2>1, <2>5, <2>6 DEF Broken, V, m, n
<1>2. ASSUME NEW s, Broken(s)
      PROVE  \E a, b \in Text : s = a \o <<m>> \o b
  <2> DEFINE n == Len(s)
  <2>1. s \in Seq(V)
    BY <1>2 DEF Broken
  <2>2. PICK i \in 1..n : /\ s[i] = m
                          /\ SubSeq(s, 1, i - 1) \in Text /\ SubSeq(s, i + 1, n) \in Text
    BY <1>2 DEF Broken
  <2> DEFINE a == SubSeq(s, 1, i - 1)
             b == SubSeq(s, i + 1, n)
             t == a \o <<m>> \o b
             x == Len(a)
             y == Len(b)
             l == Len(t)
  <2>3. n \in Nat /\ i \in 1..n /\ \A k \in 1..n : s[k] \in V
    BY <2>1, SeqIsFunction
  <2> HIDE DEF n, V, m
  <2>4. i - 1 \in Nat /\ i - 1 <= n /\ i + 1 \in Nat /\ i + 1 >= 1 /\ n <= n /\ n \in Nat
        /\ i \in Nat /\ n - i \in Nat /\ n - (i + 1) + 1 = n - i /\ i - 1 - 1 + 1 = i - 1
        /\ (i + 1 <= n <=> n - i # 0) /\ (1 <= i - 1 <=> i - 1 # 0)
        /\ (\A k \in 1..(i - 1) : k \in 1..n)
        /\ \A k \in (i + 1)..n : k \in 1..n
    BY <2>3
  <2>5. x = i - 1 /\ \A k \in 1..(i - 1) : a[k] = s[k]
    <3>1. \A k \in 1..(i - 1) : s[k] \in V
      BY <2>3, <2>4
    <3>2. /\ Len(a) = IF 1 <= i - 1 THEN i - 1 - 1 + 1 ELSE 0
          /\ \A k \in 1..(i - 1 - 1 + 1) : a[k] = s[1 + k - 1]
      BY <2>4, <3>1, SubSeqProperties
    <3> HIDE DEF a
    <3>3. x = i - 1
      BY <2>4, <3>2
    <3>4. \A k \in 1..(i - 1) : 1 + k - 1 = k
      BY <2>4
    <3>. QED  BY <2>4, <3>2, <3>3, <3>4
  <2>6. y = n - i /\ \A k \in 1..(n - i) : b[k] = s[i + k]
    <3>1. \A k \in (i + 1)..n : s[k] \in V
      BY <2>3, <2>4
    <3>2. /\ Len(b) = IF i + 1 <= n THEN n - (i + 1) + 1 ELSE 0
          /\ \A k \in 1..(n - (i + 1) + 1) : b[k] = s[i + 1 + k - 1]
      BY <2>4, <3>1, SubSeqProperties
    <3> HIDE DEF b
    <3>3. y = n - i
      BY <2>4, <3>2
    <3>4. \A k \in 1..(n - i) : i + 1 + k - 1 = i + k
      BY <2>4
    <3>. QED  BY <2>4, <3>2, <3>3, <3>4
  <2>7. a \in Seq(V) /\ b \in Seq(V) /\ a \in Text /\ b \in Text
    BY <1>0, <2>2
  <2> HIDE DEF a, b
  <2>8. /\ t \in Seq(V) /\ l \in Nat /\ x \in Nat /\ y \in Nat
        /\ l = x + 1 + y
        /\ \A k \in 1..x : t[k] = a[k]
        /\ t[x + 1] = m
        /\ \A k \in 1..y : t[x + 1 + k] = b[k]
    BY <1>0, <2>7, AroundFacts
  <2> HIDE DEF x, y, l, t
  <2>9. l = n
    BY <2>3, <2>4, <2>5, <2>6, <2>8
  <2>10. ASSUME NEW k \in 1..n PROVE t[k] = s[k]
    <3>1. CASE k < i
      <4>1. k \in 1..(i - 1)
        BY <2>4, <3>1
      <4>. QED  BY <2>5, <2>8, <4>1
    <3>2. CASE k = i
      <4>1. k = x + 1
        BY <2>4, <2>5, <3>2
      <4>. QED  BY <2>2, <2>8, <3>2, <4>1
    <3>3. CASE k > i
      <4>1. k - i \in 1..(n - i) /\ k = i + (k - i) /\ k = x + 1 + (k - i)
        BY <2>4, <2>5, <3>3
      <4>2. t[x + 1 + (k - i)] = b[k - i] /\ b[k - i] = s[i + (k - i)]
        BY <2>6, <2>8, <4>1
      <4>. QED  BY <4>1, <4>2
    <3>. QED  BY <2>4, <3>1, <3>2, <3>3
  <2>11. s = t
    BY <2>1, <2>8, <2>9, <2>10, SameSequence DEF n, l
  <2>. QED  BY <2>7, <2>11 DEF t
<1>. QED  BY <1>1, <1>2

(* The files there are at first are texts. *)
LEMMA InitIsText == Init => TextInv
<1> SUFFICES ASSUME Init PROVE TextInv
  OBVIOUS
<1>1. FilesText
  BY ProjectsAssumption DEF Init, FilesText
<1>2. FramesText
  BY DEF Init, FramesText, BetweenActions
<1>3. <<>> \in Text /\ <<>> \in Seq(Resource) /\ <<>> \in Seq(Replacement)
  BY DEF Text
<1>4. LoaderText
  BY <1>3 DEF Init, LoaderText, NewLoader
<1>5. CfgText
  BY <1>3 DEF Init, CfgText, NewConfig
<1>6. DataText
  BY <1>3 DEF Init, DataText
<1>. QED  BY <1>1, <1>2, <1>4, <1>5, <1>6 DEF TextInv

(* A command starts with nothing. *)
LEMMA StartKeepsText ==
  ASSUME TextInv, NEW c, Start(c)
  PROVE  TextInv'
<1>1. FilesText'
  BY TextParts DEF Start, FilesText, files
<1>2. FramesText'
  BY NoFrames DEF Start
<1>3. <<>> \in Text /\ <<>> \in Seq(Resource) /\ <<>> \in Seq(Replacement)
  BY DEF Text
<1>4. stage' \in {"describe", "flag", "decode"}
  BY DEF Start
<1>5. LoaderText' /\ CfgText' /\ DataText'
  BY <1>3, <1>4 DEF Start, LoaderText, CfgText, DataText, NewLoader, NewConfig
<1>. QED  BY <1>1, <1>2, <1>5, TextParts

(* A load keeps them texts. *)
LEMMA LoadStepKeepsText ==
  ASSUME IInv, TextInv, LoadStep
  PROVE  TextInv'
<1>0. Loading /\ UNCHANGED <<machine, cmd, data, calls>>
  BY DEF LoadStep
<1>1. CASE Load
  <2>1. FilesText' /\ DataText'
    BY <1>0, <1>1, LoadKeepsRest
  <2>2. FramesText' /\ LoaderText' /\ CfgText'
    BY <1>0, <1>1, RenderingKeepsText, StagesKeepText DEF Load
  <2>. QED  BY <2>1, <2>2, TextParts
<1>2. CASE AppendFlag(cmd.tfstate) /\ UNCHANGED files
  <2>1. CASE Fail("error")
    BY <1>0, <1>2, <2>1, FailKeepsText DEF Failed
  <2>2. CASE ~Fail("error")
    <3> DEFINE path == cmd.tfstate
               funcs == [f \in {"tfstate"} |-> States[path]]
    <3>1. path \in DOMAIN States /\ loader' = [loader EXCEPT !.funcs = funcs]
          /\ stage = "flag" /\ stage' = "decode" /\ UNCHANGED <<frames, cfg>>
      BY <1>2, <2>2 DEF AppendFlag, Goto
    <3>2. funcs \in [DOMAIN funcs -> Seq(Resource)]
      <4> HIDE DEF path
      <4>. QED  BY <3>1, ValuesAssumption
    <3> HIDE DEF funcs, path
    <3>3. loader'.funcs = funcs /\ loader'.envs = loader.envs
          /\ loader'.mustEnvs = loader.mustEnvs
      BY <3>1, Fields
    <3>4. LoaderText' /\ CfgText' /\ DataText' /\ FilesText'
      BY <1>0, <1>2, <3>1, <3>2, <3>3, TextParts
      DEF LoaderText, CfgText, DataText, FilesText, files
    <3>5. frames' = <<>>
      BY <3>1, NothingRendered
    <3>. QED  BY <3>4, <3>5, NoFrames, TextParts
  <2>. QED  BY <2>1, <2>2
<1>. QED  BY <1>1, <1>2 DEF LoadStep

(* The description from AWS is one. *)
LEMMA DescribeKeepsText ==
  ASSUME IInv, TextInv, DescribeForPull \/ DescribeForInit
  PROVE  TextInv'
<1>0. UNCHANGED <<files, machine, cmd, data, calls>>
  BY DEF DescribeForPull, DescribeForInit
<1>1. CASE Fail("error")
  BY <1>0, <1>1, FailKeepsText DEF Failed
<1>2. CASE ~Fail("error")
  <2>1. UNCHANGED <<frames, loader>> /\ frames = <<>> /\ stage' \in {"definition file", "config file"}
    BY <1>2, NothingRendered DEF DescribeForPull, DescribeForInit, Goto
  <2>2. machine.body \in Text /\ machine.definition \in Text
    BY MachinesAssumption DEF IInv, TypeOK
  <2>3. FramesText' /\ LoaderText' /\ FilesText' /\ DataText'
    BY <1>0, <2>1, NoFrames, TextParts DEF LoaderText, FilesText, DataText, files
  <2>4. CASE DescribeForPull
    <3>1. cfg' = [cfg EXCEPT !.body = machine.body, !.definition = machine.definition]
          /\ stage' = "definition file"
      BY <1>2, <2>4 DEF DescribeForPull, Goto
    <3>2. /\ cfg'.body = machine.body /\ cfg'.definition = machine.definition
          /\ cfg'.path = cfg.path /\ cfg'.envs = cfg.envs /\ cfg'.mustEnvs = cfg.mustEnvs
      BY <3>1, Fields
    <3>3. CfgText'
      BY <2>2, <3>1, <3>2, TextParts DEF CfgText
    <3>. QED  BY <2>3, <3>3, TextParts
  <2>5. CASE DescribeForInit
    <3> DEFINE states == IF cmd.tfstate = <<>> THEN <<>>
                         ELSE <<[location |-> cmd.tfstate, fn |-> "tfstate"]>>
               envs == Asked(cmd.envs)
               mustEnvs == AskedMust(cmd.mustEnvs)
    <3>1. cfg' = [body |-> machine.body, definition |-> machine.definition, states |-> states,
                  inline |-> FALSE, path |-> cmd.path, envs |-> envs, mustEnvs |-> mustEnvs]
      BY <1>2, <2>5 DEF DescribeForInit
    <3>2. cmd.tfstate \in Text /\ cmd.path \in Text /\ cmd.envs \in Seq(Text)
          /\ cmd.mustEnvs \in Seq(Text)
      BY CommandsAssumption DEF IInv, TypeOK
    <3>3. envs \in Seq(Resource) /\ mustEnvs \in Seq(Resource)
      BY <3>2, AskedTyped, AskedMustTyped
    <3>4. states \in Seq(TFStateConfig) /\ Len(states) <= 1
      <4>1. "tfstate" \in Word \ BuiltIns
        BY WordsAssumption DEF BuiltIns
      <4>2. [location |-> cmd.tfstate, fn |-> "tfstate"] \in TFStateConfig
        BY <3>2, <4>1 DEF TFStateConfig
      <4>. QED  BY <4>2
    <3> HIDE DEF states, envs, mustEnvs
    <3>5. CfgText'
      BY <2>2, <3>1, <3>2, <3>3, <3>4 DEF CfgText
    <3>. QED  BY <2>3, <3>5, TextParts
  <2>. QED  BY <2>4, <2>5
<1>. QED  BY <1>1, <1>2

LEMMA PutIsText ==
  ASSUME FilesText, NEW path, NEW text \in Text
  PROVE  Put(path, text) \in [DOMAIN Put(path, text) -> Text]
BY DEF Put, FilesText

(* A file that is created is an empty text. *)
LEMMA CreateKeepsText ==
  ASSUME IInv, TextInv, CreateConfigFile \/ CreateDefinitionFile
  PROVE  TextInv'
<1>1. /\ UNCHANGED <<frames, loader, cfg, machine, cmd, data, calls>> /\ frames = <<>>
      /\ stage \in {"config file", "definition file"}
      /\ stage = "config file" => stage' = "read for config"
      /\ stage = "definition file" => stage' = "read for definition"
  <2>1. CASE CreateConfigFile
    <3>1. stage = "config file" /\ stage' = "read for config" /\ UNCHANGED frames
          /\ UNCHANGED <<loader, cfg, machine, cmd, data, calls>>
      BY <2>1 DEF CreateConfigFile, Goto
    <3>. QED  BY <3>1, NothingRendered
  <2>2. CASE CreateDefinitionFile
    BY <2>2, NothingRendered DEF CreateDefinitionFile, Goto
  <2>. QED  BY <2>1, <2>2
<1>2. FramesText' /\ LoaderText' /\ CfgText' /\ DataText'
  BY <1>1, NoFrames, TextParts DEF LoaderText, CfgText, DataText
<1>3. <<>> \in Text
  BY DEF Text
<1>4. FilesText'
  <2>1. CASE CreateConfigFile
    <3>1. cfg.path \in Text
      BY TextParts DEF CfgText
    <3>2. [empty |-> TRUE, valid |-> TRUE, states |-> <<>>, inline |-> FALSE,
           path |-> cfg.path, body |-> <<>>] \in ConfigFile
      BY <1>3, <3>1 DEF ConfigFile
    <3>. QED  BY <2>1, <3>2, TextParts DEF CreateConfigFile, FilesText
  <2>2. CASE CreateDefinitionFile
    <3>1. disk' = Put(DefinitionPath, <<>>) /\ UNCHANGED config
      BY <2>2 DEF CreateDefinitionFile
    <3>. QED  BY <1>3, <3>1, PutIsText, TextParts DEF FilesText
  <2>. QED  BY <2>1, <2>2
<1>. QED  BY <1>2, <1>4, TextParts

(* The replacements to make are texts for texts. *)
LEMMA CallsMadeTyped ==
  ASSUME IInv, TextInv, Readable
  PROVE  CallsMade \in Seq(Replacement)
<1> DEFINE state == IF cfg.states = <<>> THEN <<>> ELSE States[StatePath]
<1>1. CASE ~Templateizes
  BY <1>1 DEF CallsMade
<1>2. CASE Templateizes
  <2>1. state \in Seq(Resource)
    <3>1. CASE cfg.states = <<>>
      BY <3>1
    <3>2. CASE cfg.states # <<>>
      BY <1>2, <3>2, ValuesAssumption DEF Readable
    <3>. QED  BY <3>1, <3>2
  <2>2. Len(cfg.states) \in Nat
    BY SeqFacts DEF IInv, TypeOK
  <2>3. cfg.mustEnvs \in Seq(Resource) /\ cfg.envs \in Seq(Resource)
    BY TextParts DEF CfgText
  <2>4. CallsMade = Calls(state, Len(cfg.states), cfg.mustEnvs, cfg.envs)
    BY <1>2 DEF CallsMade
  <2> HIDE DEF state
  <2>. QED  BY <2>1, <2>2, <2>3, <2>4, CallsTyped
<1>. QED  BY <1>1, <1>2

(* A sequence of at most one element. *)
LEMMA NoneThere ==
  ASSUME NEW V, NEW s \in Seq(V), s = <<>>, NEW W, NEW f \in [V -> W]
  PROVE  [i \in DOMAIN s |-> f[s[i]]] = <<>>
<1> DEFINE t == [i \in DOMAIN s |-> f[s[i]]]
<1>1. t \in [1..0 -> W]
  OBVIOUS
<1> HIDE DEF t
<1>2. t \in Seq(W) /\ Len(t) = 0
  BY <1>1, IsSequence
<1>3. t = <<>>
  BY <1>2, EmptySeq
<1>. QED  BY <1>3 DEF t

LEMMA OneThere ==
  ASSUME NEW V, NEW s \in Seq(V), s # <<>>, Len(s) <= 1, NEW W, NEW f \in [V -> W],
         NEW e, e = f[s[1]]
  PROVE  [i \in DOMAIN s |-> f[s[i]]] = <<e>>
<1> DEFINE n == Len(s)
           t == [i \in DOMAIN s |-> f[s[i]]]
           u == <<e>>
<1>1. n \in Nat /\ DOMAIN s = 1..n /\ (\A i \in 1..n : s[i] \in V) /\ n >= 1 /\ n <= 1
  BY SeqIsFunction, FirstTyped
<1>2. t \in [1..n -> W]
  BY <1>1
<1> HIDE DEF n
<1>3. n = 1
  BY <1>1
<1>4. s[1] \in V /\ t[1] = e
  BY <1>1, <1>3
<1> HIDE DEF t
<1>5. t \in Seq(W) /\ Len(t) = 1
  BY <1>1, <1>2, <1>3, IsSequence
<1>6. e \in W
  BY <1>4
<1>7. u \in Seq(W) /\ Len(u) = 1 /\ u[1] = e
  BY <1>6
<1> HIDE DEF u
<1>8. t = u
  BY <1>4, <1>5, <1>7, SameSequence
<1>. QED  BY <1>8 DEF t, u

(* One text or two. *)
LEMMA JoinTwo ==
  ASSUME NEW V, NEW mark \in V, NEW a \in Seq(V), NEW b \in Seq(V)
  PROVE  /\ Join(<<a>> \o <<>>, mark) = a
         /\ Join(<<a>> \o <<b>>, mark) = a \o <<mark>> \o b
<1> DEFINE one == <<a>>
           W == Seq(V)
<1>1. one \in Seq(W) /\ one # <<>>
  OBVIOUS
<1>2. Join(one, mark) = a
  BY JoinOne
<1> HIDE DEF one
<1>3. one \o <<>> = one
  BY <1>1, ConcatEmptySeq
<1>4. Append(one, b) = one \o <<b>>
  BY <1>1, AppendIsConcat
<1>5. Join(Append(one, b), mark) = Join(one, mark) \o <<mark>> \o b
  BY <1>1, JoinAppend
<1>. QED  BY <1>2, <1>3, <1>4, <1>5 DEF one

(* The configuration is written with the location of its state, if it has  *)
(* one.                                                                    *)
LEMMA ConfigJoined ==
  ASSUME NEW body \in Text, NEW states \in Seq(TFStateConfig), Len(states) <= 1
  PROVE  LET text == Join(<<body>> \o [i \in DOMAIN states |-> states[i].location], "break")
         IN IF states = <<>> THEN text \in Text ELSE Broken(text)
<1> DEFINE V == Word \cup {"break"}
           m == "break"
           f == [s \in TFStateConfig |-> s.location]
           locations == [i \in DOMAIN states |-> states[i].location]
           text == Join(<<body>> \o locations, m)
<1>0. m \in V /\ Seq(Word) \subseteq Seq(V) /\ Text = Seq(Word)
  BY SeqMonotonic DEF Text
<1>1. f \in [TFStateConfig -> Text]
  BY DEF TFStateConfig
<1>2. locations = [i \in DOMAIN states |-> f[states[i]]]
  <2>1. \A i \in DOMAIN states : states[i] \in TFStateConfig
    BY SeqIsFunction
  <2>. QED  BY <2>1
<1> HIDE DEF m, V, locations
<1>3. CASE states = <<>>
  <2>1. locations = <<>>
    <3> HIDE DEF f
    <3>. QED  BY <1>1, <1>2, <1>3, NoneThere
  <2>2. body \in Seq(V)
    BY <1>0
  <2>3. text = body
    BY <1>0, <2>1, <2>2, JoinTwo
  <2>. QED  BY <1>3, <2>3 DEF m, locations
<1>4. CASE states # <<>>
  <2> DEFINE b == f[states[1]]
  <2>1. locations = <<b>> /\ states[1] \in TFStateConfig
    <3> HIDE DEF f
    <3>1. states[1] \in TFStateConfig /\ [i \in DOMAIN states |-> f[states[i]]] = <<f[states[1]]>>
      <4>1. [i \in DOMAIN states |-> f[states[i]]] = <<b>>
        <5>1. b = f[states[1]]
          BY DEF b
        <5>. QED  BY <1>1, <1>4, <5>1, OneThere
      <4>2. states[1] \in TFStateConfig
        BY <1>4, FirstTyped
      <4>. QED  BY <4>1, <4>2
    <3>. QED  BY <1>2, <3>1
  <2>2. b \in Text
    BY <1>1, <2>1
  <2> HIDE DEF b
  <2>3. body \in Seq(V) /\ b \in Seq(V)
    BY <1>0, <2>2
  <2>4. text = body \o <<m>> \o b
    BY <1>0, <2>1, <2>3, JoinTwo
  <2>5. Broken(text)
    BY <2>2, <2>4, BrokenIs DEF m
  <2>. QED  BY <1>4, <2>5 DEF m, locations
<1>. QED  BY <1>3, <1>4

(* What a file is written from is a text, or two with a break between      *)
(* them.                                                                   *)
LEMMA ReadResourcesKeepsText ==
  ASSUME IInv, TextInv, ReadResources
  PROVE  TextInv'
<1>0. UNCHANGED <<files, machine, cmd>> /\ stage \in {"read for config", "read for definition"}
  BY DEF ReadResources
<1>1. CASE ~Readable
  BY <1>0, <1>1, FailKeepsText DEF ReadResources, Failed
<1>2. CASE Readable
  <2>1. calls' = CallsMade /\ UNCHANGED <<loader, cfg, frames>> /\ frames = <<>>
    BY <1>2, NothingRendered DEF ReadResources, Goto
  <2>2. FramesText' /\ LoaderText' /\ FilesText'
    BY <1>0, <2>1, NoFrames, TextParts DEF LoaderText, FilesText, files
  <2>3. calls' \in Seq(Replacement)
    BY <1>2, <2>1, CallsMadeTyped
  <2>4. CASE stage = "read for config"
    <3> DEFINE locations == [i \in DOMAIN cfg.states |-> cfg.states[i].location]
    <3>1. stage' = "write config" /\ data' = Join(<<cfg.body>> \o locations, "break")
      BY <1>2, <2>4 DEF ReadResources, Goto
    <3>2. IF cfg.states = <<>> THEN data' \in Text ELSE Broken(data')
      <4>1. cfg.body \in Text /\ cfg.states \in Seq(TFStateConfig) /\ Len(cfg.states) <= 1
        BY <2>4, TextParts DEF CfgText
      <4>2. LET text == Join(<<cfg.body>> \o locations, "break")
            IN IF cfg.states = <<>> THEN text \in Text ELSE Broken(text)
        BY <4>1, ConfigJoined
      <4>. QED  BY <3>1, <4>2
    <3>3. CfgText' /\ DataText'
      BY <2>1, <2>3, <2>4, <3>1, <3>2, TextParts DEF CfgText, DataText, Broken
    <3>. QED  BY <2>2, <3>3, TextParts
  <2>5. CASE stage = "read for definition"
    <3>1. stage' = "write definition" /\ data' = cfg.definition
      BY <1>2, <2>5 DEF ReadResources, Goto
    <3>2. CfgText' /\ DataText'
      BY <2>1, <2>3, <3>1, TextParts DEF CfgText, DataText
    <3>. QED  BY <2>2, <3>2, TextParts
  <2>. QED  BY <1>0, <2>4, <2>5
<1>. QED  BY <1>1, <1>2

-----------------------------------------------------------------------------
(* What is written is read *)

(* No value has a break in it, and so none is replaced across one. *)
LEMMA ReplacedBroken ==
  ASSUME NEW s, Broken(s), NEW from \in Text, NEW to \in Text
  PROVE  Broken(Replaced(s, from, to))
<1> DEFINE V == Word \cup {"break"}
           m == "break"
<1>1. PICK a \in Text, b \in Text : s = a \o <<m>> \o b
  BY BrokenIs
<1>2. m \in V /\ Text = Seq(Word) /\ Seq(Word) \subseteq Seq(V)
  BY SeqMonotonic DEF Text
<1>3. m \notin ToSet(from)
  BY WordsAssumption, SeqIsFunction DEF Text, ToSet
<1>4. a \in Seq(V) /\ b \in Seq(V) /\ from \in Seq(V) /\ to \in Seq(V)
  BY <1>2
<1>5. Replaced(a, from, to) \in Text /\ Replaced(b, from, to) \in Text
  BY <1>2, ReplacedTyped
<1> HIDE DEF m, V
<1>6. Replaced(s, from, to) = Replaced(a, from, to) \o <<m>> \o Replaced(b, from, to)
  <2>1. m \in V
    BY <1>2
  <2>2. Replaced(Around(a, m, b), from, to)
          = Around(Replaced(a, from, to), m, Replaced(b, from, to))
    BY <1>3, <1>4, <2>1, ReplacedAround
  <2>. QED  BY <1>1, <2>2 DEF Around
<1>. QED  BY <1>5, <1>6, BrokenIs DEF m

(* Replacing values leaves texts. *)
LEMMA ReplaceKeepsText ==
  ASSUME IInv, TextInv, Replace
  PROVE  TextInv'
<1>0. UNCHANGED <<files, loading, machine, cmd>> /\ stage \in {"write config", "write definition"}
      /\ stage' = stage /\ cfg' = cfg
  BY DEF Replace, loading
<1>1. calls \in Seq(Replacement) /\ calls # <<>>
      /\ data' = Replaced(data, Head(calls).value, Head(calls).call)
      /\ calls' = Tail(calls)
  BY TextParts DEF Replace, DataText
<1>2. calls' \in Seq(Replacement) /\ Head(calls) \in Replacement
  BY <1>1
<1>3. Head(calls).value \in Text /\ Head(calls).call \in Text
  BY <1>2 DEF Replacement
<1>4. FilesText' /\ LoaderText' /\ CfgText'
  BY <1>0, TextParts DEF files, loading, FilesText, LoaderText, CfgText
<1>5. frames' = <<>>
  BY <1>0, NothingRendered DEF loading
<1> DEFINE d == data
           e == data'
           from == Head(calls).value
           to == Head(calls).call
<1>6. DataText'
  <2>1. ASSUME d \in Text PROVE e \in Text
    BY <1>1, <1>3, <2>1, ReplacedTyped DEF Text
  <2>2. ASSUME Broken(d) PROVE Broken(e)
    <3> HIDE DEF from, to
    <3>1. from \in Text /\ to \in Text /\ e = Replaced(d, from, to)
      BY <1>1, <1>3 DEF from, to
    <3>. QED  BY <2>2, <3>1, ReplacedBroken
  <2>3. /\ stage = "write definition" => d \in Text
        /\ stage = "write config" => IF cfg.states = <<>> THEN d \in Text ELSE Broken(d)
    BY TextParts DEF DataText
  <2>4. /\ stage = "write definition" => e \in Text
        /\ stage = "write config" => IF cfg.states = <<>> THEN e \in Text ELSE Broken(e)
    BY <2>1, <2>2, <2>3
  <2>. QED  BY <1>0, <1>2, <2>4 DEF DataText, Broken
<1>. QED  BY <1>4, <1>5, <1>6, NoFrames, TextParts

(* What was joined is written apart. *)
LEMMA SplitOne ==
  ASSUME NEW a \in Text
  PROVE  Split(a, "break")[1] \in Text
<1> DEFINE V == Word \cup {"break"}
           m == "break"
           P == Split(a, m)
<1>1. a \in Seq(Word)
  BY DEF Text
<1>2. P \in Seq(Seq(Word \ {m})) /\ P # <<>>
  BY <1>1, SplitTyped
<1> HIDE DEF P
<1>3. P[1] \in Seq(Word \ {m})
  BY <1>2, FirstTyped
<1>4. Seq(Word \ {m}) \subseteq Seq(Word)
  BY SeqMonotonic
<1>. QED  BY <1>3, <1>4 DEF P, Text

LEMMA SplitTwo ==
  ASSUME NEW s, Broken(s)
  PROVE  Split(s, "break")[1] \in Text /\ Split(s, "break")[2] \in Text
<1> DEFINE V == Word \cup {"break"}
           m == "break"
           W == Seq(V \ {m})
<1>1. PICK a \in Text, b \in Text : s = a \o <<m>> \o b
  BY BrokenIs
<1>2. m \in V /\ Text = Seq(Word) /\ Seq(Word) \subseteq Seq(V) /\ V \ {m} = Word
  BY SeqMonotonic, WordsAssumption DEF Text
<1>3. a \in Seq(V) /\ b \in Seq(V) /\ a \in W /\ b \in W
  BY <1>2
<1> DEFINE P == <<a, b>>
           Q == <<a>> \o <<b>>
<1>4. P \in Seq(W) /\ P # <<>> /\ P[1] = a /\ P[2] = b /\ P = Q
  <2> HIDE DEF W
  <2>1. P \in Seq(W) /\ P # <<>> /\ P[1] = a /\ P[2] = b
    BY <1>3
  <2>2. Q \in Seq(W) /\ Len(P) = 2 /\ Len(Q) = 2 /\ Q[1] = a /\ Q[2] = b
    <3> DEFINE A == <<a>>
               B == <<b>>
    <3>1. A \in Seq(W) /\ Len(A) = 1 /\ A[1] = a /\ B \in Seq(W) /\ Len(B) = 1 /\ B[1] = b
          /\ Len(P) = 2
      BY <1>3
    <3>2. Q = A \o B
      OBVIOUS
    <3> HIDE DEF A, B, Q, P
    <3>3. Q[1] = A[1] /\ Q[1 + 1] = B[1] /\ Q \in Seq(W) /\ Len(Q) = 1 + 1
      BY <3>1, <3>2, ConcatFacts
    <3>. QED  BY <3>1, <3>3
  <2> HIDE DEF P, Q
  <2>3. P = Q
    <3>1. \A i \in 1..2 : P[i] = Q[i]
      BY <2>1, <2>2
    <3>. QED  BY <2>1, <2>2, <3>1, SameSequence
  <2>. QED  BY <2>1, <2>3
<1> HIDE DEF m, V
<1>5. Join(Q, m) = a \o <<m>> \o b
  BY <1>2, <1>3, JoinTwo
<1> HIDE DEF P, Q
<1>6. Split(Join(P, m), m) = P
  BY <1>2, <1>4, SplitJoin
<1>7. Split(s, m) = P
  BY <1>1, <1>4, <1>5, <1>6
<1>. QED  BY <1>4, <1>7 DEF m

(* The configuration that is written consists of texts. *)
LEMMA WriteConfigKeepsText ==
  ASSUME IInv, TextInv, WriteConfig
  PROVE  TextInv'
<1>0. /\ stage = "write config" /\ stage' = "definition file"
      /\ UNCHANGED <<disk, loader, cfg, machine, cmd, data, calls, frames>>
  BY DEF WriteConfig, Goto
<1>1. frames' = <<>>
  BY <1>0, NothingRendered
<1>2. LoaderText' /\ CfgText' /\ DataText'
  BY <1>0, TextParts DEF LoaderText, CfgText, DataText
<1> DEFINE P == Split(data, "break")
           body == Encoded(P[1])
           states == [i \in DOMAIN cfg.states |-> [cfg.states[i] EXCEPT !.location = P[i + 1]]]
           n == Len(cfg.states)
<1>3. /\ config \in ConfigFile /\ disk \in [DOMAIN disk -> Text]
      /\ cfg.states \in Seq(TFStateConfig) /\ n <= 1
      /\ IF cfg.states = <<>> THEN data \in Text ELSE Broken(data)
  BY <1>0, TextParts DEF FilesText, CfgText, DataText
<1>4. P[1] \in Text
  BY <1>3, SplitOne, SplitTwo
<1>5. body \in Text
  BY <1>4, EncodedTyped
<1>6. n \in Nat /\ DOMAIN cfg.states = 1..n /\ (\A i \in 1..n : cfg.states[i] \in TFStateConfig)
      /\ (cfg.states = <<>> => n = 0)
  <2>1. cfg.states = <<>> => n = 0
    OBVIOUS
  <2>. QED  BY <1>3, <2>1, SeqIsFunction
<1>7. \A i \in 1..n : P[i + 1] \in Text
  <2>1. TAKE i \in 1..n
  <2>2. i = 1 /\ i + 1 = 2 /\ cfg.states # <<>>
    BY <1>3, <1>6
  <2>. QED  BY <1>3, <2>2, SplitTwo
<1> HIDE DEF P, n
<1>8. states \in Seq(TFStateConfig)
  <2>1. ASSUME NEW i \in 1..n PROVE [cfg.states[i] EXCEPT !.location = P[i + 1]] \in TFStateConfig
    BY <1>6, <1>7 DEF TFStateConfig
  <2>2. states \in [1..n -> TFStateConfig]
    BY <1>6, <2>1
  <2> HIDE DEF states
  <2>. QED  BY <1>6, <2>2, IsSequence
<1>9. config' = [config EXCEPT !.empty = FALSE, !.body = body, !.states = states]
  BY DEF WriteConfig, P
<1> HIDE DEF body, states
<1>10. config' \in ConfigFile
  BY <1>3, <1>5, <1>8, <1>9 DEF ConfigFile
<1>11. FilesText'
  BY <1>0, <1>3, <1>10 DEF FilesText
<1>. QED  BY <1>1, <1>2, <1>11, NoFrames, TextParts

(* And so does the definition. *)
LEMMA WriteDefinitionKeepsText ==
  ASSUME IInv, TextInv, WriteDefinition
  PROVE  TextInv'
<1>0. /\ stage = "write definition" /\ stage' = "ok"
      /\ UNCHANGED <<config, loader, cfg, machine, cmd, data, calls, frames>>
      /\ disk' = Put(DefinitionPath, Marshalled(DefinitionPath, data))
  BY DEF WriteDefinition, Goto
<1>1. frames' = <<>>
  BY <1>0, NothingRendered
<1>2. LoaderText' /\ CfgText' /\ DataText'
  BY <1>0, TextParts DEF LoaderText, CfgText, DataText
<1>3. data \in Text
  BY <1>0, TextParts DEF DataText
<1>4. Marshalled(DefinitionPath, data) \in Text
  BY <1>3, MarshalledTyped
<1>5. FilesText
  BY TextParts
<1>6. disk' \in [DOMAIN disk' -> Text]
  BY <1>0, <1>4, <1>5, PutIsText
<1>7. FilesText'
  BY <1>0, <1>5, <1>6 DEF FilesText
<1>. QED  BY <1>1, <1>2, <1>7, NoFrames, TextParts

(* Every step keeps texts texts. *)
LEMMA NextKeepsText ==
  ASSUME IInv, TextInv, [Next]_vars
  PROVE  TextInv'
<1>1. ASSUME NEW c \in Commands, Start(c) PROVE TextInv'
  BY <1>1, StartKeepsText
<1>2. CASE LoadStep
  BY <1>2, LoadStepKeepsText
<1>3. CASE DescribeForPull \/ DescribeForInit
  BY <1>3, DescribeKeepsText
<1>4. CASE CreateConfigFile \/ CreateDefinitionFile
  BY <1>4, CreateKeepsText
<1>5. CASE ReadResources
  BY <1>5, ReadResourcesKeepsText
<1>6. CASE Replace
  BY <1>6, ReplaceKeepsText
<1>7. CASE WriteConfig
  BY <1>7, WriteConfigKeepsText
<1>8. CASE WriteDefinition
  BY <1>8, WriteDefinitionKeepsText
<1>9. CASE CallFails
  BY <1>9, FailKeepsText DEF CallFails, Failed
<1>10. CASE Crash
  BY <1>10, FailKeepsText DEF Crash, Failed
<1>11. CASE UNCHANGED vars
  BY <1>11 DEF vars, files, loading, TextInv, FilesText, FramesText, BetweenActions, Written,
       LoaderText, CfgText, DataText, Broken, Functions
<1>. QED  BY <1>1, <1>2, <1>3, <1>4, <1>5, <1>6, <1>7, <1>8, <1>9, <1>10, <1>11 DEF Next, Step

(* Every text stays one of words, wherever it is read, rendered, replaced  *)
(* or written, and where two are put together they are taken apart as they *)
(* were (config.go:199-310, render.go:165-270).                            *)
THEOREM TypedTexts == Spec => []TextInv
<1>1. Spec => []IInv
  BY Invariance
<1>. QED  BY <1>1, InitIsText, NextKeepsText, PTL DEF Spec

-----------------------------------------------------------------------------
(* What a text means *)

(* What a text may mean. *)
Meanings == [ok : BOOLEAN, out : Text]

(* What is given if a condition holds is typed. *)
LEMMA GivenTyped ==
  ASSUME NEW cond \in BOOLEAN, NEW out, cond => out \in Text,
         NEW r, r = IF cond THEN Something(out) ELSE Nothing
  PROVE  r \in Meanings
<1>1. <<>> \in Text
  BY DEF Text
<1>2. Nothing \in Meanings
  BY <1>1 DEF Nothing, Meanings
<1>3. ASSUME cond PROVE Something(out) \in Meanings
  BY <1>3 DEF Something, Meanings
<1>. QED  BY <1>2, <1>3

(* What a call gives is a text. *)
LEMMA CallMeansTyped ==
  ASSUME NEW tree, tree \in [DOMAIN tree -> Text], NEW text \in Seq(Word \cup {"break"}), NEW dir,
         NEW funcs, funcs \in [DOMAIN funcs -> Seq(Resource)],
         NEW below, below \in [DOMAIN below -> Meanings],
         Parses(text, BuiltIns \cup DOMAIN funcs),
         NEW i \in 1..Len(text), text[i] = "open"
  PROVE  CallMeans(text, i, dir, tree, funcs, below) \in Meanings
<1> DEFINE fn == text[i + 1]
           args == Arguments(text, i)
           target == Resolve(dir, args[1])
           found == Lookups(funcs[fn], args[1])
<1> SUFFICES ASSUME NEW result, result = CallMeans(text, i, dir, tree, funcs, below)
             PROVE  result \in Meanings
  OBVIOUS
<1>1. fn \in BuiltIns \cup DOMAIN funcs
  BY ParsedCall
<1>2. args \in Seq(Text) /\ args # <<>>
  BY ArgumentsTyped
<1>3. args[1] \in Text
  <2> HIDE DEF args
  <2>. QED  BY <1>2, FirstTyped
<1>4. /\ EnvValue(args) \in Text
      /\ Getenv(args[1]) \in Text
      /\ IsSet(args[1]) \in BOOLEAN
  <2> HIDE DEF args
  <2>. QED  BY <1>2, EnvValueTyped, GetenvTyped DEF IsSet
<1>5. CASE fn = "env"
  <2>1. result = Something(EnvValue(args))
    BY <1>5, Zenon DEF CallMeans
  <2> HIDE DEF args
  <2>2. EnvValue(args) \in Text
    BY <1>4
  <2> HIDE DEF args
  <2>. QED  BY <2>1, <2>2 DEF Something, Meanings
<1>6. CASE fn = "must_env"
  <2>1. result = IF IsSet(args[1]) THEN Something(Getenv(args[1])) ELSE Nothing
    BY <1>6 DEF CallMeans
  <2> HIDE DEF args
  <2>. QED  BY <1>4, <2>1, GivenTyped
<1>7. CASE fn = "file"
  <2>1. result = IF target \in DOMAIN tree THEN Something(tree[target]) ELSE Nothing
    BY <1>7 DEF CallMeans
  <2> HIDE DEF args, target
  <2>. QED  BY <1>4, <2>1, GivenTyped
<1>8. CASE fn = "template_file"
  <2>1. result = IF target \in DOMAIN below THEN below[target] ELSE Nothing
    BY <1>8 DEF CallMeans
  <2>2. Nothing \in Meanings
    BY DEF Nothing, Meanings, Text
  <2> HIDE DEF args, target
  <2>. QED  BY <2>1, <2>2
<1>9. CASE fn \notin BuiltIns
  <2>1. result = IF found = <<>> THEN Nothing ELSE Something(found[1].value)
    BY <1>9 DEF CallMeans, BuiltIns
  <2>2. found \in Seq(Resource)
    <3>1. funcs[fn] \in Seq(Resource)
      BY <1>1, <1>9
    <3> HIDE DEF fn
    <3>. QED  BY <3>1, OnlyOf DEF Lookups
  <2>3. found # <<>> => found[1].value \in Text
    <3> HIDE DEF found
    <3>1. found # <<>> => found[1] \in Resource
      BY <2>2, FirstTyped
    <3>. QED  BY <3>1 DEF Resource
  <2> HIDE DEF found
  <2>. QED  BY <2>1, <2>3, GivenTyped
<1>. QED  BY <1>1, <1>5, <1>6, <1>7, <1>8, <1>9 DEF BuiltIns

(* And so is what a token means. *)
LEMMA TokenTyped ==
  ASSUME NEW tree, tree \in [DOMAIN tree -> Text],
         NEW V, Word \subseteq V, V \subseteq Word \cup {"break"},
         NEW text \in Seq(V), NEW dir,
         NEW funcs, funcs \in [DOMAIN funcs -> Seq(Resource)],
         NEW below, below \in [DOMAIN below -> Meanings],
         Parses(text, BuiltIns \cup DOMAIN funcs),
         NEW i \in 1..Len(text)
  PROVE  TokenMeans(text, i, dir, tree, funcs, below) \in [ok : BOOLEAN, out : Seq(V)]
<1> SUFFICES ASSUME NEW r, r = TokenMeans(text, i, dir, tree, funcs, below)
             PROVE  r \in [ok : BOOLEAN, out : Seq(V)]
  OBVIOUS
<1>0. Text \subseteq Seq(V) /\ text \in Seq(Word \cup {"break"}) /\ text[i] \in V
  BY SeqMonotonic, SeqIsFunction DEF Text
<1>1. CASE text[i] = "open"
  <2>1. r = CallMeans(text, i, dir, tree, funcs, below)
    BY <1>1 DEF TokenMeans
  <2>2. r \in Meanings
    <3>1. text \in Seq(Word \cup {"break"})
      BY <1>0
    <3>2. CallMeans(text, i, dir, tree, funcs, below) \in Meanings
      BY <1>1, <3>1, CallMeansTyped
    <3>. QED  BY <2>1, <3>2
  <2>. QED  BY <1>0, <2>2 DEF Meanings
<1>2. CASE text[i] # "open" /\ Within(text, i)
  <2>1. r = Something(<<>>)
    BY <1>2 DEF TokenMeans
  <2>. QED  BY <2>1 DEF Something
<1>3. CASE text[i] # "open" /\ ~Within(text, i)
  <2>1. r = Something(<<text[i]>>)
    BY <1>3 DEF TokenMeans
  <2>2. <<text[i]>> \in Seq(V)
    BY <1>0
  <2>. QED  BY <2>1, <2>2 DEF Something
<1>. QED  BY <1>1, <1>2, <1>3

(* The tokens' outputs, and what they make. *)
Outs(text, n, dir, tree, funcs, below) ==
  [i \in 1..n |-> TokenMeans(text, i, dir, tree, funcs, below).out]
(* They all mean something. *)
AllOk(text, n, dir, tree, funcs, below) ==
  \A i \in 1..n : TokenMeans(text, i, dir, tree, funcs, below).ok

(* What a text means, in these words. *)
LEMMA MeansIs ==
  ASSUME NEW tree, NEW V, NEW text \in Seq(V), NEW dir, NEW funcs, NEW below
  PROVE  Means(text, dir, tree, funcs, below) =
           IF Parses(text, BuiltIns \cup DOMAIN funcs) /\ AllOk(text, Len(text), dir, tree, funcs, below)
           THEN Something(FlattenSeq(Outs(text, Len(text), dir, tree, funcs, below))) ELSE Nothing
<1> DEFINE token == [i \in DOMAIN text |-> TokenMeans(text, i, dir, tree, funcs, below)]
           n == Len(text)
<1>1. DOMAIN text = 1..n
  BY SeqIsFunction
<1>2. \A i \in 1..n : token[i] = TokenMeans(text, i, dir, tree, funcs, below)
  BY <1>1
<1>3. Means(text, dir, tree, funcs, below) =
        IF Parses(text, BuiltIns \cup DOMAIN funcs) /\ \A i \in DOMAIN text : token[i].ok
        THEN Something(FlattenSeq([i \in DOMAIN text |-> token[i].out])) ELSE Nothing
  BY Zenon DEF Means
<1> HIDE DEF token
<1>4. [i \in DOMAIN text |-> token[i].out] = Outs(text, n, dir, tree, funcs, below)
  BY <1>1, <1>2 DEF Outs
<1>5. (\A i \in DOMAIN text : token[i].ok) <=> AllOk(text, n, dir, tree, funcs, below)
  BY <1>1, <1>2 DEF AllOk
<1>. QED  BY <1>3, <1>4, <1>5

(* They are texts. *)
LEMMA OutsTyped ==
  ASSUME NEW tree, tree \in [DOMAIN tree -> Text],
         NEW V, Word \subseteq V, V \subseteq Word \cup {"break"},
         NEW text \in Seq(V), NEW dir,
         NEW funcs, funcs \in [DOMAIN funcs -> Seq(Resource)],
         NEW below, below \in [DOMAIN below -> Meanings],
         Parses(text, BuiltIns \cup DOMAIN funcs),
         NEW n \in 0..Len(text)
  PROVE  /\ Outs(text, n, dir, tree, funcs, below) \in [1..n -> Seq(V)]
         /\ Outs(text, n, dir, tree, funcs, below) \in Seq(Seq(V))
         /\ Len(Outs(text, n, dir, tree, funcs, below)) = n
         /\ FlattenSeq(Outs(text, n, dir, tree, funcs, below)) \in Seq(V)
<1> DEFINE o == Outs(text, n, dir, tree, funcs, below)
<1>1. n \in Nat /\ Len(text) \in Nat /\ \A i \in 1..n : i \in 1..Len(text)
  BY SeqIsFunction
<1>2. \A i \in 1..n : TokenMeans(text, i, dir, tree, funcs, below).out \in Seq(V)
  <2>1. TAKE i \in 1..n
  <2>2. TokenMeans(text, i, dir, tree, funcs, below) \in [ok : BOOLEAN, out : Seq(V)]
    BY <1>1, TokenTyped
  <2>. QED  BY <2>2
<1>3. o \in [1..n -> Seq(V)]
  BY <1>2 DEF Outs
<1> HIDE DEF o
<1>4. o \in Seq(Seq(V)) /\ Len(o) = n
  BY <1>1, <1>3, IsSequence
<1>5. FlattenSeq(o) \in Seq(V)
  BY <1>4, FlattenTyped
<1>. QED  BY <1>3, <1>4, <1>5 DEF o

(* What a text means is a text of the words it may consist of. *)
LEMMA MeansTyped ==
  ASSUME NEW tree, tree \in [DOMAIN tree -> Text],
         NEW V, Word \subseteq V, V \subseteq Word \cup {"break"},
         NEW text \in Seq(V), NEW dir,
         NEW funcs, funcs \in [DOMAIN funcs -> Seq(Resource)],
         NEW below, below \in [DOMAIN below -> Meanings]
  PROVE  Means(text, dir, tree, funcs, below) \in [ok : BOOLEAN, out : Seq(V)]
<1> DEFINE n == Len(text)
           o == FlattenSeq(Outs(text, n, dir, tree, funcs, below))
           r == Means(text, dir, tree, funcs, below)
<1>1. r = IF Parses(text, BuiltIns \cup DOMAIN funcs) /\ AllOk(text, n, dir, tree, funcs, below)
          THEN Something(o) ELSE Nothing
  BY MeansIs
<1>2. n \in 0..n
  BY SeqIsFunction
<1>3. Parses(text, BuiltIns \cup DOMAIN funcs) => o \in Seq(V)
  BY <1>2, OutsTyped
<1> HIDE DEF o, n, r
<1>4. CASE Parses(text, BuiltIns \cup DOMAIN funcs) /\ AllOk(text, n, dir, tree, funcs, below)
  <2>1. r = Something(o) /\ o \in Seq(V)
    BY <1>1, <1>3, <1>4
  <2>. QED  BY <2>1 DEF Something, r
<1>5. CASE ~(Parses(text, BuiltIns \cup DOMAIN funcs) /\ AllOk(text, n, dir, tree, funcs, below))
  <2>1. r = Nothing
    BY <1>1, <1>5
  <2>. QED  BY <2>1 DEF Nothing, r
<1>. QED  BY <1>4, <1>5

-----------------------------------------------------------------------------
(* What files mean *)

(* What the files mean, nested ever deeper. *)
Deepens(mean, tree, funcs) ==
  /\ mean[0] = [path \in {} |-> Nothing]
  /\ \A n \in 1..Cardinality(DOMAIN tree) :
       mean[n] = [path \in DOMAIN tree |-> Means(tree[path], Dir(path), tree, funcs, mean[n - 1])]

(* FilesMean is such a function. *)
LEMMA FilesMeanIs ==
  ASSUME NEW tree, tree \in [DOMAIN tree -> Text], IsFiniteSet(DOMAIN tree),
         NEW funcs, funcs \in [DOMAIN funcs -> Seq(Resource)]
  PROVE  /\ Cardinality(DOMAIN tree) \in Nat
         /\ Deepens(FilesMean(tree, funcs), tree, funcs)
         /\ \A n \in 0..Cardinality(DOMAIN tree) :
              FilesMean(tree, funcs)[n] \in [DOMAIN FilesMean(tree, funcs)[n] -> Meanings]
<1> DEFINE D == Cardinality(DOMAIN tree)
           V == UNION {[S -> Meanings] : S \in SUBSET DOMAIN tree}
           base == [path \in {} |-> Nothing]
           next(v) == [path \in DOMAIN tree |-> Means(tree[path], Dir(path), tree, funcs, v)]
           step == [n \in 1..D |-> [v \in V |-> next(v)]]
           names(n) == IF n = 0 THEN {} ELSE DOMAIN tree
           Is(g) == g = [n \in 0..D |-> [path \in names(n) |->
                                           Means(tree[path], Dir(path), tree, funcs, g[n - 1])]]
           mean == CHOOSE g : Is(g)
<1>1. D \in Nat
  BY FS_CardinalityType
<1>2. base \in V
  <2>1. base \in [{} -> Meanings]
    OBVIOUS
  <2> HIDE DEF base
  <2>. QED  BY <2>1
<1>3. \A v \in V : v \in [DOMAIN v -> Meanings]
  OBVIOUS
<1>4. ASSUME NEW v \in V PROVE next(v) \in V
  <2>1. ASSUME NEW path \in DOMAIN tree
        PROVE  Means(tree[path], Dir(path), tree, funcs, v) \in Meanings
    <3>1. tree[path] \in Seq(Word)
      BY DEF Text
    <3>2. v \in [DOMAIN v -> Meanings]
      BY <1>3
    <3> DEFINE text == tree[path]
               dir == Dir(path)
    <3> HIDE DEF text, dir
    <3>3. Means(text, dir, tree, funcs, v) \in [ok : BOOLEAN, out : Seq(Word)]
      BY <3>1, <3>2, MeansTyped DEF text
    <3>. QED  BY <3>3 DEF text, dir, Meanings, Text
  <2>2. next(v) \in [DOMAIN tree -> Meanings]
    BY <2>1
  <2> HIDE DEF next
  <2>. QED  BY <2>2
<1>5. step \in [1..D -> [V -> V]]
  BY <1>4
<1>6. PICK f \in [0..D -> V] : Iterates(f, D, base, step)
  <2> HIDE DEF step, V, base, D
  <2>. QED  BY <1>1, <1>2, <1>5, Iteration
<1>7. f[0] = base /\ \A n \in 1..D : f[n] = next(f[n - 1])
  <2>1. \A n \in 1..D : n - 1 \in 0..D
    BY <1>1
  <2>2. \A n \in 1..D : f[n - 1] \in V
    BY <2>1
  <2>3. f[0] = base /\ \A n \in 1..D : f[n] = step[n][f[n - 1]]
    BY <1>6 DEF Iterates
  <2> HIDE DEF V, next, base
  <2>. QED  BY <2>2, <2>3
<1>8. Is(f)
  <2> DEFINE g == [n \in 0..D |-> [path \in names(n) |->
                                     Means(tree[path], Dir(path), tree, funcs, f[n - 1])]]
  <2>1. ASSUME NEW n \in 0..D PROVE f[n] = g[n]
    <3>1. CASE n = 0
      <4>1. g[n] = [path \in {} |-> Means(tree[path], Dir(path), tree, funcs, f[n - 1])]
        BY <3>1
      <4>2. g[n] = base
        BY <4>1
      <4>. QED  BY <1>7, <3>1, <4>2
    <3>2. CASE n # 0
      <4>1. g[n] = next(f[n - 1])
        BY <3>2
      <4>2. n \in 1..D
        BY <1>1, <3>2
      <4> HIDE DEF g, next
      <4>. QED  BY <1>7, <4>1, <4>2
    <3>. QED  BY <3>1, <3>2
  <2>2. DOMAIN f = 0..D /\ DOMAIN g = 0..D /\ f = [n \in 0..D |-> f[n]]
    OBVIOUS
  <2>3. g = [n \in 0..D |-> g[n]]
    OBVIOUS
  <2> HIDE DEF g
  <2>4. f = g
    BY <2>1, <2>2, <2>3
  <2>. QED  BY <2>4 DEF g
<1>9. FilesMean(tree, funcs) = mean
  BY Zenon DEF FilesMean
<1>10. Is(mean)
  <2> HIDE DEF Is
  <2>. QED  BY <1>8
<1> HIDE DEF mean
<1> DEFINE T == {n \in 0..D : mean[n] = f[n]}
<1>11. 0 \in T
  <2>1. 0 \in 0..D
    BY <1>1
  <2>2. mean[0] = [path \in {} |-> Means(tree[path], Dir(path), tree, funcs, mean[0 - 1])]
    BY <1>10, <2>1
  <2>3. mean[0] = base
    BY <2>2
  <2>. QED  BY <1>7, <2>1, <2>3
<1>12. ASSUME NEW n \in 1..D, n - 1 \in T PROVE n \in T
  <2>1. n \in 0..D /\ n # 0
    BY <1>1
  <2>2. mean[n] = next(mean[n - 1])
    BY <1>10, <2>1
  <2>3. mean[n - 1] = f[n - 1]
    BY <1>12
  <2> HIDE DEF next
  <2>. QED  BY <1>7, <2>1, <2>2, <2>3
<1>13. \A n \in 0..D : mean[n] = f[n]
  <2> HIDE DEF T
  <2>1. 0..D \subseteq T
    BY <1>1, <1>11, <1>12, Induction
  <2>. QED  BY <2>1 DEF T
<1>14. mean[0] = base /\ \A n \in 1..D : mean[n] = next(mean[n - 1])
  <2>1. 0 \in 0..D /\ \A n \in 1..D : n \in 0..D /\ n - 1 \in 0..D
    BY <1>1
  <2> HIDE DEF base, next
  <2>. QED  BY <1>7, <1>13, <2>1
<1>15. Deepens(mean, tree, funcs)
  BY <1>14 DEF Deepens
<1>16. \A n \in 0..D : mean[n] \in [DOMAIN mean[n] -> Meanings]
  BY <1>3, <1>13
<1>. QED  BY <1>1, <1>9, <1>15, <1>16

(* The first m of the texts in one. *)
Flat(t, m) == FlattenSeq([i \in 1..m |-> t[i]])

(* One more text is added at the end. *)
LEMMA FlatGrows ==
  ASSUME NEW n \in Nat, NEW V, NEW t, t \in [1..n -> Seq(V)], NEW i \in 1..n
  PROVE  Flat(t, i) = Flat(t, i - 1) \o t[i]
<1>p. PICK f \in [0..n -> Seq(V)] : Grows(f, t, n)
  BY FlattenPrefix
<1>1. i \in 0..n /\ i - 1 \in 0..n
  OBVIOUS
<1>2. f[i] = f[i - 1] \o t[i] /\ Flat(t, i) = f[i] /\ Flat(t, i - 1) = f[i - 1]
  BY <1>p, <1>1 DEF Grows, Concatenates, Flat
<1>. QED  BY <1>2

(* What gives nothing adds nothing. *)
LEMMA Silence ==
  ASSUME NEW n \in Nat, NEW V, NEW t \in [1..n -> Seq(V)],
         NEW a \in 0..n, NEW b \in a..n, \A k \in (a + 1)..b : t[k] = <<>>
  PROVE  Flat(t, b) = Flat(t, a)
<1>p. PICK f \in [0..n -> Seq(V)] : Grows(f, t, n)
  BY FlattenPrefix
<1>1. /\ Concatenates(f, t, n)
      /\ \A m \in 0..n : FlattenSeq([i \in 1..m |-> t[i]]) = f[m]
  BY <1>p DEF Grows
<1> DEFINE T == {k \in 0..(b - a) : f[a + k] = f[a]}
           d == b - a
<1>2. d \in Nat /\ a \in Nat /\ b \in 0..n /\ a + d = b
  OBVIOUS
<1>3. 0 \in T
  BY <1>2
<1>4. ASSUME NEW k \in 1..d, k - 1 \in T PROVE k \in T
  <2>1. a + k \in 1..n /\ a + k - 1 = a + (k - 1) /\ a + k \in (a + 1)..b /\ a + (k - 1) \in 0..n
    BY <1>2
  <2>2. f[a + k] = f[a + (k - 1)] \o t[a + k]
    <3>1. PICK q \in 1..n : q = a + k /\ q - 1 = a + (k - 1)
      BY <2>1
    <3>2. f[q] = f[q - 1] \o t[q]
      BY <1>1 DEF Concatenates
    <3>. QED  BY <3>1, <3>2
  <2>3. f[a + (k - 1)] = f[a] /\ f[a] \in Seq(V) /\ t[a + k] = <<>>
    BY <1>4, <2>1
  <2>4. f[a] \o <<>> = f[a]
    BY <2>3, ConcatEmptySeq
  <2>. QED  BY <2>2, <2>3, <2>4
<1>5. d \in T
  <2> HIDE DEF T, d
  <2>1. 0..d \subseteq T
    BY <1>2, <1>3, <1>4, Induction
  <2>. QED  BY <1>2, <2>1
<1>. QED  BY <1>1, <1>2, <1>5 DEF Flat

(* What gives itself is copied. *)
Copied(t, text, a, b) == \A k \in (a + 1)..b : t[k] = <<text[k]>>

(* What is copied, token by token. *)
Piecewise(t, text, a, b) == Flat(t, b) = Flat(t, a) \o SubSeq(text, a + 1, b)

(* A part that is copied is that part. *)
LEMMA Copies ==
  ASSUME NEW V, NEW text \in Seq(V), NEW n, n = Len(text), NEW t \in [1..n -> Seq(V)],
         NEW a \in 0..n, NEW b \in a..n, Copied(t, text, a, b)
  PROVE  Piecewise(t, text, a, b)
<1>0. n \in Nat /\ \A k \in 1..n : text[k] \in V
  BY SeqIsFunction
<1>c. \A k \in (a + 1)..b : t[k] = <<text[k]>>
  BY DEF Copied
<1>p. PICK f \in [0..n -> Seq(V)] : Grows(f, t, n)
  BY <1>0, FlattenPrefix
<1>1. /\ Concatenates(f, t, n)
      /\ \A m \in 0..n : FlattenSeq([i \in 1..m |-> t[i]]) = f[m]
  BY <1>p DEF Grows
<1> DEFINE part(k) == SubSeq(text, a + 1, a + k)
           d == b - a
           T == {k \in 0..d : f[a + k] = f[a] \o part(k)}
<1>2. d \in Nat /\ a \in Nat /\ b \in 0..n /\ a + d = b /\ f[a] \in Seq(V)
  BY <1>0
<1>3. 0 \in T
  <2>1. a + 0 < a + 1 /\ a + 0 = a /\ a + 1 \in Int /\ a + 0 \in Int
    BY <1>2
  <2>2. part(0) = <<>>
    BY <2>1, SubSeqEmpty
  <2>3. f[a] \o <<>> = f[a]
    BY <1>2, ConcatEmptySeq
  <2> HIDE DEF part
  <2>. QED  BY <1>2, <2>1, <2>2, <2>3
<1>4. ASSUME NEW k \in 1..d, k - 1 \in T PROVE k \in T
  <2>1. a + k \in 1..n /\ a + k - 1 = a + (k - 1) /\ a + k \in (a + 1)..b /\ a + (k - 1) \in 0..n
        /\ a + 1 \in 1..n /\ a + k \in (a + 1)..n
    BY <1>0, <1>2
  <2>2. f[a + k] = f[a + (k - 1)] \o t[a + k]
    <3>1. f[a + k] = f[a + k - 1] \o t[a + k]
      BY <1>1, <2>1 DEF Concatenates
    <3>. QED  BY <2>1, <3>1
  <2>3. f[a + (k - 1)] = f[a] \o part(k - 1) /\ t[a + k] = <<text[a + k]>>
    BY <1>4, <1>c, <2>1
  <2>4. part(k) = part(k - 1) \o <<text[a + k]>>
    BY <1>0, <2>1, SubSeqRecursiveSecond
  <2>5. part(k - 1) \in Seq(V)
    <3>1. \A q \in (a + 1)..(a + (k - 1)) : text[q] \in V
      BY <1>0, <2>1
    <3>. QED  BY <2>1, <3>1, SubSeqProperties
  <2> DEFINE e == <<text[a + k]>>
             p == part(k - 1)
             g == f[a]
  <2>6. e \in Seq(V) /\ g \in Seq(V) /\ p \in Seq(V)
    BY <1>0, <1>2, <2>1, <2>5
  <2> HIDE DEF e, p, g, part
  <2>7. (g \o p) \o e = g \o (p \o e)
    BY <2>6, ConcatAssociative
  <2>8. f[a + k] = g \o part(k)
    BY <2>2, <2>3, <2>4, <2>7 DEF e, p, g
  <2>. QED  BY <2>8 DEF g
<1>5. d \in T
  <2> HIDE DEF T, d
  <2>1. 0..d \subseteq T
    BY <1>2, <1>3, <1>4, Induction
  <2>. QED  BY <1>2, <2>1
<1>. QED  BY <1>1, <1>2, <1>5 DEF Flat, Piecewise

-----------------------------------------------------------------------------
(* What tokens mean *)

(* The rest of a call gives nothing. *)
LEMMA CallTokens ==
  ASSUME NEW V, NEW text \in Seq(V), NEW fs, Parses(text, fs),
         NEW i \in 1..Len(text), text[i] = "open", NEW k \in (i + 1)..CloseOf(text, i),
         NEW dir, NEW tree, NEW funcs, NEW below
  PROVE  TokenMeans(text, k, dir, tree, funcs, below) = Something(<<>>)
<1> DEFINE c == CloseOf(text, i)
<1>1. /\ c \in (i + 2)..Len(text) /\ text[c] = "close"
      /\ \A q \in (i + 1)..(c - 1) : text[q] \notin {"open", "close", "break"}
      /\ Len(text) \in Nat
  BY ParsedCall, LenProperties
<1> HIDE DEF c
<1>2. text[k] # "open"
  <2>1. k = c \/ k \in (i + 1)..(c - 1)
    BY <1>1 DEF c
  <2>. QED  BY <1>1, <2>1
<1>3. i \in 1..(k - 1) /\ c >= k
  BY <1>1 DEF c
<1>4. Within(text, k)
  BY <1>3 DEF Within, c
<1>. QED  BY <1>2, <1>4 DEF TokenMeans

(* A word outside every call gives itself. *)
LEMMA CopyTokens ==
  ASSUME NEW text, NEW k, k \in Int, text[k] # "open",
         \A q \in 1..(k - 1) : text[q] = "open" => CloseOf(text, q) < k /\ CloseOf(text, q) \in Int,
         NEW dir, NEW tree, NEW funcs, NEW below
  PROVE  TokenMeans(text, k, dir, tree, funcs, below) = Something(<<text[k]>>)
<1>1. ~Within(text, k)
  <2>1. \A q \in 1..(k - 1) : ~(text[q] = "open" /\ CloseOf(text, q) >= k)
    OBVIOUS
  <2>. QED  BY <2>1 DEF Within
<1>. QED  BY <1>1 DEF TokenMeans

(* A text and what it may nest, ready to be rendered. *)
Ready(text, V, tree, funcs, below) ==
  /\ tree \in [DOMAIN tree -> Text] /\ text \in Seq(V)
  /\ Word \subseteq V /\ V \subseteq Word \cup {"break"}
  /\ funcs \in [DOMAIN funcs -> Seq(Resource)] /\ below \in [DOMAIN below -> Meanings]
  /\ Parses(text, BuiltIns \cup DOMAIN funcs)

(* t: what its n tokens give. *)
Gives(n, t, text, V, dir, tree, funcs, below) ==
  /\ n \in Nat /\ n = Len(text) /\ text \in Seq(V) /\ \A k \in 1..n : text[k] \in V
  /\ t \in [1..n -> Seq(V)]
  /\ \A m \in 1..n : t[m] = TokenMeans(text, m, dir, tree, funcs, below).out
  /\ \A m \in 0..n : FlattenSeq(Outs(text, m, dir, tree, funcs, below)) = Flat(t, m)
  /\ \A m \in 0..n : FlattenSeq(Outs(text, m, dir, tree, funcs, below)) \in Seq(V)

(* What its tokens give. *)
LEMMA ReadyOuts ==
  ASSUME NEW text, NEW V, NEW dir, NEW tree, NEW funcs, NEW below, Ready(text, V, tree, funcs, below)
  PROVE  Gives(Len(text), Outs(text, Len(text), dir, tree, funcs, below),
               text, V, dir, tree, funcs, below)
<1> SUFFICES ASSUME NEW n, n = Len(text), NEW t, t = Outs(text, n, dir, tree, funcs, below)
             PROVE  Gives(n, t, text, V, dir, tree, funcs, below)
  OBVIOUS
<1>1. /\ tree \in [DOMAIN tree -> Text] /\ text \in Seq(V)
      /\ Word \subseteq V /\ V \subseteq Word \cup {"break"}
      /\ funcs \in [DOMAIN funcs -> Seq(Resource)] /\ below \in [DOMAIN below -> Meanings]
      /\ Parses(text, BuiltIns \cup DOMAIN funcs)
  BY DEF Ready
<1>2. n \in Nat /\ \A k \in 1..n : text[k] \in V
  BY <1>1, SeqIsFunction
<1>3. \A m \in 0..n : /\ Outs(text, m, dir, tree, funcs, below) \in [1..m -> Seq(V)]
                      /\ FlattenSeq(Outs(text, m, dir, tree, funcs, below)) \in Seq(V)
  BY <1>1, OutsTyped
<1>4. t \in [1..n -> Seq(V)]
  BY <1>2, <1>3
<1>5. ASSUME NEW m \in 0..n PROVE Outs(text, m, dir, tree, funcs, below) = [i \in 1..m |-> t[i]]
  <2>1. \A i \in 1..m : i \in 1..n
    BY <1>2
  <2>. QED  BY <2>1 DEF Outs
<1>6. \A m \in 0..n : FlattenSeq(Outs(text, m, dir, tree, funcs, below)) = Flat(t, m)
  BY <1>5 DEF Flat
<1>7. \A m \in 1..n : t[m] = TokenMeans(text, m, dir, tree, funcs, below).out
  BY DEF Outs
<1>. QED  BY <1>1, <1>2, <1>3, <1>4, <1>6, <1>7 DEF Gives

-----------------------------------------------------------------------------
(* What a call adds *)

(* What is between a and b gives x. *)
Extended(text, a, b, x, dir, tree, funcs, below) ==
  FlattenSeq(Outs(text, b, dir, tree, funcs, below))
    = FlattenSeq(Outs(text, a, dir, tree, funcs, below)) \o x

(* A call adds what it means. *)
LEMMA CallExtends ==
  ASSUME NEW text, NEW V, NEW dir, NEW tree, NEW funcs, NEW below,
         Ready(text, V, tree, funcs, below),
         NEW i \in 1..Len(text), text[i] = "open", NEW c, c = CloseOf(text, i),
         NEW token, token = TokenMeans(text, i, dir, tree, funcs, below)
  PROVE  /\ c \in (i + 2)..Len(text)
         /\ Extended(text, i - 1, c, token.out, dir, tree, funcs, below)
         /\ AllOk(text, i - 1, dir, tree, funcs, below) /\ token.ok
              => AllOk(text, c, dir, tree, funcs, below)
<1> DEFINE old == FlattenSeq(Outs(text, i - 1, dir, tree, funcs, below))
           new == FlattenSeq(Outs(text, c, dir, tree, funcs, below))
<1>0. PICK n, t : Gives(n, t, text, V, dir, tree, funcs, below)
  BY ReadyOuts
<1>1. /\ n \in Nat /\ n = Len(text) /\ text \in Seq(V)
      /\ t \in [1..n -> Seq(V)]
      /\ \A k \in 1..n : t[k] = TokenMeans(text, k, dir, tree, funcs, below).out
      /\ \A m \in 0..n : FlattenSeq(Outs(text, m, dir, tree, funcs, below)) = Flat(t, m)
  BY <1>0 DEF Gives
<1>2. Parses(text, BuiltIns \cup DOMAIN funcs)
  BY DEF Ready
<1>3. c \in (i + 2)..n
  BY <1>1, <1>2, ParsedCall
<1>4. \A k \in (i + 1)..c : TokenMeans(text, k, dir, tree, funcs, below) = Something(<<>>)
  BY <1>1, <1>2, CallTokens
<1>5. \A k \in (i + 1)..c : t[k] = <<>>
  <2>1. \A k \in (i + 1)..c : k \in 1..n
    BY <1>1, <1>3
  <2>2. ASSUME NEW k \in (i + 1)..c PROVE t[k] = <<>>
    <3>1. t[k] = TokenMeans(text, k, dir, tree, funcs, below).out
      BY <1>1, <2>1
    <3>2. TokenMeans(text, k, dir, tree, funcs, below).out = <<>>
      BY <1>4 DEF Something
    <3>. QED  BY <3>1, <3>2
  <2>. QED  BY <2>2
<1>6. i \in 0..n /\ i - 1 \in 0..n /\ c \in i..n /\ c \in 0..n /\ i \in 1..n
  BY <1>1, <1>3
<1>7. Flat(t, c) = Flat(t, i)
  BY <1>1, <1>5, <1>6, Silence
<1>8. Flat(t, i) = Flat(t, i - 1) \o t[i]
  BY <1>1, <1>6, FlatGrows
<1>9. new = Flat(t, c) /\ old = Flat(t, i - 1) /\ t[i] = token.out
  BY <1>1, <1>6
<1>10. ASSUME AllOk(text, i - 1, dir, tree, funcs, below), token.ok
       PROVE  AllOk(text, c, dir, tree, funcs, below)
  <2>1. ASSUME NEW k \in 1..c PROVE TokenMeans(text, k, dir, tree, funcs, below).ok
    <3>1. k \in 1..(i - 1) \/ k = i \/ k \in (i + 1)..c
      <4>1. k \in Int /\ i \in Int /\ c \in Int
        BY <1>1, <1>6
      <4>. QED  BY <4>1
    <3>. QED  BY <1>4, <1>10, <3>1 DEF AllOk, Something
  <2>. QED  BY <2>1 DEF AllOk
<1>11. new = old \o token.out
  BY <1>7, <1>8, <1>9
<1>. QED  BY <1>1, <1>3, <1>10, <1>11 DEF Extended

(* And what is copied adds itself. *)
LEMMA CopyExtends ==
  ASSUME NEW text, NEW V, NEW dir, NEW tree, NEW funcs, NEW below,
         Ready(text, V, tree, funcs, below),
         NEW a \in 0..Len(text), NEW b \in a..Len(text),
         \A k \in (a + 1)..b : text[k] # "open",
         \A k \in 1..a : text[k] = "open" => CloseOf(text, k) < a + 1
  PROVE  /\ Extended(text, a, b, SubSeq(text, a + 1, b), dir, tree, funcs, below)
         /\ AllOk(text, a, dir, tree, funcs, below) => AllOk(text, b, dir, tree, funcs, below)
<1> DEFINE old == FlattenSeq(Outs(text, a, dir, tree, funcs, below))
           new == FlattenSeq(Outs(text, b, dir, tree, funcs, below))
<1>0. PICK n, t : Gives(n, t, text, V, dir, tree, funcs, below)
  BY ReadyOuts
<1>1. /\ n \in Nat /\ n = Len(text) /\ text \in Seq(V)
      /\ t \in [1..n -> Seq(V)]
      /\ \A k \in 1..n : t[k] = TokenMeans(text, k, dir, tree, funcs, below).out
      /\ \A m \in 0..n : FlattenSeq(Outs(text, m, dir, tree, funcs, below)) = Flat(t, m)
  BY <1>0 DEF Gives
<1>2. Parses(text, BuiltIns \cup DOMAIN funcs)
  BY DEF Ready
<1>3. a \in 0..n /\ b \in a..n /\ b \in 0..n /\ a \in Nat /\ b \in Nat /\ a <= b /\ b <= n /\ n \in Nat
  BY <1>1
<1>4. ASSUME NEW k \in (a + 1)..b
      PROVE  TokenMeans(text, k, dir, tree, funcs, below) = Something(<<text[k]>>)
  <2>1. ASSUME NEW q \in 1..(k - 1), text[q] = "open"
        PROVE  CloseOf(text, q) < k /\ CloseOf(text, q) \in Int
    <3>1. q \in 1..a /\ q \in 1..n
      <4>1. q \in 1..a \/ q \in (a + 1)..b
        BY <1>3
      <4>. QED  BY <1>3, <2>1, <4>1
    <3>2. CloseOf(text, q) \in (q + 2)..n
      BY <1>1, <1>2, <2>1, <3>1, ParsedCall
    <3>3. CloseOf(text, q) < a + 1
      BY <2>1, <3>1
    <3> HIDE DEF CloseOf
    <3>. QED  BY <1>3, <3>1, <3>2, <3>3
  <2>2. k \in Int /\ text[k] # "open"
    BY <1>3
  <2>. QED  BY <2>1, <2>2, CopyTokens
<1>5. Copied(t, text, a, b)
  <2>1. \A k \in (a + 1)..b : k \in 1..n
    BY <1>3
  <2>2. ASSUME NEW k \in (a + 1)..b PROVE t[k] = <<text[k]>>
    <3>1. t[k] = TokenMeans(text, k, dir, tree, funcs, below).out
      BY <1>1, <2>1
    <3>2. TokenMeans(text, k, dir, tree, funcs, below).out = <<text[k]>>
      BY <1>4 DEF Something
    <3>. QED  BY <3>1, <3>2
  <2>. QED  BY <2>2 DEF Copied
<1>6. Flat(t, b) = Flat(t, a) \o SubSeq(text, a + 1, b)
  <2>1. Piecewise(t, text, a, b)
    BY <1>1, <1>3, <1>5, Copies
  <2>. QED  BY <2>1 DEF Piecewise
<1>7. new = Flat(t, b) /\ old = Flat(t, a)
  BY <1>1, <1>3
<1>8. ASSUME AllOk(text, a, dir, tree, funcs, below)
      PROVE  AllOk(text, b, dir, tree, funcs, below)
  <2>1. ASSUME NEW k \in 1..b PROVE TokenMeans(text, k, dir, tree, funcs, below).ok
    <3>1. k \in 1..a \/ k \in (a + 1)..b
      <4>1. k \in Int /\ a \in Int /\ b \in Int
        BY <1>1, <1>3
      <4>. QED  BY <4>1
    <3>. QED  BY <1>4, <1>8, <3>1 DEF AllOk, Something
  <2>. QED  BY <2>1 DEF AllOk
<1>. QED  BY <1>6, <1>7, <1>8 DEF Extended

(* Something in the text means nothing, before where it stands. *)
Amiss(f, tree, funcs, below) ==
  \E i \in 1..(f.next - 1) : ~TokenMeans(f.text, i, f.dir, tree, funcs, below).ok

(* All before n means something, and is what is rendered. *)
Done(f, n, tree, funcs, below) ==
  /\ AllOk(f.text, n, f.dir, tree, funcs, below)
  /\ f.out = FlattenSeq(Outs(f.text, n, f.dir, tree, funcs, below))

(* RenderedTo is one or the other. *)
LEMMA RenderedToIs ==
  ASSUME NEW f, NEW n, NEW tree, NEW funcs, NEW below
  PROVE  RenderedTo(f, n, tree, funcs, below) <=>
           IF f.missing THEN Amiss(f, tree, funcs, below) ELSE Done(f, n, tree, funcs, below)
BY DEF RenderedTo, Amiss, Done, AllOk, Outs

(* A call gives what it means. *)
LEMMA CallRendered ==
  ASSUME NEW f, NEW V, NEW tree, NEW funcs, NEW below, Ready(f.text, V, tree, funcs, below),
         f.next \in 1..Len(f.text), f.text[f.next] = "open",
         RenderedTo(f, f.next - 1, tree, funcs, below),
         NEW value, NEW found,
         NEW token, token = TokenMeans(f.text, f.next, f.dir, tree, funcs, below),
         IF found THEN token = Something(value) ELSE ~token.ok,
         NEW g, g.text = f.text, g.dir = f.dir, g.next = CloseOf(f.text, f.next) + 1,
         g.out = f.out \o value, g.missing = (f.missing \/ ~found)
  PROVE  RenderedTo(g, g.next - 1, tree, funcs, below)
<1> DEFINE text == f.text
           dir == f.dir
           i == f.next
           c == CloseOf(f.text, f.next)
<1>1. i \in 1..Len(text) /\ Len(text) \in Nat /\ c \in (i + 2)..Len(text)
  <2>1. text \in Seq(V) /\ Parses(text, BuiltIns \cup DOMAIN funcs)
    BY DEF Ready
  <2>2. Len(text) \in Nat
    BY <2>1, SeqIsFunction
  <2>. QED  BY <2>1, <2>2, ParsedCall
<1> HIDE DEF i, c
<1>2. g.next = c + 1 /\ g.next - 1 = c /\ i \in 1..c
  <2>1. g.next = c + 1
    BY DEF c
  <2>. QED  BY <1>1, <2>1
<1>3. CASE f.missing \/ ~found
  <2>1. PICK k \in 1..i : ~TokenMeans(text, k, dir, tree, funcs, below).ok
    <3>1. CASE f.missing
      <4>1. Amiss(f, tree, funcs, below)
        BY <3>1, RenderedToIs
      <4>. QED  BY <1>1, <4>1 DEF Amiss, i
    <3>2. CASE ~found
      <4>1. ~token.ok /\ token = TokenMeans(text, i, dir, tree, funcs, below) /\ i \in 1..i
        BY <1>1, <3>2 DEF i
      <4>. QED  BY <4>1
    <3>. QED  BY <1>3, <3>1, <3>2
  <2>2. k \in 1..(g.next - 1)
    BY <1>1, <1>2
  <2>3. Amiss(g, tree, funcs, below)
    BY <2>1, <2>2 DEF Amiss
  <2>4. g.missing
    BY <1>3
  <2>. QED  BY <2>3, <2>4, RenderedToIs
<1>4. CASE ~f.missing /\ found
  <2>1. Done(f, i - 1, tree, funcs, below)
    BY <1>4, RenderedToIs DEF i
  <2>2. token = Something(value) /\ token = TokenMeans(text, i, dir, tree, funcs, below)
    BY <1>4 DEF i
  <2> DEFINE old == FlattenSeq(Outs(text, i - 1, dir, tree, funcs, below))
             new == FlattenSeq(Outs(text, c, dir, tree, funcs, below))
  <2>3. /\ Extended(text, i - 1, c, token.out, dir, tree, funcs, below)
        /\ AllOk(text, i - 1, dir, tree, funcs, below) /\ token.ok
             => AllOk(text, c, dir, tree, funcs, below)
    <3>1. text[i] = "open" /\ c = CloseOf(text, i)
      BY DEF i, c
    <3>. QED  BY <1>1, <2>2, <3>1, CallExtends
  <2> HIDE DEF old, new
  <2>4. f.out = old /\ AllOk(text, i - 1, dir, tree, funcs, below)
    BY <2>1 DEF Done, old
  <2>5. token.ok /\ token.out = value
    BY <2>2 DEF Something
  <2>6. g.out = new /\ AllOk(g.text, c, g.dir, tree, funcs, below)
    <3>1. new = old \o token.out
      BY <2>3 DEF Extended, old, new
    <3>. QED  BY <2>3, <2>4, <2>5, <3>1
  <2>7. Done(g, c, tree, funcs, below)
    BY <2>6 DEF Done, new
  <2>8. ~g.missing
    BY <1>4
  <2>. QED  BY <1>2, <2>7, <2>8, RenderedToIs
<1>. QED  BY <1>3, <1>4

(* What is copied means itself. *)
LEMMA CopyRendered ==
  ASSUME NEW f, NEW V, NEW tree, NEW funcs, NEW below, Ready(f.text, V, tree, funcs, below),
         f.next \in 1..Len(f.text), NEW end \in f.next..(Len(f.text) + 1),
         \A k \in f.next..(end - 1) : f.text[k] # "open",
         \A k \in 1..(f.next - 1) : f.text[k] = "open" => CloseOf(f.text, k) < f.next,
         RenderedTo(f, f.next - 1, tree, funcs, below),
         NEW g, g.text = f.text, g.dir = f.dir, g.next = end,
         g.out = f.out \o SubSeq(f.text, f.next, end - 1), g.missing = f.missing
  PROVE  RenderedTo(g, g.next - 1, tree, funcs, below)
<1> DEFINE text == f.text
           dir == f.dir
           a == f.next - 1
           b == end - 1
<1>1. /\ Len(text) \in Nat /\ f.next \in Nat /\ end \in Nat
      /\ a \in 0..Len(text) /\ b \in a..Len(text) /\ a + 1 = f.next /\ a \in Nat /\ b \in Nat
  <2>1. text \in Seq(V)
    BY DEF Ready
  <2>2. Len(text) \in Nat
    BY <2>1, SeqIsFunction
  <2>. QED  BY <2>2
<1>2. CASE f.missing
  <2>1. Amiss(f, tree, funcs, below)
    BY <1>2, RenderedToIs
  <2>2. PICK k \in 1..a : ~TokenMeans(text, k, dir, tree, funcs, below).ok
    BY <2>1 DEF Amiss
  <2>3. k \in 1..(g.next - 1)
    BY <1>1
  <2>4. Amiss(g, tree, funcs, below)
    BY <2>2, <2>3 DEF Amiss
  <2>. QED  BY <1>2, <2>4, RenderedToIs
<1>3. CASE ~f.missing
  <2>1. Done(f, a, tree, funcs, below)
    BY <1>3, RenderedToIs
  <2> DEFINE old == FlattenSeq(Outs(text, a, dir, tree, funcs, below))
             new == FlattenSeq(Outs(text, b, dir, tree, funcs, below))
  <2>2. /\ Extended(text, a, b, SubSeq(text, a + 1, b), dir, tree, funcs, below)
        /\ AllOk(text, a, dir, tree, funcs, below) => AllOk(text, b, dir, tree, funcs, below)
    <3>1. \A k \in (a + 1)..b : text[k] # "open"
      BY <1>1
    <3>2. \A k \in 1..a : text[k] = "open" => CloseOf(text, k) < a + 1
      BY <1>1
    <3> HIDE DEF a, b
    <3>. QED  BY <1>1, <3>1, <3>2, CopyExtends
  <2> HIDE DEF old, new
  <2>3. f.out = old /\ AllOk(text, a, dir, tree, funcs, below)
    BY <2>1 DEF Done, old
  <2>4. g.out = f.out \o SubSeq(text, a + 1, b) /\ g.next - 1 = b
    BY <1>1
  <2> HIDE DEF a, b
  <2>5. g.out = new /\ AllOk(g.text, b, g.dir, tree, funcs, below)
    <3>1. new = old \o SubSeq(text, a + 1, b)
      BY <2>2 DEF Extended, old, new
    <3>. QED  BY <2>2, <2>3, <2>4, <3>1
  <2>6. Done(g, b, tree, funcs, below)
    BY <2>5 DEF Done, new
  <2>. QED  BY <1>3, <2>4, <2>6, RenderedToIs
<1>. QED  BY <1>2, <1>3

-----------------------------------------------------------------------------
(* What the stack means *)

(* Each level gives what the files mean whose nested files the next gives. *)
Levels(tree, funcs) ==
  LET D == Cardinality(DOMAIN tree) IN
  /\ D \in Nat
  /\ \A j \in 1..(D + 1) :
       Level(j, tree, funcs) \in [DOMAIN Level(j, tree, funcs) -> Meanings]
  /\ \A j \in 1..D :
       /\ DOMAIN Level(j, tree, funcs) = DOMAIN tree
       /\ \A path \in DOMAIN tree :
            Level(j, tree, funcs)[path]
              = Means(tree[path], Dir(path), tree, funcs, Level(j + 1, tree, funcs))
  /\ DOMAIN Level(D + 1, tree, funcs) = {}

(* The levels of FilesMean are such. *)
LEMMA LevelsAre ==
  ASSUME NEW tree, tree \in [DOMAIN tree -> Text], IsFiniteSet(DOMAIN tree),
         NEW funcs, funcs \in [DOMAIN funcs -> Seq(Resource)]
  PROVE  Levels(tree, funcs)
<1> DEFINE D == Cardinality(DOMAIN tree)
           mean == FilesMean(tree, funcs)
<1>1. /\ D \in Nat /\ Deepens(mean, tree, funcs)
      /\ \A n \in 0..D : mean[n] \in [DOMAIN mean[n] -> Meanings]
  BY FilesMeanIs
<1> HIDE DEF mean
<1>2. \A j : Level(j, tree, funcs) = mean[D + 1 - j]
  BY DEF Level, mean
<1> HIDE DEF D
<1>3. ASSUME NEW j \in 1..(D + 1)
      PROVE  Level(j, tree, funcs) \in [DOMAIN Level(j, tree, funcs) -> Meanings]
  <2>1. PICK n \in 0..D : n = D + 1 - j
    BY <1>1
  <2>. QED  BY <1>1, <1>2, <2>1
<1>4. ASSUME NEW j \in 1..D
      PROVE  /\ DOMAIN Level(j, tree, funcs) = DOMAIN tree
             /\ \A path \in DOMAIN tree :
                  Level(j, tree, funcs)[path]
                    = Means(tree[path], Dir(path), tree, funcs, Level(j + 1, tree, funcs))
  <2>1. PICK n \in 1..D : n = D + 1 - j /\ n - 1 = D + 1 - (j + 1)
    BY <1>1
  <2>2. Level(j, tree, funcs) = mean[n] /\ Level(j + 1, tree, funcs) = mean[n - 1]
    BY <1>2, <2>1
  <2>3. mean[n] = [path \in DOMAIN tree |-> Means(tree[path], Dir(path), tree, funcs, mean[n - 1])]
    BY <1>1 DEF Deepens, D
  <2>. QED  BY <2>2, <2>3
<1>5. DOMAIN Level(D + 1, tree, funcs) = {}
  <2>1. Level(D + 1, tree, funcs) = mean[0]
    BY <1>1, <1>2
  <2>2. mean[0] = [path \in {} |-> Nothing]
    BY <1>1 DEF Deepens
  <2>. QED  BY <2>1, <2>2
<1>. QED  BY <1>1, <1>3, <1>4, <1>5 DEF Levels, D

(* All files on the stack are there, so they are not more than there are. *)
LEMMA DepthBound ==
  ASSUME IInv, \A i \in DOMAIN nested : nested[i] \in DOMAIN disk
  PROVE  Len(nested) \in Nat /\ Len(nested) <= Cardinality(DOMAIN disk)
<1>1. Len(nested) \in Nat /\ DOMAIN nested = 1..Len(nested) /\ IsFiniteSet(DOMAIN disk)
  BY InvParts, StackFacts DEF FilesTyped
<1> DEFINE n == Len(nested)
           there == [i \in 1..n |-> nested[i]]
<1>2. there \in [1..n -> DOMAIN disk]
  BY <1>1
<1>3. \A i, j \in 1..n : there[i] = there[j] => i = j
  BY <1>1 DEF IInv, StackKept, EqualFold
<1>4. there \in Injection(1..n, DOMAIN disk)
  BY <1>2, <1>3 DEF Injection, IsInjective
<1>5. Cardinality(1..n) <= Cardinality(DOMAIN disk)
  BY <1>1, <1>4, FS_Injection
<1>6. Cardinality(1..n) = n
  <2>1. n \in Nat
    BY <1>1
  <2> HIDE DEF n
  <2>. QED  BY <2>1, FS_Interval
<1>. QED  BY <1>1, <1>5, <1>6

(* The topmost text, and what may be nested in it. *)
Beneath == Level(Len(frames), disk, loader.funcs)

(* So there are levels of what the disk means. *)
LEMMA LevelsThere ==
  ASSUME IInv, TextInv
  PROVE  /\ Levels(disk, loader.funcs)
         /\ disk \in [DOMAIN disk -> Text]
         /\ loader.funcs \in [DOMAIN loader.funcs -> Seq(Resource)]
<1>1. IsFiniteSet(DOMAIN disk)
  BY InvParts DEF FilesTyped
<1>2. disk \in [DOMAIN disk -> Text] /\ loader.funcs \in [DOMAIN loader.funcs -> Seq(Resource)]
  BY DEF TextInv, FilesText, LoaderText
<1>. QED  BY <1>1, <1>2, LevelsAre

(* The topmost text is ready to be rendered. *)
LEMMA TopReady ==
  ASSUME IInv, TextInv, frames # <<>>, \A i \in DOMAIN nested : nested[i] \in DOMAIN disk
  PROVE  /\ \E V : Ready(Top.text, V, disk, loader.funcs, Beneath)
         /\ Len(frames) \in 1..(Cardinality(DOMAIN disk) + 1)
         /\ Len(frames) = Len(nested) + 1
<1>1. Len(frames) = Len(nested) + 1 /\ Len(frames) \in 1..(Cardinality(DOMAIN disk) + 1)
  <2>1. Cardinality(DOMAIN disk) \in Nat
    BY LevelsThere DEF Levels
  <2>2. Len(nested) \in Nat /\ Len(nested) <= Cardinality(DOMAIN disk)
    BY DepthBound
  <2>3. Len(frames) = Len(nested) + 1
    BY InvParts, StackFacts
  <2>. QED  BY <2>1, <2>2, <2>3
<1>2. Levels(disk, loader.funcs)
  BY LevelsThere
<1>3. Beneath \in [DOMAIN Beneath -> Meanings]
  BY <1>1, <1>2 DEF Beneath, Levels
<1>4. FrameIs(Top, Written(Len(frames)))
  BY TopFacts DEF TextInv
<1>5. PICK V : Written(Len(frames)) = Seq(V) /\ Word \subseteq V /\ V \subseteq Word \cup {"break"}
  BY WrittenIs
<1>6. Top.text \in Seq(V) /\ Parses(Top.text, BuiltIns \cup DOMAIN loader.funcs)
  BY <1>4, <1>5 DEF FrameIs, Functions
<1>7. Ready(Top.text, V, disk, loader.funcs, Beneath)
  BY <1>3, <1>5, <1>6, LevelsThere DEF Ready
<1>. QED  BY <1>1, <1>7

(* What the topmost text means where it stands. *)
TopRendered(f) == RenderedTo(f, f.next - 1, disk, loader.funcs, Beneath)

(* It is rendered as it means. *)
LEMMA TopIsRendered ==
  ASSUME FramesMean, frames # <<>>
  PROVE  TopRendered(Top)
BY DEF FramesMean, StackMeans, TopRendered, Beneath, Top

(* The topmost text goes on, and is rendered as it means. *)
LEMMA TopMeansOn ==
  ASSUME IInv, FramesMean, frames # <<>>,
         NEW f, f.text = Top.text, TopRendered(f),
         frames' = Append(Front(frames), f),
         UNCHANGED <<nested, disk>>, loader'.funcs = loader.funcs
  PROVE  FramesMean'
<1>1. /\ IsSeq(frames') /\ Len(frames') = Len(frames)
      /\ \A i \in 1..(Len(frames) - 1) : frames'[i] = frames[i]
      /\ frames'[Len(frames)] = f
  BY ReplaceLast DEF IInv, TypeOK
<1>2. /\ Len(frames) \in Nat /\ Len(frames) >= 1 /\ Len(frames) = Len(nested) + 1
      /\ DOMAIN nested = 1..Len(nested) /\ Len(nested) \in Nat
  BY InvParts, StackFacts
<1>3. Last(frames') = f
  BY <1>1 DEF Last
<1>4. RenderedTo(f, f.next - 1, disk, loader.funcs, Level(Len(frames), disk, loader.funcs))
  BY DEF TopRendered, Beneath
<1>5. RenderedTo(Last(frames'), Last(frames').next - 1, disk, loader.funcs,
                 Level(Len(frames'), disk, loader.funcs))
  BY <1>1, <1>3, <1>4
<1>6. ASSUME NEW j \in DOMAIN nested
      PROVE  /\ Waits(frames'[j], nested[j], disk, loader.funcs, Level(j, disk, loader.funcs))
             /\ nested[j] \in DOMAIN disk => frames'[j + 1].text = disk[nested[j]]
  <2>1. /\ Waits(frames[j], nested[j], disk, loader.funcs, Level(j, disk, loader.funcs))
        /\ nested[j] \in DOMAIN disk => frames[j + 1].text = disk[nested[j]]
    BY DEF FramesMean, StackMeans
  <2>2. j \in 1..(Len(frames) - 1) /\ (j + 1 \in 1..(Len(frames) - 1) \/ j + 1 = Len(frames))
    BY <1>2
  <2>3. frames'[j] = frames[j]
    BY <1>1, <2>2
  <2>4. frames'[j + 1].text = frames[j + 1].text
    BY <1>1, <2>2 DEF Top, Last
  <2>. QED  BY <2>1, <2>3, <2>4
<1>7. StackMeans(frames', nested, disk, loader.funcs)
  BY <1>5, <1>6 DEF StackMeans
<1>. QED  BY <1>7 DEF FramesMean

(* The topmost text calls: what that means. *)
Called == TokenMeans(Top.text, Top.next, Top.dir, disk, loader.funcs, Beneath)

(* A call that gives what it means. *)
LEMMA EmitMeans ==
  ASSUME IInv, TextInv, FramesMean, NEW fns, AtCall(fns), NEW value, NEW found,
         IF found THEN Called = Something(value) ELSE ~Called.ok,
         Emit(value, found), UNCHANGED disk, loader'.funcs = loader.funcs
  PROVE  FramesMean'
<1>1. /\ frames # <<>> /\ Unfinished(Top)
      /\ Top.next \in 1..Len(Top.text) /\ Top.text[Top.next] = "open"
  BY CallFacts DEF TextInv
<1>2. PICK V : Ready(Top.text, V, disk, loader.funcs, Beneath)
  <2>1. \A i \in DOMAIN nested : nested[i] \in DOMAIN disk
    BY <1>1, InvParts, UnfinishedIsThere
  <2>. QED  BY <1>1, <2>1, TopReady
<1> DEFINE f == Top
           g == Returned(value, found)
<1>3. /\ g.text = f.text /\ g.dir = f.dir /\ g.next = CloseOf(f.text, f.next) + 1
      /\ g.out = f.out \o value /\ g.missing = (f.missing \/ ~found)
  <2>1. DOMAIN Top = FrameFields
    BY <1>1, TopFacts DEF TextInv
  <2>. QED  BY <2>1 DEF Returned, FrameFields
<1>4. RenderedTo(f, f.next - 1, disk, loader.funcs, Beneath)
  BY <1>1, TopIsRendered DEF TopRendered
<1>5. frames' = Append(Front(frames), g) /\ UNCHANGED nested
  BY DEF Emit
<1> HIDE DEF f, g
<1>6. RenderedTo(g, g.next - 1, disk, loader.funcs, Beneath)
  <2>1. PICK token : token = Called
    OBVIOUS
  <2>2. /\ token = TokenMeans(f.text, f.next, f.dir, disk, loader.funcs, Beneath)
        /\ IF found THEN token = Something(value) ELSE ~token.ok
    BY <2>1 DEF Called, f
  <2>3. f.next \in 1..Len(f.text) /\ f.text[f.next] = "open"
        /\ Ready(f.text, V, disk, loader.funcs, Beneath)
    BY <1>1, <1>2 DEF f
  <2>. QED  BY <1>3, <1>4, <2>2, <2>3, CallRendered
<1>. QED  BY <1>1, <1>3, <1>5, <1>6, TopMeansOn DEF TopRendered, f

(* What a call means. *)
LEMMA CalledMeans ==
  ASSUME IInv, TextInv, NEW fns, AtCall(fns)
  PROVE  LET fn == Top.text[Top.next + 1] IN
         /\ fn \in Functions \cap fns
         /\ fn = "env" => Called = Something(EnvValue(Args))
         /\ fn = "must_env" =>
              Called = IF IsSet(Args[1]) THEN Something(Getenv(Args[1])) ELSE Nothing
         /\ fn = "file" => Called = IF ThereIs(Target) THEN Something(disk[Target]) ELSE Nothing
         /\ fn = "template_file" =>
              Called = IF Target \in DOMAIN Beneath THEN Beneath[Target] ELSE Nothing
         /\ fn \notin BuiltIns =>
              LET found == Lookups(loader.funcs[fn], Args[1])
              IN Called = IF found = <<>> THEN Nothing ELSE Something(found[1].value)
<1> DEFINE fn == Top.text[Top.next + 1]
<1>1. Top.text[Top.next] = "open" /\ fn \in Functions \cap fns
  BY CallFacts DEF TextInv
<1>2. Called = CallMeans(Top.text, Top.next, Top.dir, disk, loader.funcs, Beneath)
  BY <1>1 DEF Called, TokenMeans
<1>3. fn = "env" => Called = Something(EnvValue(Args))
  BY <1>2 DEF CallMeans, Args
<1>4. fn = "must_env" =>
        Called = IF IsSet(Args[1]) THEN Something(Getenv(Args[1])) ELSE Nothing
  BY <1>2 DEF CallMeans, Args
<1>5. fn = "file" => Called = IF ThereIs(Target) THEN Something(disk[Target]) ELSE Nothing
  BY <1>2 DEF CallMeans, Args, Target, ThereIs
<1>6. fn = "template_file" =>
        Called = IF Target \in DOMAIN Beneath THEN Beneath[Target] ELSE Nothing
  BY <1>2 DEF CallMeans, Args, Target
<1>7. fn \notin BuiltIns =>
        LET found == Lookups(loader.funcs[fn], Args[1])
        IN Called = IF found = <<>> THEN Nothing ELSE Something(found[1].value)
  BY <1>2 DEF CallMeans, Args, BuiltIns
<1>. QED  BY <1>1, <1>3, <1>4, <1>5, <1>6, <1>7

(* Nothing is rendered. *)
LEMMA NothingMeans ==
  ASSUME frames' = <<>>, nested' = <<>>
  PROVE  FramesMean'
BY DEF FramesMean, StackMeans

(* The functions of the states have names of their own. *)
LEMMA NoFunctionIsBuiltIn ==
  ASSUME IInv, TextInv, LoadedSoFar, frames # <<>>
  PROVE  DOMAIN loader.funcs \cap BuiltIns = {}
<1>1. stage \in {"locations", "config", "definition"}
  BY DEF IInv, StackKept
<1> DEFINE names == {config.states[i].fn : i \in 1..Len(config.states)}
<1>2. /\ stage = "locations" => loader.funcs = FlagFuncs(cmd.tfstate)
      /\ stage \in {"config", "definition"} => loader.funcs = ProjectFuncs(cmd.tfstate)
  BY DEF LoadedSoFar
<1>3. DOMAIN FlagFuncs(cmd.tfstate) \subseteq {"tfstate"}
  BY DEF FlagFuncs
<1>4. DOMAIN ProjectFuncs(cmd.tfstate) = DOMAIN FlagFuncs(cmd.tfstate) \cup names
  BY DEF ProjectFuncs, FuncsAfter
<1>5. names \cap BuiltIns = {}
  <2>1. config.states \in Seq(TFStateConfig)
    BY DEF TextInv, FilesText, ConfigFile
  <2>2. \A i \in 1..Len(config.states) : config.states[i] \in TFStateConfig
    BY <2>1, SeqIsFunction
  <2>. QED  BY <2>2 DEF TFStateConfig
<1> HIDE DEF names
<1>6. "tfstate" \notin BuiltIns
  BY DEF BuiltIns
<1>. QED  BY <1>1, <1>2, <1>3, <1>4, <1>5, <1>6

(* Each call does. *)
LEMMA CallsMean ==
  ASSUME IInv, TextInv, FramesMean, LoadedSoFar,
         CallEnv \/ CallMustEnv \/ CallTFState \/ CallFile, UNCHANGED files
  PROVE  FramesMean'
<1>0. disk' = disk
  BY DEF files
<1>1. DOMAIN loader = {"funcs", "at", "states", "envs", "mustEnvs"}
  BY Fields
<1>2. CASE CallEnv
  <2>1. AtCall({"env"}) /\ Emit(EnvValue(Args), TRUE) /\ loader'.funcs = loader.funcs
    BY <1>1, <1>2 DEF CallEnv
  <2>2. Called = Something(EnvValue(Args))
    BY <2>1, CalledMeans
  <2>. QED  BY <1>0, <2>1, <2>2, EmitMeans
<1>3. CASE CallMustEnv
  <2> DEFINE found == IsSet(Args[1])
             value == Getenv(Args[1])
  <2>1. AtCall({"must_env"}) /\ Emit(value, found) /\ loader'.funcs = loader.funcs
    BY <1>1, <1>3 DEF CallMustEnv
  <2>2. Called = IF found THEN Something(value) ELSE Nothing
    BY <2>1, CalledMeans
  <2>3. IF found THEN Called = Something(value) ELSE ~Called.ok
    BY <2>2 DEF Nothing
  <2> HIDE DEF found, value
  <2>. QED  BY <1>0, <2>1, <2>3, EmitMeans
<1>4. CASE CallTFState
  <2> DEFINE fn == Top.text[Top.next + 1]
             found == Lookups(loader.funcs[fn], Args[1])
  <2>1. AtCall(DOMAIN loader.funcs)
        /\ IF found = <<>> THEN Fail("error") ELSE Emit(found[1].value, TRUE) /\ UNCHANGED loader
    BY <1>4 DEF CallTFState
  <2>2. CASE found = <<>>
    BY <2>1, <2>2, NothingMeans DEF Fail
  <2>3. CASE found # <<>>
    <3>1. fn \notin BuiltIns
      <4>1. fn \in DOMAIN loader.funcs
        BY <2>1, CalledMeans
      <4>. QED  BY <2>1, <4>1, NoFunctionIsBuiltIn DEF AtCall
    <3>2. Called = Something(found[1].value)
      BY <2>1, <2>3, <3>1, CalledMeans
    <3> HIDE DEF found, fn
    <3>. QED  BY <1>0, <2>1, <2>3, <3>2, EmitMeans
  <2>. QED  BY <2>2, <2>3
<1>5. CASE CallFile
  <2> DEFINE found == ThereIs(Target)
             value == Contents(Target)
  <2>1. AtCall({"file"}) /\ Emit(value, found) /\ loader'.funcs = loader.funcs
    BY <1>5 DEF CallFile
  <2>2. Called = IF found THEN Something(disk[Target]) ELSE Nothing
    BY <2>1, CalledMeans
  <2>3. IF found THEN Called = Something(value) ELSE ~Called.ok
    BY <2>2 DEF Nothing, Contents
  <2> HIDE DEF found, value
  <2>. QED  BY <1>0, <2>1, <2>3, EmitMeans
<1>. QED  BY <1>2, <1>3, <1>4, <1>5

(* What is copied means itself. *)
LEMMA CopyMeans ==
  ASSUME IInv, TextInv, FramesMean, Copy, UNCHANGED files
  PROVE  FramesMean'
<1>1. frames # <<>> /\ Unfinished(Top) /\ Top.text[Top.next] # "open"
  BY DEF Copy
<1>2. PICK V : Ready(Top.text, V, disk, loader.funcs, Beneath)
  <2>1. \A i \in DOMAIN nested : nested[i] \in DOMAIN disk
    BY <1>1, InvParts, UnfinishedIsThere
  <2>. QED  BY <1>1, <2>1, TopReady
<1>3. /\ FrameIs(Top, Written(Len(frames))) /\ DOMAIN Top = FrameFields
      /\ Len(Top.text) \in Nat /\ Top.next \in 1..Len(Top.text)
  BY <1>1, TopFacts DEF TextInv, Unfinished
<1> DEFINE n == Len(Top.text)
           ends(j) == /\ j <= n => Top.text[j] = "open"
                      /\ \A k \in Top.next..(j - 1) : Top.text[k] # "open"
           end == CHOOSE j \in Top.next..(n + 1) : ends(j)
           g == [Top EXCEPT !.next = end, !.out = @ \o SubSeq(Top.text, Top.next, end - 1)]
<1>4. frames' = Append(Front(frames), g) /\ nested' = nested /\ loader' = loader /\ disk' = disk
  BY DEF Copy, files
<1>5. end \in Top.next..(n + 1) /\ ends(end)
  <2> DEFINE S == {k \in 1..n : Top.text[k] = "open"}
  <2>1. \E j \in Top.next..(n + 1) : (j <= n => j \in S) /\ \A k \in Top.next..(j - 1) : k \notin S
    <3>1. n \in Nat /\ Top.next \in 1..(n + 1)
      BY <1>3
    <3> HIDE DEF n, S
    <3>. QED  BY <3>1, FirstPosition
  <2>2. PICK j \in Top.next..(n + 1) : (j <= n => j \in S) /\ \A k \in Top.next..(j - 1) : k \notin S
    BY <2>1
  <2>3. ends(j)
    <3>1. \A k \in Top.next..(j - 1) : k \in 1..n
      BY <1>3, <2>2
    <3>. QED  BY <2>2, <3>1
  <2> HIDE DEF ends
  <2>. QED  BY <2>3
<1>6. /\ g.text = Top.text /\ g.dir = Top.dir /\ g.next = end /\ g.missing = Top.missing
      /\ g.out = Top.out \o SubSeq(Top.text, Top.next, end - 1)
  BY <1>3 DEF FrameFields
<1> HIDE DEF end, g
<1>7. RenderedTo(g, g.next - 1, disk, loader.funcs, Beneath)
  <2>1. RenderedTo(Top, Top.next - 1, disk, loader.funcs, Beneath)
    BY <1>1, TopIsRendered DEF TopRendered
  <2>2. \A k \in 1..(Top.next - 1) : Top.text[k] = "open" => CloseOf(Top.text, k) < Top.next
    BY <1>3 DEF FrameIs
  <2>3. PICK f : f = Top
    OBVIOUS
  <2>. QED  BY <1>2, <1>3, <1>5, <1>6, <2>1, <2>2, <2>3, CopyRendered
<1>. QED  BY <1>1, <1>4, <1>6, <1>7, TopMeansOn DEF TopRendered

(* No token gives nothing. *)
LEMMA NothingFlat ==
  ASSUME NEW text, NEW dir, NEW tree, NEW funcs, NEW below
  PROVE  FlattenSeq(Outs(text, 0, dir, tree, funcs, below)) = <<>>
<1> DEFINE o == Outs(text, 0, dir, tree, funcs, below)
           f == [i \in 0..0 |-> <<>>]
<1>1. o \in [1..0 -> Seq({})]
  BY DEF Outs
<1> HIDE DEF o
<1>2. o \in Seq(Seq({})) /\ Len(o) = 0
  BY <1>1, IsSequence
<1>3. f \in [0..0 -> Seq({})] /\ f[0] = <<>>
  OBVIOUS
<1>4. Concatenates(f, o, 0)
  BY <1>3 DEF Concatenates
<1>5. FlattenSeq(o) = f[0]
  <2> HIDE DEF f
  <2>. QED  BY <1>2, <1>3, <1>4, FlattenSeqIs
<1>. QED  BY <1>3, <1>5 DEF o

(* What begins has nothing rendered. *)
LEMMA NewFrameRendered ==
  ASSUME NEW text, NEW dir, NEW tree, NEW funcs, NEW below
  PROVE  RenderedTo(NewFrame(text, dir), NewFrame(text, dir).next - 1, tree, funcs, below)
<1> DEFINE f == NewFrame(text, dir)
<1>1. f.text = text /\ f.dir = dir /\ f.out = <<>> /\ f.missing = FALSE /\ f.next - 1 = 0
  BY DEF NewFrame
<1> HIDE DEF f
<1>2. FlattenSeq(Outs(f.text, 0, f.dir, tree, funcs, below)) = <<>>
  BY NothingFlat
<1>3. Done(f, 0, tree, funcs, below)
  BY <1>1, <1>2 DEF Done, AllOk
<1>4. RenderedTo(f, 0, tree, funcs, below)
  BY <1>1, <1>3, RenderedToIs
<1>. QED  BY <1>1, <1>4 DEF f

(* A text that begins. *)
LEMMA BeginMeans ==
  ASSUME IInv, NEW text, NEW dir, Begin(text, dir)
  PROVE  FramesMean'
<1>1. nested = <<>> /\ frames = <<>>
  BY InvParts, StackFacts DEF Begin
<1>2. CASE Parses(text, Functions)
  <2> DEFINE f == NewFrame(text, dir)
  <2>1. frames' = <<f>> /\ nested' = <<>>
    BY <1>1, <1>2 DEF Begin
  <2>2. Last(frames') = f
    <3> HIDE DEF f
    <3>. QED  BY <2>1 DEF Last
  <2>3. \A tree, funcs, below : RenderedTo(f, f.next - 1, tree, funcs, below)
    BY NewFrameRendered
  <2> HIDE DEF f
  <2>. QED  BY <2>1, <2>2, <2>3 DEF FramesMean, StackMeans
<1>3. CASE ~Parses(text, Functions)
  BY <1>3, NothingMeans DEF Begin, Fail
<1>. QED  BY <1>2, <1>3

(* A file is nested: the text that nests it waits for what it means. *)
LEMMA TemplateFileMeans ==
  ASSUME IInv, TextInv, FramesMean, CallTemplateFile, UNCHANGED files
  PROVE  FramesMean'
<1>1. /\ AtCall({"template_file"}) /\ frames # <<>> /\ Unfinished(Top)
      /\ Top.next \in 1..Len(Top.text) /\ Top.text[Top.next] = "open"
      /\ Top.text[Top.next + 1] = "template_file"
  BY CallFacts DEF TextInv, CallTemplateFile
<1>2. CASE Nested(Target) \/ ~Parses(Contents(Target), Functions)
  BY <1>2, NothingMeans DEF CallTemplateFile, Fail
<1>3. CASE ~Nested(Target) /\ Parses(Contents(Target), Functions)
  <2> DEFINE n == Len(frames)
             g == Returned(<<>>, ThereIs(Target))
             h == NewFrame(Contents(Target), Dir(Target))
  <2>1. /\ frames' = Front(frames) \o <<g, h>> /\ nested' = Append(nested, Target)
        /\ disk' = disk /\ loader'.funcs = loader.funcs
    BY <1>3 DEF CallTemplateFile, files
  <2>2. /\ \A i \in DOMAIN nested : nested[i] \in DOMAIN disk
        /\ n \in 1..(Cardinality(DOMAIN disk) + 1) /\ n = Len(nested) + 1
        /\ DOMAIN nested = 1..(n - 1) /\ n \in Nat
    <3>1. \A i \in DOMAIN nested : nested[i] \in DOMAIN disk
      BY <1>1, InvParts, UnfinishedIsThere
    <3>2. n \in 1..(Cardinality(DOMAIN disk) + 1) /\ n = Len(nested) + 1
      BY <1>1, <3>1, TopReady
    <3>3. DOMAIN nested = 1..Len(nested) /\ Len(nested) \in Nat
      BY InvParts, StackFacts
    <3>. QED  BY <3>1, <3>2, <3>3
  <2>3. /\ Len(frames') = n + 1 /\ \A i \in 1..(n - 1) : frames'[i] = frames[i]
        /\ frames'[n] = g /\ frames'[n + 1] = h
    <3> HIDE DEF g, h
    <3>. QED  BY <1>1, <2>1, ReplaceLastAndAdd DEF IInv, TypeOK
  <2>4. /\ IsSeq(nested') /\ Len(nested') = n
        /\ \A i \in 1..(n - 1) : nested'[i] = nested[i] /\ nested'[n] = Target
    BY <2>1, <2>2, AppendFacts DEF IInv, TypeOK
  <2>5. DOMAIN nested' = 1..n /\ nested'[n] = Target
    <3>1. nested'[n] = Target
      BY <2>1, <2>2, AppendFacts DEF IInv, TypeOK
    <3>. QED  BY <2>4, <3>1, SeqFacts
  <2> DEFINE c == Top.next
             close == CloseOf(Top.text, Top.next)
  <2>6. /\ g.text = Top.text /\ g.dir = Top.dir /\ g.next = close + 1
        /\ g.out = Top.out \o <<>> /\ g.missing = (Top.missing \/ ~ThereIs(Target))
        /\ h.text = Contents(Target)
    <3>1. DOMAIN Top = FrameFields
      BY <1>1, TopFacts DEF TextInv
    <3>. QED  BY <3>1 DEF Returned, FrameFields, NewFrame
  <2>7. g.out = Top.out
    <3>1. Top.out \in Seq(Word \cup {"break"})
      BY <1>1, TopFacts DEF TextInv
    <3>. QED  BY <2>6, <3>1, ConcatEmptySeq
  <2>8. c \in 1..close /\ close \in Nat /\ c \in Nat
    <3>1. PICK V : Ready(Top.text, V, disk, loader.funcs, Beneath)
      BY <1>1, <2>2, TopReady
    <3>2. Top.text \in Seq(V) /\ Parses(Top.text, BuiltIns \cup DOMAIN loader.funcs)
      BY <3>1 DEF Ready
    <3>3. close \in (c + 2)..Len(Top.text) /\ Len(Top.text) \in Nat
      BY <1>1, <3>2, ParsedCall, SeqIsFunction
    <3>4. c \in 1..Len(Top.text)
      BY <1>1
    <3> HIDE DEF close, c
    <3>. QED  BY <3>3, <3>4
  <2> HIDE DEF g, h
  <2>9. Last(frames') = h
    BY <2>3 DEF Last
  <2>10. \A tree, funcs, below : RenderedTo(h, h.next - 1, tree, funcs, below)
    BY NewFrameRendered DEF h
  <2>11. RenderedTo(g, c - 1, disk, loader.funcs, Beneath)
    <3>1. RenderedTo(Top, c - 1, disk, loader.funcs, Beneath)
      BY <1>1, TopIsRendered DEF TopRendered
    <3>2. CASE g.missing
      <4>1. PICK i \in 1..c : ~TokenMeans(Top.text, i, Top.dir, disk, loader.funcs, Beneath).ok
        <5>1. CASE Top.missing
          <6>1. Amiss(Top, disk, loader.funcs, Beneath)
            BY <3>1, <5>1, RenderedToIs
          <6>. QED  BY <2>8, <6>1 DEF Amiss
        <5>2. CASE ~ThereIs(Target)
          <6>1. Target \notin DOMAIN Beneath
            <7>1. Levels(disk, loader.funcs)
              BY LevelsThere
            <7>2. n \in 1..Cardinality(DOMAIN disk) \/ n = Cardinality(DOMAIN disk) + 1
              BY <2>2, <7>1 DEF Levels
            <7>3. DOMAIN Beneath \subseteq DOMAIN disk
              BY <7>1, <7>2 DEF Levels, Beneath
            <7>. QED  BY <5>2, <7>3 DEF ThereIs
          <6>2. Called = Nothing
            BY <1>1, <6>1, CalledMeans
          <6>3. ~TokenMeans(Top.text, c, Top.dir, disk, loader.funcs, Beneath).ok
            BY <6>2 DEF Called, Nothing
          <6>4. c \in 1..c
            BY <2>8
          <6>. QED  BY <6>3, <6>4
        <5>. QED  BY <2>6, <3>2, <5>1, <5>2
      <4>2. i \in 1..(g.next - 1)
        BY <2>6, <2>8
      <4>3. Amiss(g, disk, loader.funcs, Beneath)
        BY <2>6, <4>1, <4>2 DEF Amiss
      <4>. QED  BY <3>2, <4>3, RenderedToIs
    <3>3. CASE ~g.missing
      <4>1. Done(Top, c - 1, disk, loader.funcs, Beneath)
        BY <2>6, <3>1, <3>3, RenderedToIs
      <4>2. Done(g, c - 1, disk, loader.funcs, Beneath)
        BY <2>6, <2>7, <4>1 DEF Done
      <4>. QED  BY <3>3, <4>2, RenderedToIs
    <3>. QED  BY <3>2, <3>3
  <2>12. Waits(g, Target, disk, loader.funcs, Beneath)
    <3>1. c \in 1..(g.next - 1) /\ close = g.next - 1
      BY <2>6, <2>8
    <3>2. ~g.missing => Target \in DOMAIN disk
      BY <2>6 DEF ThereIs
    <3>3. Resolve(g.dir, Arguments(g.text, c)[1]) = Target
      BY <2>6 DEF Target, Args
    <3>4. g.text[c] = "open" /\ g.text[c + 1] = "template_file" /\ CloseOf(g.text, c) = close
      BY <1>1, <2>6
    <3> HIDE DEF c, close
    <3>. QED  BY <2>11, <3>1, <3>2, <3>3, <3>4 DEF Waits
  <2>13. ASSUME NEW j \in 1..n
         PROVE  /\ Waits(frames'[j], nested'[j], disk, loader.funcs, Level(j, disk, loader.funcs))
                /\ nested'[j] \in DOMAIN disk => frames'[j + 1].text = disk[nested'[j]]
    <3>1. CASE j = n
      <4>1. Target \in DOMAIN disk => h.text = disk[Target]
        BY <2>6 DEF Contents, ThereIs
      <4>. QED  BY <2>3, <2>5, <2>12, <3>1, <4>1 DEF Beneath
    <3>2. CASE j # n
      <4>1. j \in 1..(n - 1) /\ (j + 1 \in 1..(n - 1) \/ j + 1 = n)
        BY <2>2, <3>2
      <4>2. /\ Waits(frames[j], nested[j], disk, loader.funcs, Level(j, disk, loader.funcs))
            /\ nested[j] \in DOMAIN disk => frames[j + 1].text = disk[nested[j]]
        BY <2>2, <4>1 DEF FramesMean, StackMeans
      <4>3. frames'[j] = frames[j] /\ nested'[j] = nested[j]
        BY <2>3, <2>4, <4>1
      <4>4. frames'[j + 1].text = frames[j + 1].text
        <5>1. CASE j + 1 = n
          BY <2>3, <2>6, <5>1 DEF Top, Last
        <5>2. CASE j + 1 \in 1..(n - 1)
          BY <2>3, <5>2
        <5>. QED  BY <4>1, <5>1, <5>2
      <4>. QED  BY <4>2, <4>3, <4>4
    <3>. QED  BY <3>1, <3>2
  <2>14. StackMeans(frames', nested', disk, loader.funcs)
    BY <2>5, <2>9, <2>10, <2>13 DEF StackMeans
  <2>. QED  BY <2>1, <2>14 DEF FramesMean
<1>. QED  BY <1>2, <1>3

(* Every text on the stack is ready to be rendered. *)
LEMMA FrameReady ==
  ASSUME IInv, TextInv, NEW j \in 1..Len(frames), j <= Cardinality(DOMAIN disk) + 1
  PROVE  /\ \E V : Ready(frames[j].text, V, disk, loader.funcs, Level(j, disk, loader.funcs))
         /\ FrameIs(frames[j], Written(j)) /\ DOMAIN frames[j] = FrameFields
<1>1. Len(frames) \in Nat /\ DOMAIN frames = 1..Len(frames)
  BY InvParts, StackFacts
<1>2. FrameIs(frames[j], Written(j)) /\ DOMAIN frames[j] = FrameFields
  BY <1>1, FramesAre DEF TextInv, IInv, TypeOK
<1>3. Levels(disk, loader.funcs)
  BY LevelsThere
<1> DEFINE level == Level(j, disk, loader.funcs)
<1>4. level \in [DOMAIN level -> Meanings]
  <2>1. j \in 1..(Cardinality(DOMAIN disk) + 1)
    BY <1>1, <1>3 DEF Levels
  <2>. QED  BY <1>3, <2>1 DEF Levels
<1>5. PICK V : Written(j) = Seq(V) /\ Word \subseteq V /\ V \subseteq Word \cup {"break"}
  BY WrittenIs
<1>6. frames[j].text \in Seq(V) /\ Parses(frames[j].text, BuiltIns \cup DOMAIN loader.funcs)
  BY <1>2, <1>5 DEF FrameIs, Functions
<1>7. Ready(frames[j].text, V, disk, loader.funcs, level)
  BY <1>4, <1>5, <1>6, LevelsThere DEF Ready
<1>. QED  BY <1>2, <1>7

(* A text that has been rendered to its end is what it means. *)
LEMMA EndMeans ==
  ASSUME IInv, TextInv, FramesMean, frames # <<>>, ~Unfinished(Top), ~Top.missing,
         \A i \in DOMAIN nested : nested[i] \in DOMAIN disk
  PROVE  Means(Top.text, Top.dir, disk, loader.funcs, Beneath) = Something(Top.out)
<1>1. PICK V : Ready(Top.text, V, disk, loader.funcs, Beneath)
  BY TopReady
<1>2. Top.text \in Seq(V) /\ Parses(Top.text, BuiltIns \cup DOMAIN loader.funcs)
  BY <1>1 DEF Ready
<1>3. Top.next - 1 = Len(Top.text)
  BY TopFacts DEF TextInv, Unfinished
<1>4. Done(Top, Len(Top.text), disk, loader.funcs, Beneath)
  BY <1>3, TopIsRendered, RenderedToIs DEF TopRendered
<1>5. PICK text, dir, out, below : text = Top.text /\ dir = Top.dir /\ out = Top.out /\ below = Beneath
  OBVIOUS
<1>6. /\ AllOk(text, Len(text), dir, disk, loader.funcs, below)
      /\ out = FlattenSeq(Outs(text, Len(text), dir, disk, loader.funcs, below))
  BY <1>4, <1>5 DEF Done
<1>7. Means(text, dir, disk, loader.funcs, below) = Something(out)
  BY <1>2, <1>5, <1>6, MeansIs
<1>. QED  BY <1>5, <1>7

(* It gives the text that nests it what the call means. *)
LEMMA ReturnMeans ==
  ASSUME IInv, TextInv, FramesMean, ReturnNested, UNCHANGED files
  PROVE  FramesMean'
<1>1. PICK n, s, f, path :
        n = Len(frames) /\ s = SubSeq(frames, 1, n - 2) /\ f = frames[n - 1] /\ path = nested[n - 1]
  OBVIOUS
<1>2. /\ n \in Nat /\ n >= 2 /\ n = Len(nested) + 1 /\ n - 2 \in Nat
      /\ DOMAIN nested = 1..(n - 1) /\ frames # <<>> /\ nested # <<>> /\ DOMAIN frames = 1..n
  <2>1. n \in Nat /\ n >= 2 /\ frames # <<>> /\ DOMAIN frames = 1..n
    BY <1>1, InvParts, StackFacts DEF ReturnNested
  <2>2. n = Len(nested) + 1 /\ Len(nested) \in Nat /\ DOMAIN nested = 1..Len(nested)
    BY <1>1, <2>1, InvParts, StackFacts
  <2>. QED  BY <2>1, <2>2
<1>3. ~Unfinished(Top) /\ ~Top.missing
  BY DEF ReturnNested
<1> DEFINE g == [f EXCEPT !.out = @ \o Top.out]
<1>4. frames' = Append(s, g) /\ nested' = Front(nested) /\ disk' = disk /\ loader'.funcs = loader.funcs
  BY <1>1 DEF ReturnNested, files
<1>5. DOMAIN f = FrameFields /\ n - 1 \in 1..n /\ n - 1 \in DOMAIN nested
  BY <1>1, <1>2 DEF IInv, TypeOK
<1>6. /\ g.text = f.text /\ g.dir = f.dir /\ g.next = f.next /\ g.missing = f.missing
      /\ g.out = f.out \o Top.out
  BY <1>5 DEF FrameFields
<1> HIDE DEF g
<1>7. /\ IsSeq(frames') /\ Len(frames') = n - 1 /\ \A i \in 1..(n - 2) : frames'[i] = frames[i]
      /\ frames'[n - 1] = g
  <2>1. IsSeq(s) /\ Len(s) = n - 2 /\ \A i \in 1..(n - 2) : s[i] = frames[i]
    BY <1>1, <1>2, PrefixFacts DEF IInv, TypeOK
  <2>2. Len(s) + 1 = n - 1
    BY <1>2, <2>1
  <2>. QED  BY <1>4, <2>1, <2>2, AppendFacts
<1>8. /\ IsSeq(nested') /\ Len(nested') = n - 2 /\ \A i \in 1..(n - 2) : nested'[i] = nested[i]
  <2>1. Len(nested) - 1 = n - 2
    BY <1>2
  <2>. QED  BY <1>2, <1>4, <2>1, FrontFacts DEF IInv, TypeOK
<1>9. DOMAIN nested' = 1..(n - 2)
  BY <1>8, SeqFacts
<1> DEFINE below == Level(n - 1, disk, loader.funcs)
<1>10. /\ Waits(f, path, disk, loader.funcs, below)
       /\ path \in DOMAIN disk => Top.text = disk[path]
       /\ Top.dir = Dir(path)
  <2>1. n - 1 + 1 = n /\ Top = frames[n]
    BY <1>1, <1>2 DEF Top, Last
  <2>2. /\ Waits(f, path, disk, loader.funcs, below)
        /\ path \in DOMAIN disk => frames[n - 1 + 1].text = disk[path]
    BY <1>1, <1>5 DEF FramesMean, StackMeans
  <2>3. frames[n - 1 + 1].dir = Dir(path)
    BY <1>1, <1>5 DEF IInv, StackKept
  <2>. QED  BY <2>1, <2>2, <2>3
<1>11. PICK c \in 1..(f.next - 1) :
         /\ f.text[c] = "open" /\ f.text[c + 1] = "template_file"
         /\ CloseOf(f.text, c) = f.next - 1
         /\ Resolve(f.dir, Arguments(f.text, c)[1]) = path
         /\ RenderedTo(f, c - 1, disk, loader.funcs, below)
         /\ ~f.missing => path \in DOMAIN disk
  BY <1>10 DEF Waits
<1>12. RenderedTo(g, g.next - 1, disk, loader.funcs, below)
  <2>1. CASE f.missing
    <3>1. Amiss(f, disk, loader.funcs, below)
      BY <1>11, <2>1, RenderedToIs
    <3>2. Amiss(g, disk, loader.funcs, below)
      BY <1>6, <3>1 DEF Amiss
    <3>. QED  BY <1>6, <2>1, <3>2, RenderedToIs
  <2>2. CASE ~f.missing
    <3>1. path \in DOMAIN disk /\ Done(f, c - 1, disk, loader.funcs, below)
      BY <1>11, <2>2, RenderedToIs
    <3>2. \A i \in DOMAIN nested : nested[i] \in DOMAIN disk
      <4>1. \A i \in DOMAIN nested : i = n - 1 \/ i # Len(nested)
        BY <1>2
      <4>. QED  BY <1>1, <3>1, <4>1 DEF IInv, FilesNested
    <3>3. n \in 1..(Cardinality(DOMAIN disk) + 1)
      BY <1>1, <1>2, <3>2, TopReady
    <3>4. Levels(disk, loader.funcs)
      BY LevelsThere
    <3>5. n - 1 \in 1..Cardinality(DOMAIN disk) /\ n - 1 + 1 = n
      BY <1>2, <3>3, <3>4 DEF Levels
    <3>6. /\ DOMAIN below = DOMAIN disk
          /\ below[path] = Means(Top.text, Top.dir, disk, loader.funcs, Beneath)
      BY <1>1, <1>10, <3>1, <3>4, <3>5 DEF Levels, Beneath
    <3>7. below[path] = Something(Top.out)
      BY <1>2, <1>3, <3>2, <3>6, EndMeans
    <3> DEFINE token == TokenMeans(f.text, c, f.dir, disk, loader.funcs, below)
    <3>8. token = Something(Top.out)
      <4>1. token = CallMeans(f.text, c, f.dir, disk, loader.funcs, below)
        BY <1>11 DEF TokenMeans
      <4>2. CallMeans(f.text, c, f.dir, disk, loader.funcs, below) = below[path]
        BY <1>11, <3>1, <3>6 DEF CallMeans
      <4>. QED  BY <3>7, <4>1, <4>2
    <3>9. n - 1 \in 1..Len(frames) /\ n - 1 <= Cardinality(DOMAIN disk) + 1
      BY <1>1, <1>2, <3>4, <3>5 DEF Levels
    <3>10. PICK V : Ready(f.text, V, disk, loader.funcs, below)
      BY <1>1, <3>9, FrameReady
    <3>11. c \in 1..Len(f.text) /\ f.next - 1 = CloseOf(f.text, c)
      <4>1. FrameIs(f, Written(n - 1))
        BY <1>1, <3>9, FrameReady
      <4>2. f.next \in 1..(Len(f.text) + 1) /\ Len(f.text) \in Nat
        BY <3>10, <4>1, SeqIsFunction DEF FrameIs, Ready
      <4>. QED  BY <1>11, <4>2
    <3>12. PICK close, t : close = CloseOf(f.text, c) /\ t = token
      OBVIOUS
    <3> HIDE DEF token
    <3>13. /\ Extended(f.text, c - 1, close, t.out, f.dir, disk, loader.funcs, below)
           /\ AllOk(f.text, c - 1, f.dir, disk, loader.funcs, below) /\ t.ok
                => AllOk(f.text, close, f.dir, disk, loader.funcs, below)
      BY <1>11, <3>10, <3>11, <3>12, CallExtends DEF token
    <3>14. t.ok /\ t.out = Top.out
      BY <3>8, <3>12 DEF Something
    <3>15. Done(g, close, disk, loader.funcs, below)
      <4>1. AllOk(f.text, close, f.dir, disk, loader.funcs, below)
        BY <3>1, <3>13, <3>14 DEF Done
      <4>2. FlattenSeq(Outs(f.text, close, f.dir, disk, loader.funcs, below)) = f.out \o Top.out
        BY <3>1, <3>13, <3>14 DEF Done, Extended
      <4>. QED  BY <1>6, <4>1, <4>2 DEF Done
    <3>16. g.next - 1 = close
      BY <1>6, <3>11, <3>12
    <3>. QED  BY <1>6, <2>2, <3>15, <3>16, RenderedToIs
  <2>. QED  BY <2>1, <2>2
<1>13. Last(frames') = g
  BY <1>7 DEF Last
<1>14. ASSUME NEW j \in 1..(n - 2)
       PROVE  /\ Waits(frames'[j], nested'[j], disk, loader.funcs, Level(j, disk, loader.funcs))
              /\ nested'[j] \in DOMAIN disk => frames'[j + 1].text = disk[nested'[j]]
  <2>1. j \in DOMAIN nested /\ (j + 1 \in 1..(n - 2) \/ j + 1 = n - 1)
    <3>1. j \in 1..(n - 1) /\ (j + 1 \in 1..(n - 2) \/ j + 1 = n - 1)
      <4>1. n \in Nat
        BY <1>2
      <4>. QED  BY <4>1
    <3>. QED  BY <1>2, <3>1
  <2>2. /\ Waits(frames[j], nested[j], disk, loader.funcs, Level(j, disk, loader.funcs))
        /\ nested[j] \in DOMAIN disk => frames[j + 1].text = disk[nested[j]]
    BY <2>1 DEF FramesMean, StackMeans
  <2>3. frames'[j + 1].text = frames[j + 1].text
    <3>1. CASE j + 1 = n - 1
      BY <1>1, <1>6, <1>7, <3>1
    <3>2. CASE j + 1 \in 1..(n - 2)
      BY <1>7, <3>2
    <3>. QED  BY <2>1, <3>1, <3>2
  <2>. QED  BY <1>7, <1>8, <2>2, <2>3
<1>15. StackMeans(frames', nested', disk, loader.funcs)
  BY <1>7, <1>9, <1>12, <1>13, <1>14 DEF StackMeans
<1>. QED  BY <1>4, <1>15 DEF FramesMean

-----------------------------------------------------------------------------
(* What a project means *)

(* What a project means stays the same while its files do. *)
LEMMA MeaningSame ==
  ASSUME UNCHANGED files
  PROVE  /\ \A text, dir, funcs : Meaning(text, dir, funcs)' = Meaning(text, dir, funcs)
         /\ \A i, flag : Location(i, flag)' = Location(i, flag)
         /\ \A i, flag : StateAt(i, flag)' = StateAt(i, flag)
         /\ \A n, flag : StatesThere(n, flag)' = StatesThere(n, flag)
         /\ \A n, flag : FuncsAfter(n, flag)' = FuncsAfter(n, flag)
         /\ \A flag : ProjectFuncs(flag)' = ProjectFuncs(flag)
         /\ \A flag : BodyMeans(flag)' = BodyMeans(flag)
         /\ \A flag : StatesLocated(flag)' = StatesLocated(flag)
         /\ DefinitionFile' = DefinitionFile
<1>0. config' = config /\ disk' = disk
  BY DEF files
<1>1. \A text, dir, funcs : Meaning(text, dir, funcs)' = Meaning(text, dir, funcs)
  BY <1>0 DEF Meaning
<1>2. \A i, flag : Location(i, flag)' = Location(i, flag)
  BY <1>0, <1>1 DEF Location
<1>3. \A i, flag : StateAt(i, flag)' = StateAt(i, flag)
  BY <1>2 DEF StateAt
<1>4. \A n, flag : StatesThere(n, flag)' = StatesThere(n, flag)
  BY <1>0, <1>2, <1>3 DEF StatesThere
<1>5. \A n, flag : FuncsAfter(n, flag)' = FuncsAfter(n, flag)
  BY <1>0, <1>3 DEF FuncsAfter
<1>6. \A flag : ProjectFuncs(flag)' = ProjectFuncs(flag)
  BY <1>0, <1>5 DEF ProjectFuncs
<1>7. \A flag : BodyMeans(flag)' = BodyMeans(flag)
  BY <1>0, <1>1, <1>6 DEF BodyMeans
<1>8. \A flag : StatesLocated(flag)' = StatesLocated(flag)
  BY <1>0, <1>2 DEF StatesLocated
<1>9. DefinitionFile' = DefinitionFile
  BY <1>0 DEF DefinitionFile
<1>. QED  BY <1>1, <1>2, <1>3, <1>4, <1>5, <1>6, <1>7, <1>8, <1>9

(* What is loaded stays the same while it is rendered. *)
LEMMA RootKept ==
  ASSUME RootMeans, frames # <<>>,
         frames'[1].text = frames[1].text, frames'[1].dir = frames[1].dir,
         UNCHANGED <<stage, files>>
  PROVE  RootMeans'
<1>1. config' = config /\ disk' = disk /\ stage' = stage /\ DefinitionFile' = DefinitionFile
  BY MeaningSame DEF files
<1>. QED  BY <1>1 DEF RootMeans, ThereIs

(* And so does what has been loaded. *)
LEMMA SoFarKept ==
  ASSUME LoadedSoFar, UNCHANGED <<stage, cmd, cfg, files>>,
         loader'.funcs = loader.funcs, loader'.at = loader.at, loader'.states = loader.states
  PROVE  LoadedSoFar'
<1>1. config' = config /\ disk' = disk /\ stage' = stage /\ cmd' = cmd /\ cfg' = cfg
  BY DEF files
<1>2. Loading' = Loading
  BY <1>1 DEF Loading
<1>3. /\ \A i, flag : Location(i, flag)' = Location(i, flag)
      /\ \A n, flag : StatesThere(n, flag)' = StatesThere(n, flag)
      /\ \A n, flag : FuncsAfter(n, flag)' = FuncsAfter(n, flag)
      /\ \A flag : ProjectFuncs(flag)' = ProjectFuncs(flag)
      /\ \A flag : BodyMeans(flag)' = BodyMeans(flag)
      /\ \A flag : StatesLocated(flag)' = StatesLocated(flag)
  BY MeaningSame
<1>. QED  BY <1>1, <1>2, <1>3 DEF LoadedSoFar

(* A load that is over has nothing more to keep. *)
LEMMA SoFarOver ==
  ASSUME ~Loading'
  PROVE  LoadedSoFar'
BY DEF LoadedSoFar, Loading

(* A load that fails is over. *)
LEMMA FailMeans ==
  ASSUME NEW l \in Failed, Fail(l)
  PROVE  MeansSoFar'
<1>1. frames' = <<>> /\ nested' = <<>> /\ stage' = l
  BY DEF Fail
<1>2. ~Loading'
  BY <1>1 DEF Loading, Failed
<1>3. RootMeans'
  BY <1>1 DEF RootMeans
<1>. QED  BY <1>1, <1>2, <1>3, NothingMeans, SoFarOver DEF MeansSoFar

(* The first text stays what it is while it is rendered. *)
LEMMA FirstText ==
  ASSUME IInv, TextInv, frames # <<>>,
         \/ Copy
         \/ \E fns, value, found : AtCall(fns) /\ Emit(value, found)
         \/ CallTemplateFile /\ frames' # <<>>
         \/ ReturnNested
  PROVE  /\ frames'[1].text = frames[1].text /\ frames'[1].dir = frames[1].dir
         /\ UNCHANGED <<stage, cfg>>
<1>1. /\ Len(frames) \in Nat /\ Len(frames) >= 1 /\ DOMAIN frames = 1..Len(frames)
      /\ Top = frames[Len(frames)] /\ DOMAIN Top = FrameFields /\ IsSeq(frames)
  BY TopFacts, InvParts, StackFacts DEF TextInv, IInv, TypeOK
<1>2. ASSUME NEW g, g.text = Top.text, g.dir = Top.dir, frames' = Append(Front(frames), g)
      PROVE  frames'[1].text = frames[1].text /\ frames'[1].dir = frames[1].dir
  <2>1. /\ \A i \in 1..(Len(frames) - 1) : frames'[i] = frames[i]
        /\ frames'[Len(frames)] = g
    BY <1>1, <1>2, ReplaceLast
  <2>2. 1 \in 1..(Len(frames) - 1) \/ Len(frames) = 1
    BY <1>1
  <2>. QED  BY <1>1, <1>2, <2>1, <2>2
<1>3. CASE Copy
  <2> DEFINE end == CHOOSE i \in Top.next..(Len(Top.text) + 1) :
                  /\ i <= Len(Top.text) => Top.text[i] = "open"
                  /\ \A j \in Top.next..(i - 1) : Top.text[j] # "open"
             g == [Top EXCEPT !.next = end, !.out = @ \o SubSeq(Top.text, Top.next, end - 1)]
  <2>1. frames' = Append(Front(frames), g) /\ UNCHANGED <<stage, cfg>>
    BY <1>3 DEF Copy
  <2>2. g.text = Top.text /\ g.dir = Top.dir
    BY <1>1 DEF FrameFields
  <2> HIDE DEF g, end
  <2>. QED  BY <1>2, <2>1, <2>2
<1>4. ASSUME NEW fns, NEW value, NEW found, AtCall(fns), Emit(value, found)
      PROVE  /\ frames'[1].text = frames[1].text /\ frames'[1].dir = frames[1].dir
             /\ UNCHANGED <<stage, cfg>>
  <2> DEFINE g == Returned(value, found)
  <2>1. frames' = Append(Front(frames), g) /\ UNCHANGED <<stage, cfg>>
    BY <1>4 DEF Emit
  <2>2. g.text = Top.text /\ g.dir = Top.dir
    BY <1>1 DEF Returned, FrameFields
  <2> HIDE DEF g
  <2>. QED  BY <1>2, <2>1, <2>2
<1>5. CASE CallTemplateFile /\ frames' # <<>>
  <2> DEFINE g == Returned(<<>>, ThereIs(Target))
             h == NewFrame(Contents(Target), Dir(Target))
  <2>1. frames' = Front(frames) \o <<g, h>> /\ UNCHANGED <<stage, cfg>>
    BY <1>5 DEF CallTemplateFile, Fail
  <2>2. g.text = Top.text /\ g.dir = Top.dir
    BY <1>1 DEF Returned, FrameFields
  <2> HIDE DEF g, h
  <2>3. /\ \A i \in 1..(Len(frames) - 1) : frames'[i] = frames[i]
        /\ frames'[Len(frames)] = g
    BY <1>1, <2>1, ReplaceLastAndAdd
  <2>4. 1 \in 1..(Len(frames) - 1) \/ Len(frames) = 1
    BY <1>1
  <2>. QED  BY <1>1, <2>1, <2>2, <2>3, <2>4
<1>6. CASE ReturnNested
  <2>1. PICK n, s, f : n = Len(frames) /\ s = SubSeq(frames, 1, n - 2) /\ f = frames[n - 1]
    OBVIOUS
  <2> DEFINE g == [f EXCEPT !.out = @ \o Top.out]
  <2>2. frames' = Append(s, g) /\ UNCHANGED <<stage, cfg>> /\ n >= 2
    BY <1>1, <1>6, <2>1 DEF ReturnNested
  <2>3. DOMAIN f = FrameFields
    BY <1>1, <2>1, <2>2 DEF IInv, TypeOK
  <2>4. g.text = f.text /\ g.dir = f.dir
    BY <2>3 DEF FrameFields
  <2> HIDE DEF g
  <2>5. IsSeq(s) /\ Len(s) = n - 2 /\ \A i \in 1..(n - 2) : s[i] = frames[i]
    <3>1. n - 2 \in Nat /\ n - 2 <= Len(frames)
      BY <1>1, <2>1, <2>2
    <3>. QED  BY <1>1, <2>1, <3>1, PrefixFacts
  <2>6. /\ \A i \in 1..(n - 2) : frames'[i] = frames[i]
        /\ frames'[n - 1] = g
    <3>1. Len(s) + 1 = n - 1
      BY <1>1, <2>1, <2>5
    <3>. QED  BY <2>2, <2>5, <3>1, AppendFacts
  <2>7. 1 \in 1..(n - 2) \/ n - 1 = 1
    BY <1>1, <2>1, <2>2
  <2>. QED  BY <2>1, <2>2, <2>4, <2>6, <2>7
<1>. QED  BY <1>3, <1>4, <1>5, <1>6

(* A text is rendered, or the load fails. *)
RenderingStep ==
  \/ Copy \/ CallEnv \/ CallMustEnv \/ CallTFState \/ CallFile
  \/ CallTemplateFile \/ ReturnNested \/ ReturnMissing

(* While a text is rendered, what is loaded means what it did.             *)
LEMMA RenderingMeans ==
  ASSUME IInv, TextInv, MeansSoFar, RenderingStep, UNCHANGED <<files, cmd>>
  PROVE  MeansSoFar'
<1>1. FramesMean /\ RootMeans /\ LoadedSoFar
  BY DEF MeansSoFar
<1>2. frames # <<>>
  <2>1. Len(<<>>) = 0
    OBVIOUS
  <2>2. Copy \/ ReturnNested \/ ReturnMissing => frames # <<>>
    BY <2>1 DEF Copy, ReturnNested, ReturnMissing
  <2>3. CallEnv \/ CallMustEnv \/ CallTFState \/ CallFile \/ CallTemplateFile => frames # <<>>
    BY DEF CallEnv, CallMustEnv, CallTFState, CallFile, CallTemplateFile, AtCall
  <2>. QED  BY <2>2, <2>3 DEF RenderingStep
<1>3. DOMAIN loader = {"funcs", "at", "states", "envs", "mustEnvs"}
  BY Fields
<1>4. ASSUME FramesMean',
             \/ Copy
             \/ \E fns, value, found : AtCall(fns) /\ Emit(value, found)
             \/ CallTemplateFile /\ frames' # <<>>
             \/ ReturnNested,
             loader'.funcs = loader.funcs, loader'.at = loader.at, loader'.states = loader.states
      PROVE  MeansSoFar'
  <2>1. /\ frames'[1].text = frames[1].text /\ frames'[1].dir = frames[1].dir
        /\ UNCHANGED <<stage, cfg>>
    BY <1>2, <1>4, FirstText
  <2>2. RootMeans'
    BY <1>1, <1>2, <2>1, RootKept
  <2>3. LoadedSoFar'
    BY <1>1, <1>4, <2>1, SoFarKept
  <2>. QED  BY <1>4, <2>2, <2>3 DEF MeansSoFar
<1>5. CASE Copy
  <2>1. FramesMean' /\ loader' = loader
    BY <1>1, <1>5, CopyMeans DEF Copy
  <2>. QED  BY <1>4, <1>5, <2>1
<1>6. CASE CallEnv \/ CallMustEnv \/ CallTFState \/ CallFile
  <2>1. FramesMean'
    BY <1>1, <1>6, CallsMean
  <2>2. \/ Fail("error")
        \/ /\ \E fns, value, found : AtCall(fns) /\ Emit(value, found)
           /\ loader'.funcs = loader.funcs /\ loader'.at = loader.at /\ loader'.states = loader.states
    <3>1. CASE CallEnv
      BY <1>3, <3>1 DEF CallEnv
    <3>2. CASE CallMustEnv
      BY <1>3, <3>2 DEF CallMustEnv
    <3>3. CASE CallTFState
      BY <1>3, <3>3 DEF CallTFState
    <3>4. CASE CallFile
      BY <1>3, <3>4 DEF CallFile
    <3>. QED  BY <1>6, <3>1, <3>2, <3>3, <3>4
  <2>. QED  BY <1>4, <2>1, <2>2, FailMeans DEF Failed
<1>7. CASE CallTemplateFile
  <2>1. FramesMean'
    BY <1>1, <1>7, TemplateFileMeans
  <2>2. \/ Fail("cycle") \/ Fail("error")
        \/ frames' # <<>> /\ loader' = loader
    <3>1. CASE Nested(Target)
      <4>1. Fail("cycle")
        BY <1>7, <3>1 DEF CallTemplateFile
      <4>. QED  BY <4>1
    <3>3. CASE ~Nested(Target) /\ ~Parses(Contents(Target), Functions)
      <4>1. Fail("error")
        BY <1>7, <3>3 DEF CallTemplateFile
      <4>. QED  BY <4>1
    <3>2. CASE ~Nested(Target) /\ Parses(Contents(Target), Functions)
      <4> DEFINE g == Returned(<<>>, ThereIs(Target))
                 h == NewFrame(Contents(Target), Dir(Target))
      <4>1. frames' = Front(frames) \o <<g, h>> /\ loader' = loader
        BY <1>7, <3>2 DEF CallTemplateFile
      <4> HIDE DEF g, h
      <4>2. Len(frames') = Len(frames) + 1 /\ Len(frames) \in Nat
        BY <1>2, <4>1, ReplaceLastAndAdd, InvParts, StackFacts DEF IInv, TypeOK
      <4>3. Len(<<>>) = 0
        OBVIOUS
      <4>4. frames' # <<>>
        BY <4>2, <4>3
      <4>. QED  BY <4>1, <4>4
    <3>. QED  BY <3>1, <3>2, <3>3
  <2>. QED  BY <1>4, <1>7, <2>1, <2>2, FailMeans DEF Failed
<1>8. CASE ReturnNested
  <2>1. FramesMean' /\ loader' = loader
    BY <1>1, <1>8, ReturnMeans DEF ReturnNested
  <2>. QED  BY <1>4, <1>8, <2>1
<1>9. CASE ReturnMissing
  BY <1>9, FailMeans DEF ReturnMissing, Failed
<1>. QED  BY <1>5, <1>6, <1>7, <1>8, <1>9 DEF RenderingStep

-----------------------------------------------------------------------------
(* Where a text ends *)

(* A text that is rendered alone has been rendered as what it means.       *)
LEMMA RootEnds ==
  ASSUME IInv, TextInv, MeansSoFar, Rendered
  PROVE  Meaning(frames[1].text, frames[1].dir, loader.funcs) = Something(Top.out)
<1>1. nested = <<>> /\ frames # <<>> /\ Len(frames) = 1 /\ Top = frames[1]
  <2>1. Len(<<>>) = 0
    OBVIOUS
  <2>. QED  BY <2>1, RenderedAlone DEF Rendered, Top, Last
<1>2. Means(Top.text, Top.dir, disk, loader.funcs, Beneath) = Something(Top.out)
  BY <1>1, EndMeans DEF Rendered, MeansSoFar
<1>3. Beneath = FilesMean(disk, loader.funcs)[Cardinality(DOMAIN disk)]
  <2>1. Cardinality(DOMAIN disk) \in Nat
    BY LevelsThere DEF Levels
  <2>2. Cardinality(DOMAIN disk) + 1 - 1 = Cardinality(DOMAIN disk)
    BY <2>1
  <2>. QED  BY <1>1, <2>2 DEF Beneath, Level
<1>. QED  BY <1>1, <1>2, <1>3 DEF Meaning

(* A text with something that means nothing means nothing. *)
LEMMA LostToken ==
  ASSUME NEW tree, NEW V, NEW text \in Seq(V), NEW dir, NEW funcs, NEW below,
         NEW c \in 1..Len(text), ~TokenMeans(text, c, dir, tree, funcs, below).ok
  PROVE  Means(text, dir, tree, funcs, below) = Nothing
<1>1. ~AllOk(text, Len(text), dir, tree, funcs, below)
  BY DEF AllOk
<1>. QED  BY <1>1, MeansIs

(* So does one that cannot be parsed. *)
LEMMA Unparsed ==
  ASSUME NEW tree, NEW V, NEW text \in Seq(V), NEW dir, NEW funcs, NEW below,
         ~Parses(text, BuiltIns \cup DOMAIN funcs)
  PROVE  Means(text, dir, tree, funcs, below) = Nothing
BY MeansIs

(* The file p nests a file in S. *)
NestsOneOf(p, S, tree) ==
  \E c \in 1..Len(tree[p]) :
    /\ tree[p][c] = "open" /\ tree[p][c + 1] = "template_file"
    /\ Resolve(Dir(p), Arguments(tree[p], c)[1]) \in S

(* Files that nest each other in a circle mean nothing, however deep.      *)
LEMMA Circle ==
  ASSUME NEW tree, tree \in [DOMAIN tree -> Text], NEW funcs, Levels(tree, funcs),
         NEW S, S \subseteq DOMAIN tree, \A p \in S : NestsOneOf(p, S, tree),
         NEW j \in 1..(Cardinality(DOMAIN tree) + 1), NEW q \in S,
         q \in DOMAIN Level(j, tree, funcs)
  PROVE  ~Level(j, tree, funcs)[q].ok
<1> DEFINE D == Cardinality(DOMAIN tree)
           lv(k) == Level(k, tree, funcs)
           lost(k) == \A p \in S : p \in DOMAIN lv(k) => ~lv(k)[p].ok
           T == {n \in 0..D : lost(D + 1 - n)}
<1>1. D \in Nat
  BY DEF Levels
<1>2. 0 \in T
  <2>1. D + 1 - 0 = D + 1 /\ 0 \in 0..D
    BY <1>1
  <2>2. DOMAIN lv(D + 1) = {}
    BY DEF Levels
  <2> HIDE DEF lv, D
  <2>. QED  BY <2>1, <2>2
<1>3. ASSUME NEW n \in 1..D, n - 1 \in T PROVE n \in T
  <2>1. PICK k : k = D + 1 - n /\ k + 1 = D + 1 - (n - 1) /\ k \in 1..D /\ n \in 0..D
    <3>1. D + 1 - n + 1 = D + 1 - (n - 1) /\ D + 1 - n \in 1..D /\ n \in 0..D
      <4> HIDE DEF D
      <4>. QED  BY <1>1
    <3>. QED  BY <3>1
  <2>2. lost(k + 1)
    BY <1>3, <2>1
  <2>3. ASSUME NEW p \in S PROVE ~lv(k)[p].ok
    <3>1. lv(k)[p] = Means(tree[p], Dir(p), tree, funcs, lv(k + 1))
      BY <2>1 DEF Levels
    <3>2. PICK text, dir, below : text = tree[p] /\ dir = Dir(p) /\ below = lv(k + 1)
      OBVIOUS
    <3>3. PICK c \in 1..Len(text) :
            /\ text[c] = "open" /\ text[c + 1] = "template_file"
            /\ Resolve(dir, Arguments(text, c)[1]) \in S
      BY <3>2 DEF NestsOneOf
    <3>4. PICK target \in S : target = Resolve(dir, Arguments(text, c)[1])
      BY <3>3
    <3>5. TokenMeans(text, c, dir, tree, funcs, below)
            = IF target \in DOMAIN below THEN below[target] ELSE Nothing
      BY <3>3, <3>4 DEF TokenMeans, CallMeans
    <3>6. target \in DOMAIN below => ~below[target].ok
      BY <2>2, <3>2
    <3>7. ~TokenMeans(text, c, dir, tree, funcs, below).ok
      <4>1. ~Nothing.ok
        BY DEF Nothing
      <4>. QED  BY <3>5, <3>6, <4>1
    <3>8. text \in Seq(Word)
      BY <3>2 DEF Text
    <3>9. Means(text, dir, tree, funcs, below) = Nothing
      BY <3>3, <3>7, <3>8, LostToken
    <3>. QED  BY <3>1, <3>2, <3>9 DEF Nothing
  <2>4. lost(k)
    BY <2>3
  <2> HIDE DEF lost
  <2>. QED  BY <2>1, <2>4
<1>4. 0..D \subseteq T
  <2> HIDE DEF T, D
  <2>. QED  BY <1>1, <1>2, <1>3, Induction
<1>5. PICK n \in 0..D : j = D + 1 - n
  <2>1. D + 1 - j \in 0..D /\ j = D + 1 - (D + 1 - j)
    <3>1. j \in 1..(D + 1)
      OBVIOUS
    <3> HIDE DEF D
    <3>. QED  BY <1>1, <3>1
  <2>. QED  BY <2>1
<1>6. lost(j)
  <2> HIDE DEF lost
  <2>1. n \in T
    BY <1>4
  <2>. QED  BY <1>5, <2>1
<1>. QED  BY <1>6

-----------------------------------------------------------------------------
(* What is lost *)

(* Something of the text at j means nothing. *)
LostAt(j) ==
  ~Means(frames[j].text, frames[j].dir, disk, loader.funcs, Level(j, disk, loader.funcs)).ok

(* Then something of the text that nests it means nothing. *)
LEMMA LostSpreads ==
  ASSUME IInv, TextInv, MeansSoFar, NEW j \in DOMAIN nested, LostAt(j + 1)
  PROVE  LostAt(j)
<1> DEFINE D == Cardinality(DOMAIN disk)
           below == Level(j, disk, loader.funcs)
           path == nested[j]
           f == frames[j]
<1>1. /\ Len(nested) \in Nat /\ DOMAIN nested = 1..Len(nested)
      /\ Len(frames) = Len(nested) + 1 /\ D \in Nat
  <2>1. Len(nested) \in Nat /\ DOMAIN nested = 1..Len(nested)
    BY InvParts, StackFacts
  <2>2. Len(nested) >= 1
    BY <2>1
  <2>3. frames # <<>>
    <3>1. frames = <<>> => Len(nested) = 0
      BY InvParts, StackFacts
    <3>2. ~(0 >= 1)
      OBVIOUS
    <3>. QED  BY <2>2, <3>1, <3>2
  <2>4. D \in Nat
    BY LevelsThere DEF Levels
  <2>. QED  BY <2>1, <2>3, <2>4, InvParts, StackFacts
<1>2. j \in 1..(D + 1) /\ j \in 1..Len(frames) /\ j <= D + 1
  <2>1. Len(nested) <= D + 1
    BY BoundFromInv DEF NestingBounded
  <2>2. j \in 1..Len(nested)
    BY <1>1
  <2> HIDE DEF D
  <2>. QED  BY <1>1, <2>1, <2>2
<1>3. Levels(disk, loader.funcs)
  BY LevelsThere
<1>4. /\ Waits(f, path, disk, loader.funcs, below)
      /\ path \in DOMAIN disk => frames[j + 1].text = disk[path]
      /\ frames[j + 1].dir = Dir(path)
  BY DEF MeansSoFar, FramesMean, StackMeans, IInv, StackKept
<1>5. PICK V : Ready(f.text, V, disk, loader.funcs, below)
  BY <1>2, FrameReady
<1>6. FrameIs(f, Written(j))
  BY <1>2, FrameReady
<1>7. f.text \in Seq(V) /\ Len(f.text) \in Nat /\ f.next \in 1..(Len(f.text) + 1)
  BY <1>5, <1>6, SeqIsFunction DEF Ready, FrameIs
<1>8. PICK c \in 1..(f.next - 1) :
         /\ f.text[c] = "open" /\ f.text[c + 1] = "template_file"
         /\ Resolve(f.dir, Arguments(f.text, c)[1]) = path
  BY <1>4 DEF Waits
<1>9. c \in 1..Len(f.text)
  BY <1>7
<1>10. TokenMeans(f.text, c, f.dir, disk, loader.funcs, below)
         = IF path \in DOMAIN below THEN below[path] ELSE Nothing
  BY <1>8 DEF TokenMeans, CallMeans
<1>11. path \in DOMAIN below => ~below[path].ok
  <2> SUFFICES ASSUME path \in DOMAIN below PROVE ~below[path].ok
    OBVIOUS
  <2>1. j # D + 1
    BY <1>3 DEF Levels
  <2>2. j \in 1..D
    BY <1>1, <1>2, <2>1
  <2>3. path \in DOMAIN disk
        /\ below[path] = Means(disk[path], Dir(path), disk, loader.funcs,
                               Level(j + 1, disk, loader.funcs))
    BY <1>3, <2>2 DEF Levels
  <2>. QED  BY <1>4, <2>3 DEF LostAt
<1>12. ~TokenMeans(f.text, c, f.dir, disk, loader.funcs, below).ok
  <2>1. ~Nothing.ok
    BY DEF Nothing
  <2>. QED  BY <1>10, <1>11, <2>1
<1>13. PICK text, dir : text = f.text /\ dir = f.dir
  OBVIOUS
<1> HIDE DEF below
<1>14. Means(text, dir, disk, loader.funcs, below) = Nothing
  BY <1>7, <1>9, <1>12, <1>13, LostToken
<1>. QED  BY <1>13, <1>14 DEF LostAt, Nothing, below

(* What is lost anywhere on the stack is lost for what is loaded.          *)
LEMMA RootLost ==
  ASSUME IInv, TextInv, MeansSoFar, frames # <<>>, LostAt(Len(frames))
  PROVE  ~Meaning(frames[1].text, frames[1].dir, loader.funcs).ok
<1> DEFINE n == Len(frames)
           m == n - 1
           T == {k \in 0..m : LostAt(n - k)}
<1>1. n \in Nat /\ n >= 1 /\ DOMAIN nested = 1..m /\ m \in Nat
  <2>1. n \in Nat /\ n >= 1 /\ n = Len(nested) + 1 /\ DOMAIN nested = 1..Len(nested)
        /\ Len(nested) \in Nat
    BY InvParts, StackFacts
  <2>. QED  BY <2>1
<1>2. 0 \in T
  <2>1. n - 0 = n /\ 0 \in 0..m
    BY <1>1
  <2>. QED  BY <2>1
<1>3. ASSUME NEW k \in 1..m, k - 1 \in T PROVE k \in T
  <2>1. PICK j : j = n - k /\ j + 1 = n - (k - 1) /\ j \in 1..m /\ k \in 0..m
    <3>1. n - k + 1 = n - (k - 1) /\ n - k \in 1..m /\ k \in 0..m
      <4> HIDE DEF n
      <4>. QED  BY <1>1
    <3>. QED  BY <3>1
  <2>2. LostAt(j + 1)
    BY <1>3, <2>1
  <2>3. LostAt(j)
    BY <1>1, <2>1, <2>2, LostSpreads
  <2>. QED  BY <2>1, <2>3
<1>4. m \in T
  <2> HIDE DEF T, m
  <2>1. 0..m \subseteq T
    BY <1>1, <1>2, <1>3, Induction
  <2>. QED  BY <1>1, <2>1
<1>5. n - m = 1
  <2> HIDE DEF n
  <2>. QED  BY <1>1
<1>6. LostAt(1)
  <2> HIDE DEF n
  <2>. QED  BY <1>4, <1>5
<1>7. Level(1, disk, loader.funcs) = FilesMean(disk, loader.funcs)[Cardinality(DOMAIN disk)]
  <2>1. Cardinality(DOMAIN disk) \in Nat
    BY LevelsThere DEF Levels
  <2>2. Cardinality(DOMAIN disk) + 1 - 1 = Cardinality(DOMAIN disk)
    BY <2>1
  <2>. QED  BY <2>2 DEF Level
<1>. QED  BY <1>6, <1>7 DEF LostAt, Meaning

(* The topmost text, as the words it consists of. *)
LEMMA TopWords ==
  ASSUME IInv, TextInv, frames # <<>>
  PROVE  /\ \E V : Top.text \in Seq(V)
         /\ Len(Top.text) \in Nat /\ Top.next \in 1..(Len(Top.text) + 1)
         /\ Top = frames[Len(frames)]
<1>1. FrameIs(Top, Written(Len(frames))) /\ Top = frames[Len(frames)] /\ Len(Top.text) \in Nat
  BY TopFacts DEF TextInv
<1>2. PICK V : Written(Len(frames)) = Seq(V)
  BY WrittenIs
<1>. QED  BY <1>1, <1>2 DEF FrameIs

(* Something in it that means nothing is enough. *)
LEMMA TokenLost ==
  ASSUME IInv, TextInv, frames # <<>>, NEW c \in 1..Len(Top.text),
         ~TokenMeans(Top.text, c, Top.dir, disk, loader.funcs, Beneath).ok
  PROVE  LostAt(Len(frames))
<1>1. PICK V : Top.text \in Seq(V)
  BY TopWords
<1>2. PICK text, dir, below : text = Top.text /\ dir = Top.dir /\ below = Beneath
  OBVIOUS
<1>3. Means(text, dir, disk, loader.funcs, below) = Nothing
  BY <1>1, <1>2, LostToken
<1>4. ~Nothing.ok
  BY DEF Nothing
<1>5. Top = frames[Len(frames)]
  BY TopWords
<1>. QED  BY <1>2, <1>3, <1>4, <1>5 DEF LostAt, Beneath

(* A variable or a file that was missing means nothing. *)
LEMMA MissingLost ==
  ASSUME IInv, TextInv, MeansSoFar, ReturnMissing
  PROVE  LostAt(Len(frames))
<1>1. frames # <<>> /\ Top.missing
  BY DEF ReturnMissing
<1>2. Amiss(Top, disk, loader.funcs, Beneath)
  BY <1>1, TopIsRendered, RenderedToIs DEF TopRendered, MeansSoFar
<1>3. PICK i \in 1..(Top.next - 1) : ~TokenMeans(Top.text, i, Top.dir, disk, loader.funcs, Beneath).ok
  BY <1>2 DEF Amiss
<1>4. i \in 1..Len(Top.text)
  BY <1>1, TopWords
<1>. QED  BY <1>1, <1>3, <1>4, TokenLost

(* A call that means nothing. *)
LEMMA CallLost ==
  ASSUME IInv, TextInv, NEW fns, AtCall(fns), ~Called.ok
  PROVE  LostAt(Len(frames))
<1>1. frames # <<>> /\ Top.next \in 1..Len(Top.text)
  BY CallFacts DEF TextInv
<1>. QED  BY <1>1, TokenLost DEF Called

(* What a Terraform state does not have means nothing. *)
LEMMA LookupLost ==
  ASSUME IInv, TextInv, MeansSoFar, CallTFState, Fail("error")
  PROVE  LostAt(Len(frames))
<1> DEFINE fn == Top.text[Top.next + 1]
           found == Lookups(loader.funcs[fn], Args[1])
<1>1. AtCall(DOMAIN loader.funcs) /\ frames # <<>>
  BY DEF CallTFState, AtCall
<1>2. found = <<>>
  <2> SUFFICES ASSUME found # <<>> PROVE FALSE
    OBVIOUS
  <2> DEFINE g == Returned(found[1].value, TRUE)
  <2>1. frames' = Append(Front(frames), g)
    BY DEF CallTFState, Emit
  <2> HIDE DEF g
  <2>2. Len(frames') = Len(frames) /\ Len(frames) >= 1
    BY <1>1, <2>1, ReplaceLast, InvParts, StackFacts DEF IInv, TypeOK
  <2>3. frames' = <<>>
    BY DEF Fail
  <2>4. Len(<<>>) = 0 /\ ~(0 >= 1)
    OBVIOUS
  <2>. QED  BY <2>2, <2>3, <2>4
<1>3. fn \notin BuiltIns
  <2>1. fn \in DOMAIN loader.funcs
    BY <1>1, CalledMeans
  <2>. QED  BY <1>1, <2>1, NoFunctionIsBuiltIn DEF MeansSoFar
<1>4. Called = Nothing
  BY <1>1, <1>2, <1>3, CalledMeans
<1>5. ~Called.ok
  BY <1>4 DEF Nothing
<1>. QED  BY <1>1, <1>5, CallLost

(* What the topmost text nests is lost if it means nothing itself. *)
LEMMA NestedLost ==
  ASSUME IInv, TextInv, AtCall({"template_file"}),
         Target \in DOMAIN Beneath => ~Beneath[Target].ok
  PROVE  LostAt(Len(frames))
<1>1. Top.text[Top.next + 1] = "template_file"
  BY DEF AtCall
<1>2. Called = IF Target \in DOMAIN Beneath THEN Beneath[Target] ELSE Nothing
  BY <1>1, CalledMeans
<1>3. ~Called.ok
  <2>1. ~Nothing.ok
    BY DEF Nothing
  <2>. QED  BY <1>2, <2>1
<1>. QED  BY <1>3, CallLost

(* What the level beneath the topmost text gives. *)
LEMMA BeneathGives ==
  ASSUME IInv, TextInv, AtCall({"template_file"}), Target \in DOMAIN Beneath
  PROVE  /\ Len(frames) \in 1..Cardinality(DOMAIN disk) /\ Cardinality(DOMAIN disk) \in Nat
         /\ Target \in DOMAIN disk
         /\ Beneath[Target] = Means(disk[Target], Dir(Target), disk, loader.funcs,
                                    Level(Len(frames) + 1, disk, loader.funcs))
<1>1. Levels(disk, loader.funcs) /\ Cardinality(DOMAIN disk) \in Nat
  BY LevelsThere DEF Levels
<1>2. Len(frames) \in 1..(Cardinality(DOMAIN disk) + 1)
  <2>1. frames # <<>> /\ Unfinished(Top)
    BY DEF AtCall
  <2>2. \A i \in DOMAIN nested : nested[i] \in DOMAIN disk
    BY <2>1, InvParts, UnfinishedIsThere
  <2>. QED  BY <2>1, <2>2, TopReady
<1>3. Len(frames) # Cardinality(DOMAIN disk) + 1
  BY <1>1 DEF Levels, Beneath
<1>4. Len(frames) \in 1..Cardinality(DOMAIN disk)
  BY <1>1, <1>2, <1>3
<1>. QED  BY <1>1, <1>4 DEF Levels, Beneath

(* A nested file that cannot be parsed. *)
LEMMA UnparsedLost ==
  ASSUME IInv, TextInv, AtCall({"template_file"}), ~Parses(Contents(Target), Functions)
  PROVE  LostAt(Len(frames))
<1>1. Target \in DOMAIN disk /\ ~Parses(disk[Target], BuiltIns \cup DOMAIN loader.funcs)
  <2>1. Parses(<<>>, Functions)
    BY DEF Parses
  <2>. QED  BY <2>1 DEF Contents, ThereIs, Functions
<1>2. ASSUME Target \in DOMAIN Beneath PROVE ~Beneath[Target].ok
  <2>1. PICK text, dir, below :
          /\ text = disk[Target] /\ dir = Dir(Target)
          /\ below = Level(Len(frames) + 1, disk, loader.funcs)
    OBVIOUS
  <2>2. Beneath[Target] = Means(text, dir, disk, loader.funcs, below)
    BY <1>2, <2>1, BeneathGives
  <2>3. text \in Seq(Word)
    BY <1>1, <2>1, LevelsThere DEF Text
  <2>4. Means(text, dir, disk, loader.funcs, below) = Nothing
    BY <1>1, <2>1, <2>3, Unparsed
  <2>. QED  BY <2>2, <2>4 DEF Nothing
<1>. QED  BY <1>2, NestedLost

(* A cycle means nothing, so a load that fails for one was to fail.        *)
LEMMA CycleLost ==
  ASSUME IInv, TextInv, MeansSoFar, CaseApart, AtCall({"template_file"}), Nested(Target)
  PROVE  LostAt(Len(frames))
<1> SUFFICES ASSUME Target \in DOMAIN Beneath
             PROVE  ~Beneath[Target].ok
  BY NestedLost
<1> DEFINE n == Len(frames)
<1>1. /\ n \in 1..Cardinality(DOMAIN disk) /\ Target \in DOMAIN disk
      /\ Cardinality(DOMAIN disk) \in Nat
  BY BeneathGives
<1>2. frames # <<>> /\ Unfinished(Top)
  BY DEF AtCall
<1>3. \A k \in DOMAIN nested : nested[k] \in DOMAIN disk
  BY <1>2, InvParts, UnfinishedIsThere
<1>4. PICK i \in DOMAIN nested : nested[i] = Target
  <2>1. PICK i \in DOMAIN nested : EqualFold(nested[i], Target)
    BY DEF Nested
  <2>. QED  BY <1>1, <1>3, <2>1 DEF CaseApart
<1>5. /\ n \in Nat /\ n >= 1 /\ n = Len(nested) + 1 /\ DOMAIN nested = 1..(n - 1)
      /\ DOMAIN frames = 1..n /\ i \in 1..(n - 1) /\ Top = frames[n]
  <2>1. n \in Nat /\ n = Len(nested) + 1 /\ DOMAIN nested = 1..Len(nested) /\ Len(nested) \in Nat
        /\ DOMAIN frames = 1..n /\ n >= 1
    BY <1>2, InvParts, StackFacts
  <2>. QED  BY <1>4, <2>1 DEF Top, Last
<1> DEFINE S == {nested[k] : k \in i..(n - 1)}
<1>6. S \subseteq DOMAIN disk /\ Target \in S
  BY <1>3, <1>4, <1>5
<1>7. ASSUME NEW k \in i..(n - 1) PROVE NestsOneOf(nested[k], S, disk)
  <2>1. PICK p, f : p = nested[k] /\ f = frames[k + 1]
    OBVIOUS
  <2>2. k \in DOMAIN nested /\ k + 1 \in 1..n
    BY <1>5
  <2>3. f.text = disk[p] /\ f.dir = Dir(p)
    <3>1. f.text = disk[p]
      BY <1>3, <2>1, <2>2 DEF MeansSoFar, FramesMean, StackMeans
    <3>2. f.dir = Dir(p)
      BY <2>1, <2>2 DEF IInv, StackKept
    <3>. QED  BY <3>1, <3>2
  <2>4. \E c \in 1..Len(f.text) :
          /\ f.text[c] = "open" /\ f.text[c + 1] = "template_file"
          /\ Resolve(f.dir, Arguments(f.text, c)[1]) \in S
    <3>1. CASE k = n - 1
      <4>1. f = Top
        BY <1>5, <2>1, <3>1
      <4>2. Top.next \in 1..Len(Top.text) /\ Top.text[Top.next] = "open"
        BY CallFacts DEF TextInv
      <4>3. Top.text[Top.next + 1] = "template_file"
        BY DEF AtCall
      <4>4. Target = Resolve(Top.dir, Arguments(Top.text, Top.next)[1])
        BY DEF Target, Args
      <4>. QED  BY <1>6, <4>1, <4>2, <4>3, <4>4
    <3>2. CASE k # n - 1
      <4>1. k + 1 \in DOMAIN nested /\ k + 1 \in i..(n - 1)
        <5>1. k \in i..(n - 1) /\ k # n - 1 /\ i \in 1..(n - 1) /\ n \in Nat
          BY <1>5, <3>2
        <5>2. k + 1 \in 1..(n - 1) /\ k + 1 \in i..(n - 1)
          <6> HIDE DEF n, S
          <6>. QED  BY <5>1
        <5>. QED  BY <1>5, <5>2
      <4>2. PICK q : q = nested[k + 1]
        OBVIOUS
      <4>3. q \in S
        BY <4>1, <4>2
      <4>4. Waits(f, q, disk, loader.funcs, Level(k + 1, disk, loader.funcs))
        BY <2>1, <4>1, <4>2 DEF MeansSoFar, FramesMean, StackMeans
      <4>5. PICK c \in 1..(f.next - 1) :
              /\ f.text[c] = "open" /\ f.text[c + 1] = "template_file"
              /\ Resolve(f.dir, Arguments(f.text, c)[1]) = q
        BY <4>4 DEF Waits
      <4>6. f.next \in 1..(Len(f.text) + 1) /\ Len(f.text) \in Nat
        <5>1. FrameIs(f, Written(k + 1))
          BY <1>5, <2>1, <2>2, FramesAre DEF TextInv
        <5>2. f.text \in Text
          BY <1>3, <2>1, <2>2, <2>3, LevelsThere
        <5>3. Len(f.text) \in Nat
          BY <5>2 DEF Text
        <5>. QED  BY <5>1, <5>3 DEF FrameIs
      <4>7. c \in 1..Len(f.text)
        BY <4>6
      <4>. QED  BY <4>3, <4>5, <4>7
    <3>. QED  BY <3>1, <3>2
  <2>5. NestsOneOf(p, S, disk)
    <3> HIDE DEF S
    <3>. QED  BY <2>3, <2>4 DEF NestsOneOf
  <2>. QED  BY <2>1, <2>5
<1>8. \A p \in S : NestsOneOf(p, S, disk)
  BY <1>7
<1>9. /\ Levels(disk, loader.funcs) /\ disk \in [DOMAIN disk -> Text]
      /\ n \in 1..(Cardinality(DOMAIN disk) + 1)
  BY <1>1, LevelsThere
<1> HIDE DEF S, n
<1>10. ~Level(n, disk, loader.funcs)[Target].ok
  <2>1. Target \in DOMAIN Level(n, disk, loader.funcs)
    BY DEF Beneath, n
  <2>. QED  BY <1>6, <1>8, <1>9, <2>1, Circle
<1>. QED  BY <1>10 DEF Beneath, n

(* Rendering fails only where something means nothing. *)
LEMMA RenderingLost ==
  ASSUME IInv, TextInv, MeansSoFar, CaseApart, RenderingStep, stage' # stage
  PROVE  frames # <<>> /\ LostAt(Len(frames))
<1>1. CASE ReturnMissing
  BY <1>1, MissingLost DEF ReturnMissing
<1>2. CASE CallTFState
  <2>1. Fail("error")
    BY <1>2 DEF CallTFState, Emit
  <2>. QED  BY <1>2, <2>1, LookupLost DEF CallTFState, AtCall
<1>3. CASE CallTemplateFile
  <2>1. AtCall({"template_file"}) /\ frames # <<>>
    BY <1>3 DEF CallTemplateFile, AtCall
  <2>2. Nested(Target) \/ ~Parses(Contents(Target), Functions)
    BY <1>3 DEF CallTemplateFile
  <2>. QED  BY <2>1, <2>2, CycleLost, UnparsedLost
<1>4. ~(Copy \/ CallEnv \/ CallMustEnv \/ CallFile \/ ReturnNested)
  BY DEF Copy, CallEnv, CallMustEnv, CallFile, ReturnNested, Emit
<1>. QED  BY <1>1, <1>2, <1>3, <1>4 DEF RenderingStep

-----------------------------------------------------------------------------
(* A part of a text *)

(* b is part of the text, after its first n tokens. *)
PartOf(b, text, n) ==
  /\ n \in Nat /\ n + Len(b) <= Len(text)
  /\ \A i \in 1..Len(b) : text[n + i] = b[i]

(* Where a call ends. *)
LEMMA CloseIs ==
  ASSUME NEW V, NEW text \in Seq(V), NEW i \in 1..Len(text), NEW j \in i..Len(text),
         text[j] = "close", \A k \in i..(j - 1) : text[k] # "close"
  PROVE  CloseOf(text, i) = j
<1> DEFINE Is(x) == text[x] = "close" /\ \A k \in i..(x - 1) : text[k] # "close"
           n == Len(text)
           c == CHOOSE x \in i..n : Is(x)
<1>0. n \in Nat
  BY LenProperties
<1>1. Is(j) /\ j \in i..n
  OBVIOUS
<1>2. Is(c) /\ c \in i..n
  <2> HIDE DEF Is
  <2>. QED  BY <1>1
<1>3. CloseOf(text, i) = c
  BY Zenon DEF CloseOf
<1> HIDE DEF c, n
<1>4. i \in Nat /\ j \in Nat /\ c \in Nat /\ i <= j /\ i <= c
  <2>1. i \in 1..n
    BY DEF n
  <2>. QED  BY <1>0, <1>1, <1>2, <2>1
<1>5. ~(c < j)
  <2> SUFFICES ASSUME c < j PROVE FALSE
    OBVIOUS
  <2>1. c \in i..(j - 1)
    BY <1>4
  <2>. QED  BY <1>1, <1>2, <2>1
<1>6. ~(j < c)
  <2> SUFFICES ASSUME j < c PROVE FALSE
    OBVIOUS
  <2>1. j \in i..(c - 1)
    BY <1>4
  <2>. QED  BY <1>1, <1>2, <2>1
<1>. QED  BY <1>3, <1>4, <1>5, <1>6

(* A call in a part of a text is the same call in the text. *)
SameCall(b, i, text, n) ==
  /\ CloseOf(text, n + i) = n + CloseOf(b, i)
  /\ text[n + i] = b[i] /\ text[n + i + 1] = b[i + 1]
  /\ Arguments(text, n + i) = Arguments(b, i)

(* And means the same. *)
LEMMA PartCalls ==
  ASSUME NEW V, NEW text \in Seq(V), NEW b \in Seq(V), NEW n, PartOf(b, text, n),
         NEW funcs, Parses(b, funcs), NEW i \in 1..Len(b), b[i] = "open"
  PROVE  SameCall(b, i, text, n)
<1> DEFINE m == Len(b)
           l == Len(text)
           c == CloseOf(b, i)
<1>1. /\ n \in Nat /\ m \in Nat /\ l \in Nat /\ n + m <= l
      /\ \A k \in 1..m : text[n + k] = b[k]
      /\ (\A k \in 1..m : b[k] \in V) /\ (\A k \in 1..l : text[k] \in V)
  BY SeqIsFunction DEF PartOf
<1>2. /\ c \in (i + 2)..m /\ b[c] = "close" /\ i \in 1..m
      /\ \A k \in (i + 1)..(c - 1) : b[k] \notin {"open", "close", "break"}
  BY ParsedCall
<1> HIDE DEF m, l, c
<1>3. i \in Nat /\ c \in Nat /\ i >= 1 /\ i + 2 <= c /\ c <= m
  BY <1>1, <1>2
<1>4. PICK q, j : q = n + i /\ j = n + c
  OBVIOUS
<1>5. q \in 1..l /\ j \in q..l /\ q \in Nat /\ j \in Nat /\ text[j] = "close" /\ text[q] = b[i]
  <2>1. q \in 1..l /\ j \in q..l /\ q \in Nat /\ j \in Nat /\ c \in 1..m /\ i \in 1..m
    BY <1>1, <1>3, <1>4
  <2>. QED  BY <1>1, <1>2, <1>4, <2>1
<1>6. ASSUME NEW k \in q..(j - 1) PROVE text[k] # "close"
  <2>1. PICK d : d = k - n
    OBVIOUS
  <2>2. k = n + d /\ d \in i..(c - 1) /\ d \in 1..m
    BY <1>1, <1>3, <1>4, <2>1
  <2>3. text[k] = b[d]
    BY <1>1, <2>2
  <2>4. d = i \/ d \in (i + 1)..(c - 1)
    BY <1>3, <2>2
  <2>. QED  BY <1>2, <2>3, <2>4
<1>7. CloseOf(text, q) = j
  BY <1>5, <1>6, CloseIs DEF l
<1>8. text[q + 1] = b[i + 1]
  <2>1. i + 1 \in 1..m /\ q + 1 = n + (i + 1)
    BY <1>1, <1>3, <1>4
  <2>. QED  BY <1>1, <2>1
<1>9. SubSeq(text, q + 2, j - 1) = SubSeq(b, i + 2, c - 1)
  <2>1. PICK s, t : s = SubSeq(b, i + 2, c - 1) /\ t = SubSeq(text, q + 2, j - 1)
    OBVIOUS
  <2>2. PICK x, y : x = i + 2 /\ y = c - 1
    OBVIOUS
  <2>3. x \in Int /\ y \in Int /\ y >= x - 1 /\ x >= 1 /\ y <= m
    BY <1>1, <1>3, <2>2
  <2>4. PICK u, w : u = q + 2 /\ w = j - 1
    OBVIOUS
  <2>5. u \in Int /\ w \in Int /\ u = n + x /\ w = n + y /\ u >= 1 /\ w <= l
    BY <1>1, <1>3, <1>4, <2>2, <2>4
  <2>6. /\ s \in Seq(V) /\ Len(s) = IF x <= y THEN y - x + 1 ELSE 0
        /\ \A k \in 1..(y - x + 1) : s[k] = b[x + k - 1]
    <3>1. \A k \in x..y : b[k] \in V
      BY <1>1, <2>3
    <3>. QED  BY <2>1, <2>2, <2>3, <3>1, SubSeqProperties
  <2>7. /\ t \in Seq(V) /\ Len(t) = IF u <= w THEN w - u + 1 ELSE 0
        /\ \A k \in 1..(w - u + 1) : t[k] = text[u + k - 1]
    <3>1. \A k \in u..w : text[k] \in V
      BY <1>1, <2>5
    <3>. QED  BY <2>1, <2>4, <2>5, <3>1, SubSeqProperties
  <2>8. Len(s) = y - x + 1 /\ Len(t) = Len(s) /\ w - u + 1 = y - x + 1
    BY <1>1, <2>3, <2>5, <2>6, <2>7
  <2>9. ASSUME NEW k \in 1..Len(s) PROVE t[k] = s[k]
    <3>1. k \in 1..(y - x + 1) /\ k \in 1..(w - u + 1)
      BY <2>8
    <3>2. PICK d : d = x + k - 1
      OBVIOUS
    <3>3. d \in 1..m /\ u + k - 1 = n + d
      BY <1>1, <2>3, <2>5, <3>1, <3>2
    <3>. QED  BY <1>1, <2>6, <2>7, <3>1, <3>2, <3>3
  <2>. QED  BY <2>1, <2>6, <2>7, <2>8, <2>9, SameSequence
<1>10. Arguments(text, q) = Arguments(b, i)
  BY <1>7, <1>9, Zenon DEF Arguments, c
<1>. QED  BY <1>4, <1>5, <1>7, <1>8, <1>10 DEF SameCall, c

(* What begins in the first n tokens ends in them. *)
EndsBy(text, n) ==
  \A k \in 1..n : text[k] = "open" => CloseOf(text, k) \in Nat /\ CloseOf(text, k) <= n

(* It means what it means in the part. *)
LEMMA PartTokens ==
  ASSUME NEW V, NEW text \in Seq(V), NEW b \in Seq(V), NEW n, PartOf(b, text, n), EndsBy(text, n),
         NEW funcs, Parses(b, BuiltIns \cup DOMAIN funcs), NEW i \in 1..Len(b),
         NEW dir, NEW tree, NEW below
  PROVE  TokenMeans(text, n + i, dir, tree, funcs, below) = TokenMeans(b, i, dir, tree, funcs, below)
<1>1. PICK q : q = n + i
  OBVIOUS
<1>2. /\ n \in Nat /\ Len(b) \in Nat /\ i \in Nat /\ i >= 1 /\ i <= Len(b)
      /\ text[q] = b[i] /\ \A k \in 1..Len(b) : text[n + k] = b[k]
  BY <1>1, SeqIsFunction DEF PartOf
<1>3. CASE b[i] = "open"
  <2>1. /\ text[q + 1] = b[i + 1] /\ Arguments(text, q) = Arguments(b, i)
    <3>1. SameCall(b, i, text, n)
      BY <1>3, PartCalls
    <3>. QED  BY <1>1, <3>1 DEF SameCall
  <2>2. CallMeans(text, q, dir, tree, funcs, below) = CallMeans(b, i, dir, tree, funcs, below)
    BY <2>1, Zenon DEF CallMeans
  <2>. QED  BY <1>1, <1>2, <1>3, <2>2 DEF TokenMeans
<1>4. CASE b[i] # "open"
  <2>1. ASSUME Within(b, i) PROVE Within(text, q)
    <3>1. PICK k \in 1..(i - 1) : b[k] = "open" /\ CloseOf(b, k) >= i
      BY <2>1 DEF Within
    <3>2. k \in 1..Len(b) /\ k \in Nat
      BY <1>2
    <3>3. SameCall(b, k, text, n)
      BY <3>1, <3>2, PartCalls
    <3>4. CloseOf(b, k) \in (k + 2)..Len(b)
      BY <3>1, <3>2, ParsedCall
    <3>5. PICK p, c : p = n + k /\ c = CloseOf(b, k)
      OBVIOUS
    <3>6. text[p] = "open" /\ CloseOf(text, p) = n + c /\ c \in Nat /\ c >= i
      BY <1>2, <3>1, <3>2, <3>3, <3>4, <3>5 DEF SameCall
    <3>7. p \in 1..(q - 1) /\ n + c >= q
      BY <1>1, <1>2, <3>2, <3>5, <3>6
    <3>. QED  BY <3>6, <3>7 DEF Within
  <2>2. ASSUME Within(text, q) PROVE Within(b, i)
    <3>1. PICK p \in 1..(q - 1) : text[p] = "open" /\ CloseOf(text, p) >= q
      BY <2>2 DEF Within
    <3>2. p \in Nat /\ ~(p <= n)
      <4>1. p \in Nat /\ p >= 1
        BY <1>1, <1>2
      <4>2. ASSUME p <= n PROVE FALSE
        <5>1. p \in 1..n
          BY <1>2, <4>1, <4>2
        <5>2. CloseOf(text, p) \in Nat /\ CloseOf(text, p) <= n
          BY <3>1, <5>1 DEF EndsBy
        <5>. QED  BY <1>1, <1>2, <3>1, <5>2
      <4>. QED  BY <4>1, <4>2
    <3>3. PICK k : k = p - n
      OBVIOUS
    <3>4. k \in 1..(i - 1) /\ k \in 1..Len(b) /\ p = n + k /\ k \in Nat
      BY <1>1, <1>2, <3>2, <3>3
    <3>5. b[k] = "open"
      BY <1>2, <3>1, <3>4
    <3>6. SameCall(b, k, text, n)
      BY <3>4, <3>5, PartCalls
    <3>7. CloseOf(b, k) \in (k + 2)..Len(b)
      BY <3>4, <3>5, ParsedCall
    <3>8. PICK c : c = CloseOf(b, k)
      OBVIOUS
    <3>9. c \in Nat /\ n + c >= q
      BY <1>2, <3>1, <3>4, <3>6, <3>7, <3>8 DEF SameCall
    <3>10. c >= i
      BY <1>1, <1>2, <3>9
    <3>. QED  BY <3>4, <3>5, <3>8, <3>10 DEF Within
  <2>3. Within(text, q) <=> Within(b, i)
    BY <2>1, <2>2
  <2>. QED  BY <1>1, <1>2, <1>4, <2>3 DEF TokenMeans
<1>. QED  BY <1>3, <1>4

(* What is needed at i for a text to be parsed. *)
ParsesAt(text, i, funcs) == text[i] = "open" =>
  /\ \E j \in (i + 2)..Len(text) :
       /\ text[j] = "close"
       /\ \A k \in (i + 1)..(j - 1) : text[k] \notin {"open", "close", "break"}
  /\ text[i + 1] \in funcs

(* A text is parsed if it is at every i. *)
LEMMA ParsesIs ==
  ASSUME NEW text, NEW funcs
  PROVE  Parses(text, funcs) <=> \A i \in 1..Len(text) : ParsesAt(text, i, funcs)
BY DEF Parses, ParsesAt

(* A part can be parsed if the text can. *)
LEMMA PartParses ==
  ASSUME NEW V, NEW text \in Seq(V), NEW b \in Seq(V), NEW n, PartOf(b, text, n),
         NEW funcs, Parses(b, funcs), NEW i \in 1..Len(b)
  PROVE  ParsesAt(text, n + i, funcs)
<1>1. PICK q, m, l : q = n + i /\ m = Len(b) /\ l = Len(text)
  OBVIOUS
<1>2. /\ n \in Nat /\ m \in Nat /\ l \in Nat /\ n + m <= l
      /\ \A k \in 1..m : text[n + k] = b[k]
  BY <1>1, SeqIsFunction DEF PartOf
<1> SUFFICES ASSUME text[q] = "open" PROVE ParsesAt(text, q, funcs)
  BY <1>1 DEF ParsesAt
<1>3. b[i] = "open" /\ i \in 1..m
  BY <1>1, <1>2
<1>4. PICK c \in (i + 2)..m :
        b[c] = "close" /\ \A k \in (i + 1)..(c - 1) : b[k] \notin {"open", "close", "break"}
  BY <1>1, <1>3 DEF Parses
<1>5. b[i + 1] \in funcs
  BY <1>1, <1>3 DEF Parses
<1>6. i \in Nat /\ c \in Nat /\ i >= 1 /\ i + 2 <= c /\ c <= m
  BY <1>2, <1>3
<1>7. PICK j : j = n + c
  OBVIOUS
<1>8. text[j] = "close" /\ j \in (q + 2)..l
  <2>1. c \in 1..m /\ j \in (q + 2)..l
    BY <1>1, <1>2, <1>6, <1>7
  <2>. QED  BY <1>2, <1>4, <1>7, <2>1
<1>9. ASSUME NEW k \in (q + 1)..(j - 1) PROVE text[k] \notin {"open", "close", "break"}
  <2>1. PICK d : d = k - n
    OBVIOUS
  <2>2. k = n + d /\ d \in (i + 1)..(c - 1) /\ d \in 1..m
    BY <1>1, <1>2, <1>6, <1>7, <2>1
  <2>3. text[k] = b[d]
    BY <1>2, <2>2
  <2>. QED  BY <1>4, <2>2, <2>3
<1>10. text[q + 1] \in funcs
  <2>1. i + 1 \in 1..m /\ q + 1 = n + (i + 1)
    BY <1>1, <1>2, <1>6
  <2>. QED  BY <1>2, <1>5, <2>1
<1>. QED  BY <1>1, <1>8, <1>9, <1>10 DEF ParsesAt

(* And what the text needs in the part, the part needs. *)
LEMMA ParsesPart ==
  ASSUME NEW V, NEW text \in Seq(V), NEW b \in Seq(V), NEW n, PartOf(b, text, n),
         NEW funcs, Parses(text, funcs),
         n + Len(b) = Len(text) \/ text[n + Len(b) + 1] = "break"
  PROVE  Parses(b, funcs)
<1>1. PICK m, l : m = Len(b) /\ l = Len(text)
  OBVIOUS
<1>2. /\ n \in Nat /\ m \in Nat /\ l \in Nat /\ n + m <= l
      /\ \A k \in 1..m : text[n + k] = b[k]
      /\ n + m = l \/ text[n + m + 1] = "break"
  BY <1>1, SeqIsFunction DEF PartOf
<1>3. ASSUME NEW i \in 1..m, b[i] = "open" PROVE ParsesAt(b, i, funcs)
  <2>1. PICK q : q = n + i
    OBVIOUS
  <2>2. q \in 1..l /\ text[q] = "open" /\ i \in Nat /\ i >= 1 /\ i <= m
    BY <1>2, <1>3, <2>1
  <2>3. PICK j \in (q + 2)..l :
          text[j] = "close" /\ \A k \in (q + 1)..(j - 1) : text[k] \notin {"open", "close", "break"}
    BY <1>1, <2>2 DEF Parses
  <2>4. text[q + 1] \in funcs
    BY <1>1, <2>2 DEF Parses
  <2>5. j \in Nat /\ q + 2 <= j /\ j <= l
    BY <1>2, <2>1, <2>2
  <2>6. j <= n + m
    <3> SUFFICES ASSUME ~(j <= n + m) PROVE FALSE
      OBVIOUS
    <3>1. PICK e : e = n + m + 1
      OBVIOUS
    <3>2. text[e] = "break" /\ e <= j /\ e \in Nat /\ e >= q + 1
      BY <1>2, <2>1, <2>2, <2>5, <3>1
    <3>3. j # e
      BY <2>3, <3>2
    <3>4. e \in (q + 1)..(j - 1)
      BY <2>1, <2>2, <2>5, <3>2, <3>3, <1>2
    <3>. QED  BY <2>3, <3>2, <3>4
  <2>7. PICK c : c = j - n
    OBVIOUS
  <2>8. j = n + c /\ c \in 1..m /\ c \in (i + 2)..m
    BY <1>2, <2>1, <2>2, <2>5, <2>6, <2>7
  <2>9. b[c] = "close"
    BY <1>2, <2>3, <2>8
  <2>10. ASSUME NEW k \in (i + 1)..(c - 1) PROVE b[k] \notin {"open", "close", "break"}
    <3>1. PICK d : d = n + k
      OBVIOUS
    <3>2. d \in (q + 1)..(j - 1) /\ k \in 1..m
      BY <1>2, <2>1, <2>2, <2>8, <3>1
    <3>. QED  BY <1>2, <2>3, <3>1, <3>2
  <2>11. b[i + 1] \in funcs
    <3>1. i + 1 \in 1..m /\ q + 1 = n + (i + 1)
      BY <1>2, <2>1, <2>2, <2>8
    <3>. QED  BY <1>2, <2>4, <3>1
  <2>. QED  BY <1>1, <2>8, <2>9, <2>10, <2>11 DEF ParsesAt
<1>4. \A i \in 1..m : ParsesAt(b, i, funcs)
  BY <1>3 DEF ParsesAt
<1>. QED  BY <1>1, <1>4, ParsesIs

(* a is b, and then c. *)
Links(a, b, c) == a = b \o c

(* Then u, v and w in a row can be taken together either way. *)
LEMMA Chained ==
  ASSUME NEW V, NEW u \in Seq(V), NEW v \in Seq(V), NEW w \in Seq(V),
         NEW a, Links(a, u, v), NEW b, Links(b, v, w), NEW c, Links(c, a, w)
  PROVE  Links(c, u, b)
BY ConcatAssociative DEF Links

(* The texts of a part make a part of the whole. *)
Matches(t, n, s, m) == \A k \in 1..m : t[n + k] = s[k]

(* What a part of the texts is in one follows what is before it. *)
LEMMA FlatPart ==
  ASSUME NEW V, NEW n \in Nat, NEW m \in Nat, NEW l \in Nat, n + m <= l,
         NEW t \in [1..l -> Seq(V)], NEW s \in [1..m -> Seq(V)],
         Matches(t, n, s, m)
  PROVE  Links(Flat(t, n + m), Flat(t, n), Flat(s, m))
         /\ Flat(t, n) \in Seq(V) /\ Flat(s, m) \in Seq(V)
<1>0. \A k \in 1..m : t[n + k] = s[k]
  BY DEF Matches
<1>1. PICK f \in [0..l -> Seq(V)] : Grows(f, t, l)
  BY FlattenPrefix
<1>2. PICK g \in [0..m -> Seq(V)] : Grows(g, s, m)
  BY FlattenPrefix
<1>3. /\ Concatenates(f, t, l) /\ \A k \in 0..l : Flat(t, k) = f[k]
      /\ Concatenates(g, s, m) /\ \A k \in 0..m : Flat(s, k) = g[k]
  BY <1>1, <1>2 DEF Grows, Flat
<1> DEFINE T == {k \in 0..m : f[n + k] = f[n] \o g[k]}
<1>4. 0 \in T
  <2>1. g[0] = <<>>
    BY <1>3 DEF Concatenates
  <2>2. n \in 0..l /\ n + 0 = n
    OBVIOUS
  <2>3. f[n] \o <<>> = f[n]
    <3>1. f[n] \in Seq(V)
      BY <2>2
    <3>. QED  BY <3>1, ConcatEmptySeq
  <2>. QED  BY <2>1, <2>2, <2>3
<1>5. ASSUME NEW k \in 1..m, k - 1 \in T PROVE k \in T
  <2>1. PICK q, p, x : q = n + k /\ p = n + (k - 1) /\ x = k - 1
    OBVIOUS
  <2>2. q \in 1..l /\ p = q - 1 /\ p \in 0..l /\ x \in 0..m /\ n \in 0..l
    BY <2>1
  <2>3. f[q] = f[p] \o t[q] /\ g[k] = g[x] \o s[k]
    BY <1>3, <2>1, <2>2 DEF Concatenates
  <2>4. f[p] = f[n] \o g[x] /\ t[q] = s[k]
    BY <1>0, <1>5, <2>1
  <2>5. f[n] \in Seq(V) /\ g[x] \in Seq(V) /\ s[k] \in Seq(V)
    BY <2>2
  <2>6. Links(f[p], f[n], g[x]) /\ Links(f[q], f[p], s[k]) /\ Links(g[k], g[x], s[k])
    BY <2>3, <2>4 DEF Links
  <2>7. f[q] = f[n] \o g[k]
    <3>1. Links(f[q], f[n], g[k])
      BY <2>5, <2>6, Chained
    <3>. QED  BY <3>1 DEF Links
  <2>8. f[n + k] = f[n] \o g[k] /\ k \in 0..m
    BY <2>1, <2>7
  <2>. QED  BY <2>8
<1>6. m \in T
  <2> HIDE DEF T
  <2>1. 0..m \subseteq T
    BY <1>4, <1>5, Induction
  <2>. QED  BY <2>1
<1>7. f[n + m] = f[n] \o g[m]
  BY <1>6
<1>8. PICK q : q = n + m
  OBVIOUS
<1>9. q \in 0..l /\ n \in 0..l /\ m \in 0..m
  BY <1>8
<1>. QED  BY <1>3, <1>7, <1>8, <1>9 DEF Links

-----------------------------------------------------------------------------
(* Texts with a break between them *)

(* A word, or the break between two texts. *)
Broad == Word \cup {"break"}

(* Two texts with a break between them. *)
Halves(s, a, b) == s = a \o <<"break">> \o b

(* Where the halves are. *)
LEMMA HalvesFacts ==
  ASSUME NEW a \in Seq(Broad), NEW b \in Seq(Broad), NEW s, Halves(s, a, b)
  PROVE  /\ s \in Seq(Broad) /\ Len(a) \in Nat /\ Len(b) \in Nat /\ Len(s) = Len(a) + 1 + Len(b)
         /\ PartOf(a, s, 0) /\ PartOf(b, s, Len(a) + 1)
         /\ s[Len(a) + 1] = "break"
<1>1. PICK mark : mark = "break"
  OBVIOUS
<1>2. mark \in Broad /\ s = a \o <<mark>> \o b
  BY <1>1 DEF Broad, Halves
<1>3. PICK n, x, y : n = Len(s) /\ x = Len(a) /\ y = Len(b)
  OBVIOUS
<1>4. /\ s \in Seq(Broad) /\ n \in Nat /\ x \in Nat /\ y \in Nat
      /\ n = x + 1 + y
      /\ \A i \in 1..x : s[i] = a[i]
      /\ s[x + 1] = mark
      /\ \A i \in 1..y : s[x + 1 + i] = b[i]
  BY <1>2, <1>3, AroundFacts
<1>5. PartOf(a, s, 0)
  <2>1. \A i \in 1..x : 0 + i = i
    BY <1>4
  <2>2. 0 + x <= n
    BY <1>4
  <2>. QED  BY <1>3, <1>4, <2>1, <2>2 DEF PartOf
<1>6. PartOf(b, s, x + 1)
  <2>1. x + 1 \in Nat /\ x + 1 + y <= n
    BY <1>4
  <2>. QED  BY <1>3, <1>4, <2>1 DEF PartOf
<1>. QED  BY <1>1, <1>3, <1>4, <1>5, <1>6

(* Both halves can be parsed if the whole can, and the whole if both can. *)
LEMMA HalvesParse ==
  ASSUME NEW a \in Seq(Broad), NEW b \in Seq(Broad), NEW s, Halves(s, a, b), NEW funcs
  PROVE  Parses(s, funcs) <=> Parses(a, funcs) /\ Parses(b, funcs)
<1>1. PICK n, x, y, z : n = Len(s) /\ x = Len(a) /\ y = Len(b) /\ z = x + 1
  OBVIOUS
<1>2. /\ s \in Seq(Broad) /\ n \in Nat /\ x \in Nat /\ y \in Nat /\ z \in Nat /\ n = z + y
      /\ PartOf(a, s, 0) /\ PartOf(b, s, z) /\ s[z] = "break"
  BY <1>1, HalvesFacts
<1>3. ASSUME Parses(s, funcs) PROVE Parses(a, funcs)
  <2>1. s[0 + x + 1] = "break"
    <3>1. 0 + x + 1 = z
      BY <1>1, <1>2
    <3>. QED  BY <1>2, <3>1
  <2>. QED  BY <1>1, <1>2, <1>3, <2>1, ParsesPart
<1>4. ASSUME Parses(s, funcs) PROVE Parses(b, funcs)
  BY <1>1, <1>2, <1>4, ParsesPart
<1>5. ASSUME Parses(a, funcs), Parses(b, funcs) PROVE Parses(s, funcs)
  <2>1. ASSUME NEW q \in 1..n PROVE ParsesAt(s, q, funcs)
    <3>1. CASE q <= x
      <4>1. q \in 1..x /\ 0 + q = q
        BY <1>2, <3>1
      <4>2. ParsesAt(s, 0 + q, funcs)
        BY <1>1, <1>2, <1>5, <4>1, PartParses
      <4>. QED  BY <4>1, <4>2
    <3>2. CASE q = z
      BY <1>2, <3>2 DEF ParsesAt
    <3>3. CASE q > z
      <4>1. PICK i : i = q - z
        OBVIOUS
      <4>2. i \in 1..y /\ z + i = q
        BY <1>2, <3>3, <4>1
      <4>3. ParsesAt(s, z + i, funcs)
        BY <1>1, <1>2, <1>5, <4>2, PartParses
      <4>. QED  BY <4>2, <4>3
    <3>. QED  BY <1>1, <1>2, <3>1, <3>2, <3>3
  <2>. QED  BY <1>1, <2>1, ParsesIs
<1>. QED  BY <1>3, <1>4, <1>5

(* What they mean, token by token. *)
SameTokens(s, a, b, dir, tree, funcs, below) ==
  /\ \A i \in 1..Len(a) : TokenMeans(s, i, dir, tree, funcs, below)
                           = TokenMeans(a, i, dir, tree, funcs, below)
  /\ TokenMeans(s, Len(a) + 1, dir, tree, funcs, below) = Something(<<"break">>)
  /\ \A i \in 1..Len(b) : TokenMeans(s, Len(a) + 1 + i, dir, tree, funcs, below)
                           = TokenMeans(b, i, dir, tree, funcs, below)

(* A token means what it means in its half. *)
LEMMA HalvesTokens ==
  ASSUME NEW a \in Seq(Broad), NEW b \in Seq(Broad), NEW s, Halves(s, a, b),
         NEW funcs, Parses(s, BuiltIns \cup DOMAIN funcs), NEW dir, NEW tree, NEW below
  PROVE  SameTokens(s, a, b, dir, tree, funcs, below)
<1>1. PICK n, x, y, z : n = Len(s) /\ x = Len(a) /\ y = Len(b) /\ z = x + 1
  OBVIOUS
<1>2. /\ s \in Seq(Broad) /\ n \in Nat /\ x \in Nat /\ y \in Nat /\ z \in Nat /\ n = z + y
      /\ PartOf(a, s, 0) /\ PartOf(b, s, z) /\ s[z] = "break"
  BY <1>1, HalvesFacts
<1>3. Parses(a, BuiltIns \cup DOMAIN funcs) /\ Parses(b, BuiltIns \cup DOMAIN funcs)
  BY HalvesParse
<1>4. EndsBy(s, 0)
  BY DEF EndsBy
<1>5. ASSUME NEW k \in 1..x, s[k] = "open"
      PROVE  CloseOf(s, k) \in Nat /\ CloseOf(s, k) <= x
  <2>1. 0 + k = k /\ k \in 1..Len(a) /\ k \in Nat
    BY <1>1, <1>2
  <2>2. a[k] = "open"
    BY <1>2, <1>5, <2>1 DEF PartOf
  <2>3. SameCall(a, k, s, 0)
    BY <1>2, <1>3, <2>1, <2>2, PartCalls
  <2>4. CloseOf(a, k) \in (k + 2)..Len(a)
    BY <1>3, <2>1, <2>2, ParsedCall
  <2>5. PICK c : c = CloseOf(a, k)
    OBVIOUS
  <2>6. CloseOf(s, k) = 0 + c
    BY <2>1, <2>3, <2>5 DEF SameCall
  <2>. QED  BY <1>1, <1>2, <2>1, <2>4, <2>5, <2>6
<1>6. EndsBy(s, z)
  <2>1. ASSUME NEW k \in 1..z, s[k] = "open"
        PROVE  CloseOf(s, k) \in Nat /\ CloseOf(s, k) <= z
    <3>1. k # z
      BY <1>2, <2>1
    <3>2. k \in 1..x
      BY <1>1, <1>2, <3>1
    <3>3. PICK c : c = CloseOf(s, k)
      OBVIOUS
    <3>4. c \in Nat /\ c <= x
      BY <1>5, <2>1, <3>2, <3>3
    <3>. QED  BY <1>1, <1>2, <3>3, <3>4
  <2>. QED  BY <2>1 DEF EndsBy
<1>7. ASSUME NEW i \in 1..x
      PROVE  TokenMeans(s, i, dir, tree, funcs, below) = TokenMeans(a, i, dir, tree, funcs, below)
  <2>1. 0 + i = i
    BY <1>2
  <2>2. TokenMeans(s, 0 + i, dir, tree, funcs, below) = TokenMeans(a, i, dir, tree, funcs, below)
    BY <1>1, <1>2, <1>3, <1>4, PartTokens
  <2>. QED  BY <2>1, <2>2
<1>8. ASSUME NEW i \in 1..y
      PROVE  TokenMeans(s, z + i, dir, tree, funcs, below) = TokenMeans(b, i, dir, tree, funcs, below)
  BY <1>1, <1>2, <1>3, <1>6, PartTokens
<1>9. TokenMeans(s, z, dir, tree, funcs, below) = Something(<<"break">>)
  <2>1. ASSUME NEW q \in 1..(z - 1), s[q] = "open"
        PROVE  CloseOf(s, q) < z /\ CloseOf(s, q) \in Int
    <3>1. q \in 1..x
      BY <1>1, <1>2
    <3>2. PICK c : c = CloseOf(s, q)
      OBVIOUS
    <3>3. c \in Nat /\ c <= x
      BY <1>5, <2>1, <3>1, <3>2
    <3>. QED  BY <1>1, <1>2, <3>2, <3>3
  <2>2. TokenMeans(s, z, dir, tree, funcs, below) = Something(<<s[z]>>)
    <3>1. z \in Int /\ s[z] # "open"
      BY <1>2
    <3>. QED  BY <2>1, <3>1, CopyTokens
  <2>. QED  BY <1>2, <2>2
<1>. QED  BY <1>1, <1>7, <1>8, <1>9 DEF SameTokens

(* What two texts with a break between them mean. *)
MeansBoth(m, a, b) == m.ok = (a.ok /\ b.ok) /\ (m.ok => Halves(m.out, a.out, b.out))

(* Files and functions, as they may be called. *)
World(tree, funcs, below) ==
  /\ tree \in [DOMAIN tree -> Text]
  /\ funcs \in [DOMAIN funcs -> Seq(Resource)]
  /\ below \in [DOMAIN below -> Meanings]

(* All of the whole means something if all of both halves does. *)
LEMMA HalvesAllOk ==
  ASSUME NEW a \in Seq(Broad), NEW b \in Seq(Broad), NEW s, Halves(s, a, b),
         NEW funcs, Parses(s, BuiltIns \cup DOMAIN funcs), NEW dir, NEW tree, NEW below
  PROVE  AllOk(s, Len(s), dir, tree, funcs, below) <=>
           /\ AllOk(a, Len(a), dir, tree, funcs, below)
           /\ AllOk(b, Len(b), dir, tree, funcs, below)
<1>1. PICK n, x, y, z : n = Len(s) /\ x = Len(a) /\ y = Len(b) /\ z = x + 1
  OBVIOUS
<1>2. n \in Nat /\ x \in Nat /\ y \in Nat /\ z \in Nat /\ n = z + y
  BY <1>1, HalvesFacts
<1> DEFINE token(text, i) == TokenMeans(text, i, dir, tree, funcs, below)
<1>3. /\ \A i \in 1..x : token(s, i) = token(a, i)
      /\ token(s, z) = Something(<<"break">>)
      /\ \A i \in 1..y : token(s, z + i) = token(b, i)
  <2>1. SameTokens(s, a, b, dir, tree, funcs, below)
    BY HalvesTokens
  <2>. QED  BY <1>1, <2>1 DEF SameTokens
<1> HIDE DEF token
<1>4. ASSUME \A i \in 1..n : token(s, i).ok
      PROVE  (\A i \in 1..x : token(a, i).ok) /\ \A i \in 1..y : token(b, i).ok
  <2>1. ASSUME NEW i \in 1..x PROVE token(a, i).ok
    <3>1. i \in 1..n
      BY <1>1, <1>2
    <3>. QED  BY <1>3, <1>4, <3>1
  <2>2. ASSUME NEW i \in 1..y PROVE token(b, i).ok
    <3>1. PICK q : q = z + i
      OBVIOUS
    <3>2. q \in 1..n
      BY <1>1, <1>2, <3>1
    <3>. QED  BY <1>3, <1>4, <3>1, <3>2
  <2>. QED  BY <2>1, <2>2
<1>5. ASSUME \A i \in 1..x : token(a, i).ok, \A i \in 1..y : token(b, i).ok
      PROVE  \A i \in 1..n : token(s, i).ok
  <2> SUFFICES ASSUME NEW q \in 1..n PROVE token(s, q).ok
    OBVIOUS
  <2>1. CASE q <= x
    <3>1. q \in 1..x
      BY <1>2, <2>1
    <3>. QED  BY <1>3, <1>5, <3>1
  <2>2. CASE q = z
    BY <1>3, <2>2 DEF Something
  <2>3. CASE q > z
    <3>1. PICK i : i = q - z
      OBVIOUS
    <3>2. i \in 1..y /\ z + i = q
      BY <1>2, <2>3, <3>1
    <3>. QED  BY <1>3, <1>5, <3>2
  <2>. QED  BY <1>1, <1>2, <2>1, <2>2, <2>3
<1>. QED  BY <1>1, <1>4, <1>5 DEF AllOk, token

(* What comes out of the whole is what comes out of the halves, in halves. *)
LEMMA HalvesOuts ==
  ASSUME NEW a \in Seq(Broad), NEW b \in Seq(Broad), NEW s, Halves(s, a, b),
         NEW funcs, Parses(s, BuiltIns \cup DOMAIN funcs), NEW dir, NEW tree, NEW below,
         World(tree, funcs, below)
  PROVE  Halves(FlattenSeq(Outs(s, Len(s), dir, tree, funcs, below)),
                FlattenSeq(Outs(a, Len(a), dir, tree, funcs, below)),
                FlattenSeq(Outs(b, Len(b), dir, tree, funcs, below)))
<1>1. PICK n, x, y, z : n = Len(s) /\ x = Len(a) /\ y = Len(b) /\ z = x + 1
  OBVIOUS
<1>2. n \in Nat /\ x \in Nat /\ y \in Nat /\ z \in Nat /\ n = z + y /\ s \in Seq(Broad)
  BY <1>1, HalvesFacts
<1>3. Parses(a, BuiltIns \cup DOMAIN funcs) /\ Parses(b, BuiltIns \cup DOMAIN funcs)
  BY HalvesParse
<1>4. /\ Ready(s, Broad, tree, funcs, below) /\ Ready(a, Broad, tree, funcs, below)
      /\ Ready(b, Broad, tree, funcs, below)
  BY <1>2, <1>3 DEF Ready, World, Broad
<1>5. PICK t, u, v : /\ t = Outs(s, n, dir, tree, funcs, below)
                     /\ u = Outs(a, x, dir, tree, funcs, below)
                     /\ v = Outs(b, y, dir, tree, funcs, below)
  OBVIOUS
<1>6. /\ Gives(n, t, s, Broad, dir, tree, funcs, below)
      /\ Gives(x, u, a, Broad, dir, tree, funcs, below)
      /\ Gives(y, v, b, Broad, dir, tree, funcs, below)
  BY <1>1, <1>4, <1>5, ReadyOuts
<1>7. /\ t \in [1..n -> Seq(Broad)] /\ u \in [1..x -> Seq(Broad)] /\ v \in [1..y -> Seq(Broad)]
      /\ FlattenSeq(t) = Flat(t, n) /\ FlattenSeq(u) = Flat(u, x) /\ FlattenSeq(v) = Flat(v, y)
  <2>1. n \in 0..n /\ x \in 0..x /\ y \in 0..y
    BY <1>2
  <2>. QED  BY <1>5, <1>6, <2>1 DEF Gives
<1>8. /\ \A i \in 1..x : t[i] = u[i]
      /\ t[z] = <<"break">>
      /\ \A i \in 1..y : t[z + i] = v[i]
  <2>1. /\ \A i \in 1..n : t[i] = TokenMeans(s, i, dir, tree, funcs, below).out
        /\ \A i \in 1..x : u[i] = TokenMeans(a, i, dir, tree, funcs, below).out
        /\ \A i \in 1..y : v[i] = TokenMeans(b, i, dir, tree, funcs, below).out
    BY <1>6 DEF Gives
  <2>2. /\ \A i \in 1..x : TokenMeans(s, i, dir, tree, funcs, below)
                            = TokenMeans(a, i, dir, tree, funcs, below)
        /\ TokenMeans(s, z, dir, tree, funcs, below) = Something(<<"break">>)
        /\ \A i \in 1..y : TokenMeans(s, z + i, dir, tree, funcs, below)
                            = TokenMeans(b, i, dir, tree, funcs, below)
    <3>1. SameTokens(s, a, b, dir, tree, funcs, below)
      BY HalvesTokens
    <3>. QED  BY <1>1, <3>1 DEF SameTokens
  <2>3. \A i \in 1..x : i \in 1..n
    BY <1>1, <1>2
  <2>4. \A i \in 1..y : z + i \in 1..n
    BY <1>1, <1>2
  <2>5. z \in 1..n
    BY <1>1, <1>2
  <2>. QED  BY <2>1, <2>2, <2>3, <2>4, <2>5 DEF Something
<1>9. Flat(t, x) = Flat(u, x)
  <2>1. Matches(t, 0, u, x)
    <3>1. \A k \in 1..x : 0 + k = k
      BY <1>2
    <3>. QED  BY <1>8, <3>1 DEF Matches
  <2>2. 0 + x <= n /\ 0 + x = x
    BY <1>1, <1>2
  <2>3. /\ Flat(t, 0 + x) = Flat(t, 0) \o Flat(u, x) /\ Flat(u, x) \in Seq(Broad)
    <3>1. Links(Flat(t, 0 + x), Flat(t, 0), Flat(u, x)) /\ Flat(u, x) \in Seq(Broad)
      BY <1>2, <1>7, <2>1, <2>2, FlatPart
    <3>. QED  BY <3>1 DEF Links
  <2>4. Flat(t, 0) = <<>>
    <3>1. PICK f \in [0..n -> Seq(Broad)] : Grows(f, t, n)
      BY <1>2, <1>7, FlattenPrefix
    <3>2. 0 \in 0..n
      BY <1>2
    <3>. QED  BY <3>1, <3>2 DEF Grows, Concatenates, Flat
  <2>5. <<>> \o Flat(u, x) = Flat(u, x)
    BY <2>3, ConcatEmptySeq
  <2>. QED  BY <2>2, <2>3, <2>4, <2>5
<1>10. Flat(t, z) = Flat(u, x) \o <<"break">>
  <2>1. z \in 1..n /\ z - 1 = x
    BY <1>1, <1>2
  <2>2. Flat(t, z) = Flat(t, z - 1) \o t[z]
    <3>2. n \in Nat /\ t \in [1..n -> Seq(Broad)]
      BY <1>2, <1>7
    <3>. QED  BY <2>1, <3>2, FlatGrows
  <2>. QED  BY <1>8, <1>9, <2>1, <2>2
<1>11. Flat(t, n) = Flat(t, z) \o Flat(v, y)
  <2>1. z + y <= n
    BY <1>2
  <2>2. Flat(t, z + y) = Flat(t, z) \o Flat(v, y)
    <3>1. Matches(t, z, v, y)
      BY <1>8 DEF Matches
    <3>2. Links(Flat(t, z + y), Flat(t, z), Flat(v, y))
      BY <1>2, <1>7, <2>1, <3>1, FlatPart
    <3>. QED  BY <3>2 DEF Links
  <2>. QED  BY <1>2, <2>2
<1>12. Halves(FlattenSeq(t), FlattenSeq(u), FlattenSeq(v))
  BY <1>7, <1>10, <1>11 DEF Halves
<1>. QED  BY <1>1, <1>5, <1>12

(* The whole means what its halves mean, in halves. *)
LEMMA HalvesMean ==
  ASSUME NEW a \in Seq(Broad), NEW b \in Seq(Broad), NEW s, Halves(s, a, b),
         NEW dir, NEW tree, NEW funcs, NEW below, World(tree, funcs, below)
  PROVE  MeansBoth(Means(s, dir, tree, funcs, below), Means(a, dir, tree, funcs, below),
                   Means(b, dir, tree, funcs, below))
<1>1. s \in Seq(Broad)
  BY HalvesFacts
<1> DEFINE Good(text) == /\ Parses(text, BuiltIns \cup DOMAIN funcs)
                         /\ AllOk(text, Len(text), dir, tree, funcs, below)
           outs(text) == FlattenSeq(Outs(text, Len(text), dir, tree, funcs, below))
           means(text) == Means(text, dir, tree, funcs, below)
<1>2. ASSUME NEW text \in Seq(Broad)
      PROVE  means(text) = IF Good(text) THEN Something(outs(text)) ELSE Nothing
  BY MeansIs
<1>3. Good(s) <=> Good(a) /\ Good(b)
  <2>1. CASE Parses(s, BuiltIns \cup DOMAIN funcs)
    BY <2>1, HalvesParse, HalvesAllOk
  <2>2. CASE ~Parses(s, BuiltIns \cup DOMAIN funcs)
    BY <2>2, HalvesParse
  <2>. QED  BY <2>1, <2>2
<1>4. Good(s) => Halves(outs(s), outs(a), outs(b))
  BY HalvesOuts
<1> HIDE DEF Good, outs, means
<1>5. /\ \A out : Something(out).ok = TRUE /\ Something(out).out = out
      /\ Nothing.ok = FALSE
  BY DEF Something, Nothing
<1>6. MeansBoth(means(s), means(a), means(b))
  <2>1. CASE Good(s)
    <3>1. means(s) = Something(outs(s)) /\ means(a) = Something(outs(a)) /\ means(b) = Something(outs(b))
      BY <1>1, <1>2, <1>3, <2>1
    <3>. QED  BY <1>4, <1>5, <2>1, <3>1 DEF MeansBoth
  <2>2. CASE ~Good(s)
    <3>1. means(s) = Nothing /\ (means(a) = Nothing \/ means(b) = Nothing)
      BY <1>1, <1>2, <1>3, <2>2
    <3>2. means(a).ok \in BOOLEAN /\ means(b).ok \in BOOLEAN
      BY <1>2, <1>5
    <3>3. means(s).ok = FALSE /\ (means(a).ok = FALSE \/ means(b).ok = FALSE)
      BY <1>5, <3>1
    <3>. QED  BY <3>2, <3>3 DEF MeansBoth
  <2>. QED  BY <2>1, <2>2
<1>. QED  BY <1>6 DEF means

(* The first k of a sequence. *)
First(s, k) == [i \in 1..k |-> s[i]]

(* They are a sequence. *)
LEMMA FirstFacts ==
  ASSUME NEW V, NEW s \in Seq(V), NEW k \in 1..Len(s)
  PROVE  First(s, k) \in Seq(V) /\ Len(First(s, k)) = k /\ First(s, k) # <<>>
<1>1. \A i \in 1..Len(s) : s[i] \in V
  BY SeqIsFunction
<1>2. k \in Nat /\ k >= 1 /\ \A i \in 1..k : i \in 1..Len(s)
  BY LenProperties
<1>3. First(s, k) \in [1..k -> V]
  BY <1>1, <1>2 DEF First
<1>4. First(s, k) \in Seq(V) /\ Len(First(s, k)) = k
  BY <1>2, <1>3
<1>5. First(s, k) # <<>>
  <2>1. Len(<<>>) = 0
    OBVIOUS
  <2>. QED  BY <1>2, <1>4, <2>1
<1>. QED  BY <1>4, <1>5

(* The first one. *)
LEMMA FirstOne ==
  ASSUME NEW V, NEW s \in Seq(V), 1 <= Len(s)
  PROVE  First(s, 1) = <<s[1]>>
<1>1. 1 \in 1..Len(s) /\ s[1] \in V
  BY LenProperties
<1>2. First(s, 1) \in Seq(V) /\ Len(First(s, 1)) = 1
  BY <1>1, FirstFacts
<1>3. <<s[1]>> \in Seq(V) /\ Len(<<s[1]>>) = 1
  BY <1>1
<1>4. \A i \in 1..1 : First(s, 1)[i] = <<s[1]>>[i]
  BY DEF First
<1> DEFINE a == First(s, 1)
           b == <<s[1]>>
<1> HIDE DEF a, b
<1>5. /\ a \in Seq(V) /\ b \in Seq(V) /\ Len(a) = Len(b) /\ Len(a) = 1
      /\ \A i \in 1..1 : a[i] = b[i]
  BY <1>2, <1>3, <1>4 DEF a, b
<1>6. a = b
  BY <1>5, SameSequence
<1>. QED  BY <1>6 DEF a, b

(* One more. *)
LEMMA FirstGrows ==
  ASSUME NEW V, NEW s \in Seq(V), NEW k \in 1..(Len(s) - 1)
  PROVE  First(s, k + 1) = Append(First(s, k), s[k + 1])
<1>1. PICK j : j = k + 1
  OBVIOUS
<1>2. k \in 1..Len(s) /\ j \in 1..Len(s) /\ k \in Nat /\ s[j] \in V
  BY <1>1, SeqIsFunction
<1>3. PICK a, b, c : a = First(s, k) /\ b = First(s, j) /\ c = Append(a, s[j])
  OBVIOUS
<1>4. a \in Seq(V) /\ Len(a) = k /\ b \in Seq(V) /\ Len(b) = j
  BY <1>2, <1>3, FirstFacts
<1>5. c \in Seq(V) /\ Len(c) = j /\ c[j] = s[j] /\ \A i \in 1..k : c[i] = a[i]
  BY <1>1, <1>2, <1>3, <1>4
<1>6. (\A i \in 1..k : a[i] = s[i]) /\ \A i \in 1..j : b[i] = s[i]
  BY <1>3 DEF First
<1>7. \A i \in 1..j : b[i] = c[i]
  <2>1. \A i \in 1..j : i \in 1..k \/ i = j
    BY <1>1, <1>2
  <2>. QED  BY <1>5, <1>6, <2>1
<1>8. b = c
  BY <1>4, <1>5, <1>7, SameSequence
<1>. QED  BY <1>1, <1>3, <1>8

(* All of them. *)
LEMMA FirstAll ==
  ASSUME NEW V, NEW s \in Seq(V)
  PROVE  First(s, Len(s)) = s
<1>1. s \in [1..Len(s) -> V]
  BY SeqIsFunction
<1>. QED  BY <1>1 DEF First

(* The texts joined are those before the last, and the last, in halves. *)
LEMMA JoinHalves ==
  ASSUME NEW parts \in Seq(Seq(Broad)), parts # <<>>, NEW b \in Seq(Broad),
         NEW q, q = Append(parts, b)
  PROVE  /\ Halves(Join(q, "break"), Join(parts, "break"), b)
         /\ Join(parts, "break") \in Seq(Broad)
<1>1. PICK mark : mark = "break"
  OBVIOUS
<1>2. mark \in Broad
  BY <1>1 DEF Broad
<1>3. Join(Append(parts, b), mark) = Join(parts, mark) \o <<mark>> \o b
  BY <1>2, JoinAppend
<1>4. Join(parts, mark) \in Seq(Broad)
  BY <1>2, JoinFacts
<1>. QED  BY <1>1, <1>3, <1>4 DEF Halves

(* The first k of the texts, joined, mean what they mean, joined.          *)
UpTo(k, P, R, dir, tree, funcs, below) ==
  LET m == Means(Join(First(P, k), "break"), dir, tree, funcs, below) IN
  /\ m.ok <=> \A i \in 1..k : Means(P[i], dir, tree, funcs, below).ok
  /\ m.ok => m.out = Join(First(R, k), "break")

(* What comes out of the texts. *)
OutsOf(R, P, dir, tree, funcs, below) ==
  Len(R) = Len(P) /\ \A i \in 1..Len(P) : R[i] = Means(P[i], dir, tree, funcs, below).out

(* One text means what it means. *)
LEMMA UpToOne ==
  ASSUME NEW P \in Seq(Text), P # <<>>, NEW R \in Seq(Text),
         NEW dir, NEW tree, NEW funcs, NEW below, OutsOf(R, P, dir, tree, funcs, below)
  PROVE  UpTo(1, P, R, dir, tree, funcs, below)
<1>1. Len(P) \in Nat /\ Len(P) >= 1 /\ Len(R) = Len(P)
  BY DEF OutsOf
<1>2. PICK mark : mark = "break"
  OBVIOUS
<1>3. Text \subseteq Seq(Broad) /\ mark \in Broad
  BY <1>2, SeqMonotonic DEF Text, Broad
<1>4. 1 \in 1..Len(P) /\ P[1] \in Seq(Broad) /\ R[1] \in Seq(Broad)
  BY <1>1, <1>3, SeqIsFunction
<1>5. Join(First(P, 1), mark) = P[1]
  <2>1. First(P, 1) = <<P[1]>>
    BY <1>1, FirstOne
  <2>2. Join(<<P[1]>>, mark) = P[1]
    BY <1>3, <1>4, JoinOne
  <2>. QED  BY <2>1, <2>2
<1>6. Join(First(R, 1), mark) = R[1]
  <2>1. First(R, 1) = <<R[1]>>
    BY <1>1, FirstOne
  <2>2. Join(<<R[1]>>, mark) = R[1]
    BY <1>3, <1>4, JoinOne
  <2>. QED  BY <2>1, <2>2
<1>7. R[1] = Means(P[1], dir, tree, funcs, below).out
  BY <1>4 DEF OutsOf
<1>8. (\A i \in 1..1 : Means(P[i], dir, tree, funcs, below).ok)
        <=> Means(P[1], dir, tree, funcs, below).ok
  OBVIOUS
<1>. QED  BY <1>2, <1>5, <1>6, <1>7, <1>8 DEF UpTo

(* With one more text, what it means is added. *)
LEMMA UpToNext ==
  ASSUME NEW P \in Seq(Text), NEW R \in Seq(Text),
         NEW dir, NEW tree, NEW funcs, NEW below, OutsOf(R, P, dir, tree, funcs, below),
         World(tree, funcs, below),
         NEW k \in 1..(Len(P) - 1), UpTo(k, P, R, dir, tree, funcs, below)
  PROVE  UpTo(k + 1, P, R, dir, tree, funcs, below)
<1>1. PICK j : j = k + 1
  OBVIOUS
<1>2. /\ Len(P) \in Nat /\ Len(R) = Len(P) /\ k \in Nat /\ k \in 1..Len(P) /\ j \in 1..Len(P)
      /\ k \in 1..(Len(R) - 1)
  BY <1>1, LenProperties DEF OutsOf
<1>3. Text \subseteq Seq(Broad)
  BY SeqMonotonic DEF Text, Broad
<1>4. P[j] \in Seq(Broad) /\ R[j] \in Seq(Broad)
  BY <1>2, <1>3, SeqIsFunction
<1>5. PICK p, q, r, t : p = First(P, k) /\ q = First(P, j) /\ r = First(R, k) /\ t = First(R, j)
  OBVIOUS
<1>6. q = Append(p, P[j]) /\ t = Append(r, R[j])
  BY <1>1, <1>2, <1>5, FirstGrows
<1>7. p \in Seq(Seq(Broad)) /\ p # <<>> /\ r \in Seq(Seq(Broad)) /\ r # <<>>
  <2>1. p \in Seq(Text) /\ p # <<>> /\ r \in Seq(Text) /\ r # <<>>
    BY <1>2, <1>5, FirstFacts
  <2>. QED  BY <1>3, <2>1, SeqMonotonic
<1>8. PICK x, y, b, w, z, c : /\ x = Join(p, "break") /\ y = Join(q, "break") /\ b = P[j]
                              /\ w = Join(r, "break") /\ z = Join(t, "break") /\ c = R[j]
  OBVIOUS
<1>9. /\ Halves(y, x, b) /\ x \in Seq(Broad) /\ b \in Seq(Broad)
      /\ Halves(z, w, c)
  BY <1>4, <1>6, <1>7, <1>8, JoinHalves
<1>10. PICK m, l, o : /\ m = Means(x, dir, tree, funcs, below)
                      /\ l = Means(y, dir, tree, funcs, below)
                      /\ o = Means(b, dir, tree, funcs, below)
  OBVIOUS
<1>11. MeansBoth(l, m, o)
  BY <1>9, <1>10, HalvesMean
<1>12. /\ m.ok <=> \A i \in 1..k : Means(P[i], dir, tree, funcs, below).ok
       /\ m.ok => m.out = w
  BY <1>5, <1>8, <1>10 DEF UpTo
<1>13. c = o.out
  BY <1>2, <1>8, <1>10 DEF OutsOf
<1>14. l.ok <=> \A i \in 1..j : Means(P[i], dir, tree, funcs, below).ok
  <2>1. l.ok <=> m.ok /\ o.ok
    BY <1>11 DEF MeansBoth
  <2>2. \A i \in 1..j : i \in 1..k \/ i = j
    BY <1>1, <1>2
  <2>3. j \in 1..j /\ \A i \in 1..k : i \in 1..j
    BY <1>1, <1>2
  <2>. QED  BY <1>8, <1>10, <1>12, <2>1, <2>2, <2>3
<1>15. l.ok => l.out = z
  BY <1>9, <1>11, <1>12, <1>13 DEF MeansBoth, Halves
<1>16. UpTo(j, P, R, dir, tree, funcs, below)
  BY <1>5, <1>8, <1>10, <1>14, <1>15 DEF UpTo
<1>. QED  BY <1>1, <1>16

(* Texts joined mean what each of them means, joined, if each of them does. *)
JoinedAs(m, P, R, dir, tree, funcs, below) ==
  /\ m.ok <=> \A i \in 1..Len(P) : Means(P[i], dir, tree, funcs, below).ok
  /\ m.ok => m.out = Join(R, "break")

(* By induction, they do. *)
LEMMA JoinedMean ==
  ASSUME NEW P \in Seq(Text), P # <<>>, NEW R \in Seq(Text),
         NEW dir, NEW tree, NEW funcs, NEW below, OutsOf(R, P, dir, tree, funcs, below),
         World(tree, funcs, below)
  PROVE  JoinedAs(Means(Join(P, "break"), dir, tree, funcs, below), P, R, dir, tree, funcs, below)
<1> DEFINE T == {k \in 0..(Len(P) - 1) : UpTo(k + 1, P, R, dir, tree, funcs, below)}
           n == Len(P)
<1>1. n \in Nat /\ n >= 1 /\ Len(R) = n /\ n - 1 \in Nat
  BY DEF OutsOf
<1>2. 0 \in T
  <2>1. 0 + 1 = 1 /\ 0 \in 0..(n - 1)
    BY <1>1
  <2>2. UpTo(1, P, R, dir, tree, funcs, below)
    BY UpToOne
  <2>. QED  BY <2>1, <2>2
<1>3. ASSUME NEW k \in 1..(n - 1), k - 1 \in T PROVE k \in T
  <2>1. k - 1 + 1 = k /\ k \in 0..(n - 1)
    BY <1>1
  <2>2. UpTo(k, P, R, dir, tree, funcs, below)
    <3>1. UpTo(k - 1 + 1, P, R, dir, tree, funcs, below)
      BY <1>3
    <3>. QED  BY <2>1, <3>1
  <2>3. UpTo(k + 1, P, R, dir, tree, funcs, below)
    BY <2>2, UpToNext
  <2>. QED  BY <2>1, <2>3
<1>4. n - 1 \in T
  <2> HIDE DEF T, n
  <2>1. 0..(n - 1) \subseteq T
    BY <1>1, <1>2, <1>3, Induction
  <2>. QED  BY <1>1, <2>1
<1>5. UpTo(n, P, R, dir, tree, funcs, below)
  <2>1. n - 1 + 1 = n
    BY <1>1
  <2>2. UpTo(n - 1 + 1, P, R, dir, tree, funcs, below)
    BY <1>4
  <2>. QED  BY <2>1, <2>2
<1>6. First(P, n) = P /\ First(R, n) = R
  BY <1>1, FirstAll
<1>. QED  BY <1>5, <1>6 DEF UpTo, JoinedAs

-----------------------------------------------------------------------------
(* The locations of the states *)

(* A text can be decoded if no quotation mark is left in it. *)
LEMMA DecodesIs ==
  ASSUME NEW V, NEW s \in Seq(V)
  PROVE  Decodes(s) <=> \A i \in 1..Len(s) : s[i] # "quote"
<1>1. DOMAIN s = 1..Len(s)
  BY SeqIsFunction
<1>. QED  BY <1>1 DEF Decodes, ToSet

(* A text in two halves can be decoded if both of them can. *)
LEMMA HalvesDecode ==
  ASSUME NEW a \in Seq(Broad), NEW b \in Seq(Broad), NEW s, Halves(s, a, b)
  PROVE  Decodes(s) <=> Decodes(a) /\ Decodes(b)
<1>1. PICK n, x, y, z : n = Len(s) /\ x = Len(a) /\ y = Len(b) /\ z = x + 1
  OBVIOUS
<1>2. /\ s \in Seq(Broad) /\ n \in Nat /\ x \in Nat /\ y \in Nat /\ z \in Nat /\ n = z + y
      /\ PartOf(a, s, 0) /\ PartOf(b, s, z) /\ s[z] = "break"
  BY <1>1, HalvesFacts
<1>3. /\ \A i \in 1..x : s[i] = a[i]
      /\ \A i \in 1..y : s[z + i] = b[i]
  <2>1. \A i \in 1..x : s[0 + i] = a[i]
    BY <1>1, <1>2 DEF PartOf
  <2>2. \A i \in 1..x : 0 + i = i
    BY <1>2
  <2>. QED  BY <1>1, <1>2, <2>1, <2>2 DEF PartOf
<1>4. ASSUME \A i \in 1..n : s[i] # "quote"
      PROVE  (\A i \in 1..x : a[i] # "quote") /\ \A i \in 1..y : b[i] # "quote"
  <2>1. ASSUME NEW i \in 1..x PROVE a[i] # "quote"
    <3>1. i \in 1..n
      BY <1>1, <1>2
    <3>. QED  BY <1>3, <1>4, <3>1
  <2>2. ASSUME NEW i \in 1..y PROVE b[i] # "quote"
    <3>1. PICK q : q = z + i
      OBVIOUS
    <3>2. q \in 1..n
      BY <1>1, <1>2, <3>1
    <3>. QED  BY <1>3, <1>4, <3>1, <3>2
  <2>. QED  BY <2>1, <2>2
<1>5. ASSUME \A i \in 1..x : a[i] # "quote", \A i \in 1..y : b[i] # "quote", NEW q \in 1..n
      PROVE  s[q] # "quote"
  <2>1. CASE q <= x
    <3>1. q \in 1..x
      BY <1>2, <2>1
    <3>. QED  BY <1>3, <1>5, <3>1
  <2>2. CASE q = z
    BY <1>2, <2>2
  <2>3. CASE q > z
    <3>1. PICK i : i = q - z
      OBVIOUS
    <3>2. i \in 1..y /\ z + i = q
      BY <1>2, <2>3, <3>1
    <3>. QED  BY <1>3, <1>5, <3>2
  <2>. QED  BY <1>1, <1>2, <2>1, <2>2, <2>3
<1>. QED  BY <1>1, <1>2, <1>4, <1>5, DecodesIs

(* The first k texts can be decoded if each of them can. *)
DecodesUpTo(k, R) ==
  Decodes(Join(First(R, k), "break")) <=> \A i \in 1..k : Decodes(R[i])

(* So can all of them. *)
LEMMA JoinDecodes ==
  ASSUME NEW R \in Seq(Text), R # <<>>
  PROVE  Decodes(Join(R, "break")) <=> \A i \in 1..Len(R) : Decodes(R[i])
<1> DEFINE n == Len(R)
           T == {k \in 0..(n - 1) : DecodesUpTo(k + 1, R)}
<1>1. n \in Nat /\ n >= 1 /\ n - 1 \in Nat
  OBVIOUS
<1>2. PICK mark : mark = "break"
  OBVIOUS
<1>3. Text \subseteq Seq(Broad) /\ mark \in Broad /\ \A i \in 1..n : R[i] \in Seq(Broad)
  <2>1. Text \subseteq Seq(Broad) /\ mark \in Broad
    BY <1>2, SeqMonotonic DEF Text, Broad
  <2>. QED  BY <2>1, SeqIsFunction
<1>4. DecodesUpTo(1, R)
  <2>1. First(R, 1) = <<R[1]>>
    BY <1>1, FirstOne
  <2>2. Join(<<R[1]>>, mark) = R[1]
    <3>1. R[1] \in Seq(Broad)
      BY <1>1, <1>3
    <3>. QED  BY <1>3, <3>1, JoinOne
  <2>3. Join(First(R, 1), "break") = R[1]
    BY <1>2, <2>1, <2>2
  <2>. QED  BY <2>3 DEF DecodesUpTo
<1>5. ASSUME NEW k \in 1..(n - 1), DecodesUpTo(k, R) PROVE DecodesUpTo(k + 1, R)
  <2>1. PICK j : j = k + 1
    OBVIOUS
  <2>2. k \in 1..n /\ j \in 1..n /\ k \in Nat
    BY <1>1, <2>1
  <2>3. PICK r, t : r = First(R, k) /\ t = First(R, j)
    OBVIOUS
  <2>4. t = Append(r, R[j])
    BY <2>1, <2>3, FirstGrows
  <2>5. r \in Seq(Seq(Broad)) /\ r # <<>>
    <3>1. r \in Seq(Text) /\ r # <<>>
      BY <2>2, <2>3, FirstFacts
    <3>. QED  BY <1>3, <3>1, SeqMonotonic
  <2>6. PICK w, z, c : w = Join(r, "break") /\ z = Join(t, "break") /\ c = R[j]
    OBVIOUS
  <2>7. Halves(z, w, c) /\ w \in Seq(Broad) /\ c \in Seq(Broad)
    BY <1>3, <2>2, <2>4, <2>5, <2>6, JoinHalves
  <2>8. Decodes(z) <=> Decodes(w) /\ Decodes(c)
    BY <2>7, HalvesDecode
  <2>9. Decodes(w) <=> \A i \in 1..k : Decodes(R[i])
    BY <1>5, <2>3, <2>6 DEF DecodesUpTo
  <2>10. Decodes(z) <=> \A i \in 1..j : Decodes(R[i])
    <3>1. \A i \in 1..j : i \in 1..k \/ i = j
      BY <2>1, <2>2
    <3>2. j \in 1..j /\ \A i \in 1..k : i \in 1..j
      BY <2>1, <2>2
    <3>. QED  BY <2>6, <2>8, <2>9, <3>1, <3>2
  <2>11. DecodesUpTo(j, R)
    BY <2>3, <2>6, <2>10 DEF DecodesUpTo
  <2>. QED  BY <2>1, <2>11
<1>6. 0 \in T
  <2>1. 0 + 1 = 1 /\ 0 \in 0..(n - 1)
    BY <1>1
  <2>. QED  BY <1>4, <2>1
<1>7. ASSUME NEW k \in 1..(n - 1), k - 1 \in T PROVE k \in T
  <2>1. k - 1 + 1 = k /\ k \in 0..(n - 1)
    BY <1>1
  <2>2. DecodesUpTo(k, R)
    <3>1. DecodesUpTo(k - 1 + 1, R)
      BY <1>7
    <3>. QED  BY <2>1, <3>1
  <2>3. DecodesUpTo(k + 1, R)
    BY <1>5, <2>2
  <2>. QED  BY <2>1, <2>3
<1>8. n - 1 \in T
  <2> HIDE DEF T, n
  <2>1. 0..(n - 1) \subseteq T
    BY <1>1, <1>6, <1>7, Induction
  <2>. QED  BY <1>1, <2>1
<1>9. DecodesUpTo(n, R)
  <2>1. n - 1 + 1 = n
    BY <1>1
  <2>2. DecodesUpTo(n - 1 + 1, R)
    BY <1>8
  <2>. QED  BY <2>1, <2>2
<1>10. First(R, n) = R
  BY FirstAll
<1>. QED  BY <1>9, <1>10 DEF DecodesUpTo

-----------------------------------------------------------------------------
(* What the locations mean *)

(* The files there are, with any functions. *)
LEMMA WorldThere ==
  ASSUME IInv, TextInv, NEW funcs, funcs \in [DOMAIN funcs -> Seq(Resource)]
  PROVE  World(disk, funcs, FilesMean(disk, funcs)[Cardinality(DOMAIN disk)])
<1>1. IsFiniteSet(DOMAIN disk)
  BY InvParts DEF FilesTyped
<1>2. disk \in [DOMAIN disk -> Text]
  BY DEF TextInv, FilesText
<1>3. PICK D : D = Cardinality(DOMAIN disk)
  OBVIOUS
<1>4. D \in Nat /\ FilesMean(disk, funcs)[D] \in [DOMAIN FilesMean(disk, funcs)[D] -> Meanings]
  <2>1. D \in Nat /\ \A n \in 0..D :
          FilesMean(disk, funcs)[n] \in [DOMAIN FilesMean(disk, funcs)[n] -> Meanings]
    BY <1>1, <1>2, <1>3, FilesMeanIs
  <2>2. D \in 0..D
    BY <2>1
  <2>. QED  BY <2>1, <2>2
<1>. QED  BY <1>2, <1>3, <1>4 DEF World

(* A text means a text. *)
LEMMA MeaningTyped ==
  ASSUME IInv, TextInv, NEW funcs, funcs \in [DOMAIN funcs -> Seq(Resource)],
         NEW text \in Text, NEW dir
  PROVE  Meaning(text, dir, funcs) \in Meanings
<1>1. PICK below : below = FilesMean(disk, funcs)[Cardinality(DOMAIN disk)]
  OBVIOUS
<1>2. World(disk, funcs, below)
  BY <1>1, WorldThere
<1>3. text \in Seq(Word)
  BY DEF Text
<1>4. Means(text, dir, disk, funcs, below) \in [ok : BOOLEAN, out : Seq(Word)]
  BY <1>2, <1>3, MeansTyped DEF World
<1>. QED  BY <1>1, <1>4 DEF Meaning, Meanings, Text

(* The locations of the states, as configured. *)
Locations == [i \in DOMAIN config.states |-> config.states[i].location]
(* What they mean together. *)
LocationsMean(flag) == Meaning(Join(Locations, "break"), ConfigDir, FlagFuncs(flag))

(* The locations rendered as one text are each what it means by itself,    *)
(* and none of them means something alone that it does not mean there      *)
(* (config.go:375-404).                                                    *)
LEMMA LocationsAre ==
  ASSUME IInv, TextInv, config.states # <<>>,
         NEW flag, FlagFuncs(flag) \in [DOMAIN FlagFuncs(flag) -> Seq(Resource)]
  PROVE  /\ Sound(LocationsMean(flag)) <=> StatesLocated(flag)
         /\ LocationsMean(flag).ok <=> \A i \in DOMAIN config.states : Location(i, flag).ok
         /\ LocationsMean(flag).ok => \A i \in DOMAIN config.states :
              Split(LocationsMean(flag).out, "break")[i] = Location(i, flag).out
<1>1. PICK funcs, below : /\ funcs = FlagFuncs(flag)
                          /\ below = FilesMean(disk, funcs)[Cardinality(DOMAIN disk)]
  OBVIOUS
<1>2. World(disk, funcs, below)
  BY <1>1, WorldThere
<1>3. /\ config.states \in Seq(TFStateConfig) /\ Len(config.states) \in Nat
      /\ DOMAIN config.states = 1..Len(config.states)
      /\ \A i \in DOMAIN config.states : config.states[i].location \in Text
  <2>1. config.states \in Seq(TFStateConfig)
    BY DEF TextInv, FilesText, ConfigFile
  <2>2. /\ Len(config.states) \in Nat /\ DOMAIN config.states = 1..Len(config.states)
        /\ \A i \in 1..Len(config.states) : config.states[i] \in TFStateConfig
    BY <2>1, SeqIsFunction
  <2>3. \A state \in TFStateConfig : state.location \in Text
    BY DEF TFStateConfig
  <2>. QED  BY <2>1, <2>2, <2>3
<1>4. PICK n, P, R : /\ n = Len(config.states) /\ P = Locations
                     /\ R = [i \in 1..n |-> Location(i, flag).out]
  OBVIOUS
<1>5. n \in Nat /\ n # 0 /\ DOMAIN config.states = 1..n
  BY <1>3, <1>4
<1>6. /\ P \in Seq(Text) /\ Len(P) = n
      /\ \A i \in 1..n : P[i] = config.states[i].location
  <2>1. P \in [1..n -> Text] /\ \A i \in 1..n : P[i] = config.states[i].location
    BY <1>3, <1>4, <1>5 DEF Locations
  <2>. QED  BY <1>5, <2>1
<1>7. ASSUME NEW i \in 1..n
      PROVE  Location(i, flag) = Means(P[i], ConfigDir, disk, funcs, below)
             /\ Location(i, flag) \in Meanings
  <2>1. Location(i, flag) = Meaning(P[i], ConfigDir, funcs)
    BY <1>1, <1>6 DEF Location
  <2>2. P[i] \in Text
    BY <1>3, <1>5, <1>6
  <2>3. Meaning(P[i], ConfigDir, funcs) \in Meanings
    BY <1>1, <2>2, MeaningTyped
  <2>. QED  BY <1>1, <2>1, <2>3 DEF Meaning
<1>8. R \in Seq(Text) /\ Len(R) = n /\ \A i \in 1..n : R[i] = Location(i, flag).out
  <2>1. R \in [1..n -> Text] /\ \A i \in 1..n : R[i] = Location(i, flag).out
    BY <1>4, <1>7 DEF Meanings
  <2>. QED  BY <1>5, <2>1
<1>9. OutsOf(R, P, ConfigDir, disk, funcs, below)
  BY <1>6, <1>7, <1>8 DEF OutsOf
<1>10. P # <<>> /\ R # <<>>
  <2>1. Len(<<>>) = 0
    OBVIOUS
  <2>. QED  BY <1>5, <1>6, <1>8, <2>1
<1>11. PICK m : m = LocationsMean(flag)
  OBVIOUS
<1>12. m = Means(Join(P, "break"), ConfigDir, disk, funcs, below)
  BY <1>1, <1>4, <1>11 DEF LocationsMean, Meaning
<1>13. JoinedAs(m, P, R, ConfigDir, disk, funcs, below)
  BY <1>2, <1>6, <1>8, <1>9, <1>10, <1>12, JoinedMean
<1>14. m.ok <=> \A i \in 1..n : Location(i, flag).ok
  BY <1>6, <1>7, <1>13 DEF JoinedAs
<1>15. m.ok => m.out = Join(R, "break")
  BY <1>13 DEF JoinedAs
<1>16. m.ok => (Decodes(m.out) <=> \A i \in 1..n : Decodes(Location(i, flag).out))
  BY <1>8, <1>10, <1>15, JoinDecodes
<1>17. Sound(m) <=> StatesLocated(flag)
  BY <1>5, <1>14, <1>16 DEF Sound, StatesLocated
<1>18. m.ok => Split(m.out, "break") = R
  <2>1. PICK mark : mark = "break"
    OBVIOUS
  <2>2. mark \in Broad /\ Broad \ {mark} = Word
    BY <2>1, WordsAssumption DEF Broad
  <2>3. R \in Seq(Seq(Broad \ {mark}))
    BY <1>8, <2>2 DEF Text
  <2>4. Split(Join(R, mark), mark) = R
    BY <1>10, <2>2, <2>3, SplitJoin
  <2>. QED  BY <1>15, <2>1, <2>4
<1>. QED  BY <1>5, <1>8, <1>11, <1>14, <1>17, <1>18

-----------------------------------------------------------------------------
(* The functions of the states *)

(* No function is there without a flag, nor before the first state. *)
LEMMA NoFlag == FlagFuncs(<<>>) = <<>>
BY DEF FlagFuncs

(* Before the first state the functions are those of the flag. *)
LEMMA FuncsBefore ==
  ASSUME NEW flag
  PROVE  FuncsAfter(0, flag) = FlagFuncs(flag) /\ StatesThere(0, flag)
<1>1. 1..0 = {}
  OBVIOUS
<1>2. DOMAIN FlagFuncs(flag) \cup {config.states[i].fn : i \in 1..0} = DOMAIN FlagFuncs(flag)
  BY <1>1
<1>3. FlagFuncs(flag) = [f \in DOMAIN FlagFuncs(flag) |-> FlagFuncs(flag)[f]]
  BY DEF FlagFuncs
<1>4. FuncsAfter(0, flag) = FlagFuncs(flag)
  BY <1>2, <1>3 DEF FuncsAfter
<1>5. StatesThere(0, flag)
  BY <1>1 DEF StatesThere
<1>. QED  BY <1>4, <1>5

(* The state that comes next can be read, and its function is a new one. *)
StateReadable(a, flag) ==
  /\ Location(a, flag).out # <<>>
  /\ StateAt(a, flag) \in DOMAIN States
  /\ config.states[a].fn \notin DOMAIN FuncsAfter(a - 1, flag)

(* One more state is there if it can be read. *)
LEMMA StatesNext ==
  ASSUME NEW a \in Nat \ {0}, NEW flag
  PROVE  StatesThere(a, flag) <=> StatesThere(a - 1, flag) /\ StateReadable(a, flag)
<1> DEFINE fn(i) == config.states[i].fn
           There(i) == /\ Location(i, flag).out # <<>>
                       /\ StateAt(i, flag) \in DOMAIN States
                       /\ fn(i) \notin DOMAIN FlagFuncs(flag)
                       /\ \A j \in 1..(i - 1) : fn(i) # fn(j)
<1>1. \A n : StatesThere(n, flag) <=> \A i \in 1..n : There(i)
  BY DEF StatesThere
<1>2. DOMAIN FuncsAfter(a - 1, flag) = DOMAIN FlagFuncs(flag) \cup {fn(i) : i \in 1..(a - 1)}
  BY DEF FuncsAfter
<1>3. StateReadable(a, flag) <=> There(a)
  BY <1>2 DEF StateReadable
<1> HIDE DEF There
<1>4. \A i : i \in 1..a <=> i \in 1..(a - 1) \/ i = a
  OBVIOUS
<1>. QED  BY <1>1, <1>3, <1>4

(* One more function. *)
FuncsWith(funcs, fn, state) == [f \in DOMAIN funcs \cup {fn} |-> IF f = fn THEN state ELSE funcs[f]]

(* And gives one more function. *)
LEMMA FuncsNext ==
  ASSUME NEW a \in Nat \ {0}, NEW flag, StatesThere(a, flag),
         NEW funcs, funcs = FuncsAfter(a - 1, flag),
         NEW fn, fn = config.states[a].fn
  PROVE  FuncsWith(funcs, fn, States[StateAt(a, flag)]) = FuncsAfter(a, flag)
<1> DEFINE name(i) == config.states[i].fn
           own == DOMAIN FlagFuncs(flag)
           which(n, f) == CHOOSE i \in 1..n : name(i) = f
           given(n, f) == IF f \in own THEN FlagFuncs(flag)[f] ELSE States[StateAt(which(n, f), flag)]
           names(n) == {name(i) : i \in 1..n}
<1>1. \A n : FuncsAfter(n, flag) = [f \in own \cup names(n) |-> given(n, f)]
  BY Zenon DEF FuncsAfter
<1>2. \A i, j \in 1..a : name(i) = name(j) => i = j
  <2>1. ASSUME NEW i \in 1..a, NEW j \in 1..a, j < i PROVE name(i) # name(j)
    <3>1. j \in 1..(i - 1)
      BY <2>1
    <3>. QED  BY <3>1 DEF StatesThere
  <2>. QED  BY <2>1
<1>3. fn = name(a) /\ fn \notin own
  <2>1. a \in 1..a
    OBVIOUS
  <2>. QED  BY <2>1 DEF StatesThere
<1>4. \A i : i \in 1..a <=> i \in 1..(a - 1) \/ i = a
  OBVIOUS
<1>5. ASSUME NEW i \in 1..a PROVE which(a, name(i)) = i
  <2>1. which(a, name(i)) \in 1..a /\ name(which(a, name(i))) = name(i)
    BY <1>5
  <2> HIDE DEF which, name
  <2>. QED  BY <1>2, <2>1
<1>6. ASSUME NEW i \in 1..(a - 1) PROVE which(a - 1, name(i)) = i
  <2>1. which(a - 1, name(i)) \in 1..(a - 1) /\ name(which(a - 1, name(i))) = name(i)
    BY <1>6
  <2> HIDE DEF which, name
  <2>. QED  BY <1>2, <1>4, <2>1
<1>7. own \cup names(a) = (own \cup names(a - 1)) \cup {fn}
  <2>1. names(a) = names(a - 1) \cup {name(a)}
    <3> HIDE DEF name
    <3>. QED  BY <1>4
  <2>. QED  BY <1>3, <2>1
<1> HIDE DEF which
<1>8. ASSUME NEW f \in own \cup names(a)
      PROVE  given(a, f) = IF f = fn THEN States[StateAt(a, flag)] ELSE given(a - 1, f)
  <2>1. CASE f \in own
    BY <1>3, <2>1
  <2>2. CASE f \notin own
    <3>1. PICK i \in 1..a : f = name(i)
      BY <2>2
    <3>2. given(a, f) = States[StateAt(i, flag)]
      BY <1>5, <2>2, <3>1
    <3>3. CASE i = a
      BY <1>3, <3>1, <3>2, <3>3
    <3>4. CASE i # a
      <4>1. i \in 1..(a - 1) /\ f # fn
        BY <1>2, <1>3, <1>4, <3>1, <3>4
      <4>2. given(a - 1, f) = States[StateAt(i, flag)]
        BY <1>6, <2>2, <3>1, <4>1
      <4>. QED  BY <3>2, <4>1, <4>2
    <3>. QED  BY <3>3, <3>4
  <2>. QED  BY <2>1, <2>2
<1> HIDE DEF given, own, names, name
<1>9. funcs = [f \in own \cup names(a - 1) |-> given(a - 1, f)]
      /\ FuncsAfter(a, flag) = [f \in own \cup names(a) |-> given(a, f)]
  BY <1>1
<1>10. DOMAIN funcs \cup {fn} = own \cup names(a)
       /\ \A f \in own \cup names(a) : f # fn => funcs[f] = given(a - 1, f)
  BY <1>7, <1>9
<1>. QED  BY <1>8, <1>9, <1>10 DEF FuncsWith

-----------------------------------------------------------------------------
(* The stages of a load *)

(* What is between two texts is what has been loaded. *)
LEMMA QuietMeans ==
  ASSUME frames' = <<>>, nested' = <<>>, LoadedSoFar'
  PROVE  MeansSoFar'
<1>1. RootMeans'
  BY DEF RootMeans
<1>. QED  BY <1>1, NothingMeans DEF MeansSoFar

(* A text is begun with what is loaded. *)
LEMMA BeginRoot ==
  ASSUME IInv, LoadedSoFar, NEW text, NEW dir, Begin(text, dir), UNCHANGED <<files, cmd>>,
         CASE stage = "locations" ->
                /\ text = Join([i \in DOMAIN config.states |-> config.states[i].location], "break")
                /\ dir = ConfigDir
           [] stage = "config" -> text = config.body /\ dir = ConfigDir
           [] OTHER -> /\ ThereIs(DefinitionFile)
                       /\ text = disk[DefinitionFile] /\ dir = Dir(DefinitionFile)
  PROVE  MeansSoFar'
<1>1. CASE Parses(text, Functions)
  <2>1. frames' = <<NewFrame(text, dir)>> /\ UNCHANGED <<stage, nested, loader, cfg>>
    BY <1>1 DEF Begin
  <2>2. frames'[1].text = text /\ frames'[1].dir = dir
    BY <2>1 DEF NewFrame
  <2>3. config' = config /\ disk' = disk /\ stage' = stage /\ DefinitionFile' = DefinitionFile
    BY <2>1, MeaningSame DEF files
  <2>4. RootMeans'
    BY <2>2, <2>3 DEF RootMeans, ThereIs
  <2>5. LoadedSoFar'
    BY <2>1, SoFarKept
  <2>6. FramesMean'
    BY BeginMeans
  <2>. QED  BY <2>4, <2>5, <2>6 DEF MeansSoFar
<1>2. CASE ~Parses(text, Functions)
  BY <1>2, FailMeans DEF Begin, Failed
<1>. QED  BY <1>1, <1>2

(* Nothing has been loaded when a command starts. *)
LEMMA StartMeans ==
  ASSUME NEW c, Start(c)
  PROVE  MeansSoFar'
<1>1. /\ frames' = <<>> /\ nested' = <<>> /\ cmd' = c /\ loader' = NewLoader
      /\ stage' = CASE c.op = "init" -> "describe"
                    [] c.op # "init" /\ c.tfstate # <<>> -> "flag"
                    [] OTHER -> "decode"
  BY DEF Start
<1>2. loader'.funcs = <<>>
  BY <1>1 DEF NewLoader
<1>3. CASE c.op = "init"
  BY <1>1, <1>3, SoFarOver, QuietMeans DEF Loading
<1>4. CASE c.op # "init" /\ c.tfstate # <<>>
  BY <1>1, <1>4, QuietMeans DEF LoadedSoFar
<1>5. CASE c.op # "init" /\ c.tfstate = <<>>
  <2>1. stage' = "decode" /\ cmd'.tfstate = <<>>
    BY <1>1, <1>5
  <2>2. FlagFuncs(<<>>)' = <<>>
    BY NoFlag DEF FlagFuncs
  <2>. QED  BY <1>1, <1>2, <2>1, <2>2, QuietMeans DEF LoadedSoFar
<1>. QED  BY <1>3, <1>4, <1>5

(* The flag gives its function. *)
LEMMA AppendFlagMeans ==
  ASSUME IInv, LoadedSoFar, AppendFlag(cmd.tfstate), UNCHANGED cmd
  PROVE  MeansSoFar'
<1>1. CASE cmd.tfstate \in DOMAIN States
  <2>1. /\ stage' = "decode" /\ frames' = frames /\ nested' = nested
        /\ loader' = [loader EXCEPT !.funcs = [f \in {"tfstate"} |-> States[cmd.tfstate]]]
    BY <1>1 DEF AppendFlag, Goto
  <2>2. frames' = <<>> /\ nested' = <<>>
    BY <2>1, NothingRendered DEF AppendFlag
  <2>3. loader'.funcs = [f \in {"tfstate"} |-> States[cmd.tfstate]]
    BY <2>1, Fields
  <2>4. CASE cmd.tfstate # <<>>
    <3>1. loader'.funcs = FlagFuncs(cmd.tfstate)
      BY <2>3, <2>4 DEF FlagFuncs
    <3>2. LoadedSoFar'
      BY <1>1, <2>1, <3>1 DEF LoadedSoFar, Loading, FlagFuncs
    <3>. QED  BY <2>2, <3>2, QuietMeans
  <2>. QED  BY <2>4 DEF AppendFlag, LoadedSoFar
<1>2. CASE cmd.tfstate \notin DOMAIN States
  BY <1>2, FailMeans DEF AppendFlag, Failed
<1>. QED  BY <1>1, <1>2
(* The configuration says which states there are. *)
LEMMA PreLoadMeans ==
  ASSUME IInv, LoadedSoFar, PreLoad, UNCHANGED <<files, cmd>>
  PROVE  MeansSoFar'
<1> DEFINE flag == cmd.tfstate
<1>1. CASE config.empty
  BY <1>1, FailMeans DEF PreLoad, Failed
<1>2. CASE ~config.empty
  <2>1. /\ stage = "decode"
        /\ stage' = IF config.states = <<>> THEN "config" ELSE "locations"
        /\ frames' = frames /\ nested' = nested /\ loader' = loader
        /\ cfg' = [cfg EXCEPT !.inline = config.inline, !.path = config.path]
        /\ config' = config /\ cmd' = cmd
    BY <1>2 DEF PreLoad, Goto, files
  <2>2. frames' = <<>> /\ nested' = <<>>
    BY <2>1, NothingRendered
  <2>3. /\ flag # <<>> => flag \in DOMAIN States
        /\ loader.funcs = FlagFuncs(flag)
    BY <2>1 DEF LoadedSoFar, Loading
  <2>4. cfg'.inline = config.inline /\ cfg'.path = config.path
    BY <2>1, Fields
  <2>5. FlagFuncs(flag)' = FlagFuncs(flag)
    BY <2>1 DEF FlagFuncs
  <2>6. CASE config.states = <<>>
    <3>1. stage' = "config"
      BY <2>1, <2>6
    <3>2. Len(config.states) = 0 /\ DOMAIN config.states = {}
      BY <2>6
    <3>3. StatesLocated(flag)' /\ StatesThere(0, flag)'
      BY <2>1, <3>2, FuncsBefore, MeaningSame DEF StatesLocated
    <3>4. ProjectFuncs(flag) = FlagFuncs(flag)
      BY <3>2, FuncsBefore DEF ProjectFuncs
    <3>5. ProjectFuncs(flag)' = ProjectFuncs(flag)
      BY <2>1, MeaningSame
    <3>6. LoadedSoFar'
      BY <1>2, <2>1, <2>3, <2>4, <3>1, <3>2, <3>3, <3>4, <3>5 DEF LoadedSoFar
    <3>. QED  BY <2>2, <3>6, QuietMeans
  <2>7. CASE config.states # <<>>
    <3>1. stage' = "locations"
      BY <2>1, <2>7
    <3>2. LoadedSoFar'
      BY <1>2, <2>1, <2>3, <2>4, <2>5, <3>1 DEF LoadedSoFar
    <3>. QED  BY <2>2, <3>2, QuietMeans
  <2>. QED  BY <2>6, <2>7
<1>. QED  BY <1>1, <1>2

(* The states are where they were rendered to be. *)
LEMMA FlagTyped ==
  ASSUME IInv, TextInv, LoadedSoFar, stage = "locations"
  PROVE  /\ loader.funcs = FlagFuncs(cmd.tfstate)
         /\ FlagFuncs(cmd.tfstate) \in [DOMAIN FlagFuncs(cmd.tfstate) -> Seq(Resource)]
<1>1. loader.funcs = FlagFuncs(cmd.tfstate)
  BY DEF LoadedSoFar
<1>. QED  BY <1>1, LevelsThere

(* What comes out of the locations is what they mean together. *)
LEMMA LocationsEnd ==
  ASSUME IInv, TextInv, MeansSoFar, stage = "locations", frames # <<>>
  PROVE  /\ config.states # <<>>
         /\ Meaning(frames[1].text, frames[1].dir, loader.funcs) = LocationsMean(cmd.tfstate)
<1>1. config.states # <<>>
  BY DEF IInv, Counted
<1>2. frames[1].text = Join(Locations, "break") /\ frames[1].dir = ConfigDir
  BY DEF MeansSoFar, RootMeans, Locations
<1>3. loader.funcs = FlagFuncs(cmd.tfstate)
  BY DEF MeansSoFar, LoadedSoFar
<1>. QED  BY <1>1, <1>2, <1>3 DEF LocationsMean

(* They are where their locations say. *)
LEMMA EndLocationsMeans ==
  ASSUME IInv, TextInv, MeansSoFar, EndLocations, UNCHANGED <<files, cmd>>
  PROVE  MeansSoFar'
<1> DEFINE flag == cmd.tfstate
<1>1. CASE Decodes(Top.out)
  <2>1. /\ stage = "locations" /\ Rendered /\ frames # <<>>
    <3>1. Len(<<>>) = 0
      OBVIOUS
    <3>. QED  BY <3>1 DEF EndLocations, Rendered
  <2>2. LoadedSoFar
    BY DEF MeansSoFar
  <2>3. LocationsMean(flag) = Something(Top.out) /\ config.states # <<>>
    BY <2>1, RootEnds, LocationsEnd
  <2>4. /\ StatesLocated(flag)
        /\ \A i \in DOMAIN config.states : Split(Top.out, "break")[i] = Location(i, flag).out
    <3>1. LocationsMean(flag).ok /\ LocationsMean(flag).out = Top.out
      BY <2>3 DEF Something
    <3>2. Sound(LocationsMean(flag))
      BY <1>1, <3>1 DEF Sound
    <3>. QED  BY <2>1, <2>2, <2>3, <3>1, <3>2, FlagTyped, LocationsAre
  <2>5. /\ stage' = "states" /\ frames' = <<>> /\ nested' = nested /\ cfg' = cfg
        /\ loader' = [loader EXCEPT !.states = [i \in DOMAIN config.states |->
               [config.states[i] EXCEPT !.location = Split(Top.out, "break")[i]]]]
        /\ config' = config /\ cmd' = cmd
    BY <1>1 DEF EndLocations, files
  <2>6. nested' = <<>>
    BY <2>1, <2>5, RenderedAlone
  <2>7. /\ loader'.funcs = loader.funcs /\ loader'.at = loader.at
        /\ loader'.states = [i \in DOMAIN config.states |->
               [config.states[i] EXCEPT !.location = Split(Top.out, "break")[i]]]
    BY <2>5, Fields
  <2>8. loader'.states = [i \in DOMAIN config.states |->
               [config.states[i] EXCEPT !.location = Location(i, flag).out]]
    BY <2>4, <2>7
  <2>9. loader'.at - 1 = 0
    BY <2>1, <2>7 DEF IInv, Counted
  <2>10. loader'.funcs = FuncsAfter(0, flag) /\ StatesThere(0, flag)
    BY <2>1, <2>2, <2>7, FlagTyped, FuncsBefore, TextParts
  <2>11. /\ FuncsAfter(0, flag)' = FuncsAfter(0, flag) /\ StatesThere(0, flag)' = StatesThere(0, flag)
         /\ StatesLocated(flag)' = StatesLocated(flag)
         /\ \A i : Location(i, flag)' = Location(i, flag)
    BY <2>5, MeaningSame
  <2>12. /\ flag # <<>> => flag \in DOMAIN States
         /\ ~config.empty /\ cfg.inline = config.inline /\ cfg.path = config.path
    BY <2>1, <2>2 DEF LoadedSoFar, Loading
  <2>13. LoadedSoFar'
    BY <2>4, <2>5, <2>8, <2>9, <2>10, <2>11, <2>12, <2>7 DEF LoadedSoFar
  <2>. QED  BY <2>5, <2>6, <2>13, QuietMeans
<1>2. CASE ~Decodes(Top.out)
  BY <1>2, FailMeans DEF EndLocations, Failed
<1>. QED  BY <1>1, <1>2

(* A state gives its function. *)
LEMMA AppendTFStateMeans ==
  ASSUME IInv, TextInv, LoadedSoFar, AppendTFState, UNCHANGED <<files, cmd>>
  PROVE  MeansSoFar'
<1> DEFINE flag == cmd.tfstate
           n == Len(config.states)
<1>1. PICK a : a = loader.at
  OBVIOUS
<1>2. /\ stage = "states" /\ a \in 1..n /\ n \in Nat /\ Len(loader.states) = n
      /\ a \in Nat \ {0}
  <2>1. config.states \in Seq(TFStateConfig)
    BY DEF TextInv, FilesText, ConfigFile
  <2>. QED  BY <1>1, <2>1 DEF AppendTFState, IInv, Counted
<1>3. /\ StatesLocated(flag) /\ StatesThere(a - 1, flag)
      /\ loader.funcs = FuncsAfter(a - 1, flag)
      /\ loader.states = [i \in DOMAIN config.states |->
               [config.states[i] EXCEPT !.location = Location(i, flag).out]]
      /\ flag # <<>> => flag \in DOMAIN States
      /\ ~config.empty /\ cfg.inline = config.inline /\ cfg.path = config.path
  BY <1>1, <1>2 DEF LoadedSoFar, Loading
<1>4. PICK s : s = loader.states[a]
  OBVIOUS
<1>5. s.location = Location(a, flag).out /\ s.fn = config.states[a].fn
  <2>1. config.states \in Seq(TFStateConfig)
    BY DEF TextInv, FilesText, ConfigFile
  <2>2. config.states[a] \in TFStateConfig /\ a \in DOMAIN config.states
    BY <1>2, <2>1
  <2>3. DOMAIN config.states[a] = {"location", "fn"}
    BY <2>2 DEF TFStateConfig
  <2>4. s = [config.states[a] EXCEPT !.location = Location(a, flag).out]
    BY <1>3, <1>4, <2>2
  <2>. QED  BY <2>3, <2>4
<1>6. StateAt(a, flag) = Resolve(ConfigDir, s.location)
  BY <1>5 DEF StateAt
<1>7. CASE s.location = <<>> \/ Resolve(ConfigDir, s.location) \notin DOMAIN States
             \/ s.fn \in DOMAIN loader.funcs
  <2>1. Fail("error")
    BY <1>1, <1>4, <1>7 DEF AppendTFState
  <2>. QED  BY <2>1, FailMeans DEF Failed
<1>8. CASE ~(s.location = <<>> \/ Resolve(ConfigDir, s.location) \notin DOMAIN States
             \/ s.fn \in DOMAIN loader.funcs)
  <2>1. StateReadable(a, flag)
    BY <1>3, <1>5, <1>6, <1>8 DEF StateReadable
  <2>2. StatesThere(a, flag)
    BY <1>2, <1>3, <2>1, StatesNext
  <2>3. /\ loader' = [loader EXCEPT !.at = @ + 1,
                  !.funcs = [f \in DOMAIN loader.funcs \cup {s.fn} |->
                               IF f = s.fn THEN States[Resolve(ConfigDir, s.location)] ELSE @[f]]]
        /\ stage' = IF a = n THEN "config" ELSE "states"
        /\ cfg' = [cfg EXCEPT !.states = loader.states]
        /\ frames' = frames /\ nested' = nested
    BY <1>1, <1>2, <1>4, <1>8 DEF AppendTFState, Goto
  <2>4. /\ loader'.at = a + 1 /\ loader'.states = loader.states
        /\ loader'.funcs = [f \in DOMAIN loader.funcs \cup {s.fn} |->
               IF f = s.fn THEN States[StateAt(a, flag)] ELSE loader.funcs[f]]
    BY <1>1, <1>6, <2>3, Fields
  <2>5. loader'.funcs = FuncsAfter(a, flag)
    <3>1. PICK funcs, fn : funcs = loader.funcs /\ fn = s.fn
      OBVIOUS
    <3>2. FuncsWith(funcs, fn, States[StateAt(a, flag)]) = FuncsAfter(a, flag)
      BY <1>2, <1>3, <1>5, <2>2, <3>1, FuncsNext
    <3>. QED  BY <2>4, <3>1, <3>2 DEF FuncsWith
  <2>6. frames' = <<>> /\ nested' = <<>>
    BY <1>2, <2>3, NothingRendered
  <2>7. cfg'.inline = config.inline /\ cfg'.path = config.path
    BY <1>3, <2>3, Fields
  <2>8. /\ config' = config /\ cmd' = cmd
        /\ \A k : FuncsAfter(k, flag)' = FuncsAfter(k, flag)
        /\ \A k : StatesThere(k, flag)' = StatesThere(k, flag)
        /\ StatesLocated(flag)' = StatesLocated(flag)
        /\ \A i : Location(i, flag)' = Location(i, flag)
    BY MeaningSame DEF files
  <2>9. CASE a = n
    <3>1. stage' = "config"
      BY <2>3, <2>9
    <3>2. StatesThere(n, flag) /\ loader'.funcs = ProjectFuncs(flag)
      BY <2>2, <2>5, <2>9 DEF ProjectFuncs
    <3>3. ProjectFuncs(flag)' = ProjectFuncs(flag) /\ StatesThere(n, flag)' = StatesThere(n, flag)
      BY <2>8, MeaningSame
    <3>4. LoadedSoFar'
      BY <1>3, <2>7, <2>8, <3>1, <3>2, <3>3 DEF LoadedSoFar
    <3>. QED  BY <2>6, <3>4, QuietMeans
  <2>10. CASE a # n
    <3>1. stage' = "states"
      BY <2>3, <2>10
    <3>2. loader'.at - 1 = a
      BY <1>2, <2>4
    <3>3. LoadedSoFar'
      BY <1>3, <2>2, <2>4, <2>5, <2>7, <2>8, <3>1, <3>2 DEF LoadedSoFar
    <3>. QED  BY <2>6, <3>3, QuietMeans
  <2>. QED  BY <2>9, <2>10
<1>. QED  BY <1>7, <1>8

(* The configuration, and then its definition, mean what comes out of them. *)
LEMMA BodyEnds ==
  ASSUME IInv, MeansSoFar, stage = "config", frames # <<>>
  PROVE  Meaning(frames[1].text, frames[1].dir, loader.funcs) = BodyMeans(cmd.tfstate)
<1>1. frames[1].text = config.body /\ frames[1].dir = ConfigDir
  BY DEF MeansSoFar, RootMeans
<1>2. loader.funcs = ProjectFuncs(cmd.tfstate)
  BY DEF MeansSoFar, LoadedSoFar
<1>. QED  BY <1>1, <1>2 DEF BodyMeans

LEMMA DefinitionEnds ==
  ASSUME IInv, MeansSoFar, stage = "definition", frames # <<>>
  PROVE  /\ ThereIs(DefinitionFile) /\ ~config.inline
         /\ Meaning(frames[1].text, frames[1].dir, loader.funcs) = DefinitionMeans(cmd.tfstate)
<1>1. /\ ThereIs(DefinitionFile)
      /\ frames[1].text = disk[DefinitionFile] /\ frames[1].dir = Dir(DefinitionFile)
  BY DEF MeansSoFar, RootMeans
<1>2. loader.funcs = ProjectFuncs(cmd.tfstate) /\ ~config.inline
  BY DEF MeansSoFar, LoadedSoFar
<1>. QED  BY <1>1, <1>2 DEF DefinitionMeans

(* The configuration is what it means. *)
LEMMA EndConfigMeans ==
  ASSUME IInv, TextInv, MeansSoFar, EndConfig, UNCHANGED <<files, cmd>>
  PROVE  MeansSoFar'
<1> DEFINE flag == cmd.tfstate
<1>1. CASE Decodes(Top.out)
  <2>1. /\ stage = "config" /\ Rendered /\ frames # <<>>
    <3>1. Len(<<>>) = 0
      OBVIOUS
    <3>. QED  BY <3>1 DEF EndConfig, Rendered
  <2>2. BodyMeans(flag) = Something(Top.out)
    BY <2>1, RootEnds, BodyEnds
  <2>3. Sound(BodyMeans(flag)) /\ BodyMeans(flag).out = Top.out
    BY <1>1, <2>2 DEF Sound, Something
  <2>4. /\ stage' = "check" /\ frames' = <<>> /\ nested' = nested /\ loader' = loader
        /\ cfg' = [cfg EXCEPT !.body = Decoded(Top.out)]
        /\ config' = config /\ cmd' = cmd
    BY <1>1 DEF EndConfig, files
  <2>5. nested' = <<>>
    BY <2>1, <2>4, RenderedAlone
  <2>6. cfg'.body = Decoded(BodyMeans(flag).out) /\ cfg'.inline = cfg.inline /\ cfg'.path = cfg.path
    BY <2>3, <2>4, Fields
  <2>7. LoadedSoFar
    BY DEF MeansSoFar
  <2>8. /\ flag # <<>> => flag \in DOMAIN States
        /\ ~config.empty /\ cfg.inline = config.inline /\ cfg.path = config.path
        /\ StatesLocated(flag) /\ StatesThere(Len(config.states), flag)
        /\ loader.funcs = ProjectFuncs(flag)
    BY <2>1, <2>7 DEF LoadedSoFar, Loading
  <2>9. /\ BodyMeans(flag)' = BodyMeans(flag) /\ ProjectFuncs(flag)' = ProjectFuncs(flag)
        /\ StatesLocated(flag)' = StatesLocated(flag)
        /\ \A k : StatesThere(k, flag)' = StatesThere(k, flag)
    BY <2>4, MeaningSame
  <2>10. Sound(BodyMeans(flag))'
    BY <2>3, <2>9 DEF Sound
  <2>11. LoadedSoFar'
    BY <2>4, <2>6, <2>8, <2>9, <2>10 DEF LoadedSoFar
  <2>. QED  BY <2>4, <2>5, <2>11, QuietMeans
<1>2. CASE ~Decodes(Top.out)
  BY <1>2, FailMeans DEF EndConfig, Failed
<1>. QED  BY <1>1, <1>2

(* It is checked before its definition is read. *)
LEMMA CheckMeans ==
  ASSUME IInv, LoadedSoFar, Check, UNCHANGED <<files, cmd>>
  PROVE  MeansSoFar'
<1> DEFINE flag == cmd.tfstate
<1>1. CASE ~config.valid
  BY <1>1, FailMeans DEF Check, Failed
<1>2. CASE config.valid
  <2>1. /\ stage = "check" /\ frames' = frames /\ nested' = nested /\ loader' = loader
        /\ config' = config /\ cmd' = cmd
        /\ IF config.inline THEN stage' = "loaded" ELSE stage' = "definition" /\ cfg' = cfg
    BY <1>2 DEF Check, Goto, files
  <2>2. frames' = <<>> /\ nested' = <<>>
    BY <2>1, NothingRendered
  <2>3. CASE config.inline
    BY <2>1, <2>2, <2>3, SoFarOver, QuietMeans DEF Loading
  <2>4. CASE ~config.inline
    <3>1. /\ flag # <<>> => flag \in DOMAIN States
          /\ ~config.empty /\ cfg.inline = config.inline /\ cfg.path = config.path
          /\ StatesLocated(flag) /\ StatesThere(Len(config.states), flag)
          /\ loader.funcs = ProjectFuncs(flag)
          /\ Sound(BodyMeans(flag)) /\ cfg.body = Decoded(BodyMeans(flag).out)
      BY <2>1 DEF LoadedSoFar, Loading
    <3>2. /\ BodyMeans(flag)' = BodyMeans(flag) /\ ProjectFuncs(flag)' = ProjectFuncs(flag)
          /\ StatesLocated(flag)' = StatesLocated(flag)
          /\ \A k : StatesThere(k, flag)' = StatesThere(k, flag)
      BY <2>1, MeaningSame
    <3>3. Sound(BodyMeans(flag))'
      BY <3>1, <3>2 DEF Sound
    <3>4. LoadedSoFar'
      BY <1>2, <2>1, <2>4, <3>1, <3>2, <3>3 DEF LoadedSoFar
    <3>. QED  BY <2>2, <3>4, QuietMeans
  <2>. QED  BY <2>3, <2>4
<1>. QED  BY <1>1, <1>2

(* With its definition it is loaded. *)
LEMMA EndDefinitionMeans ==
  ASSUME IInv, EndDefinition
  PROVE  MeansSoFar'
<1>1. CASE Top.out # <<>> /\ Decodes(Top.out)
  <2>1. stage' = "loaded" /\ frames' = <<>> /\ nested' = nested /\ Rendered
    BY <1>1 DEF EndDefinition
  <2>2. nested' = <<>>
    BY <2>1, RenderedAlone
  <2>. QED  BY <2>1, <2>2, SoFarOver, QuietMeans DEF Loading
<1>2. CASE ~(Top.out # <<>> /\ Decodes(Top.out))
  BY <1>2, FailMeans DEF EndDefinition, Failed
<1>. QED  BY <1>1, <1>2

(* A text is begun with what the stage is about. *)
LEMMA BeginStageMeans ==
  ASSUME IInv, LoadedSoFar, BeginLocations \/ BeginConfig \/ BeginDefinition, UNCHANGED <<files, cmd>>
  PROVE  MeansSoFar'
<1>1. CASE BeginLocations
  <2>1. stage = "locations"
    BY <1>1 DEF BeginLocations
  <2>2. PICK text : text = Join([i \in DOMAIN config.states |-> config.states[i].location], "break")
    OBVIOUS
  <2>3. Begin(text, ConfigDir)
    BY <1>1, <2>2 DEF BeginLocations
  <2>. QED  BY <2>1, <2>2, <2>3, BeginRoot
<1>2. CASE BeginConfig
  <2>1. stage = "config" /\ Begin(config.body, ConfigDir)
    BY <1>2 DEF BeginConfig
  <2>. QED  BY <2>1, BeginRoot
<1>3. CASE BeginDefinition
  <2>1. stage = "definition" /\ DefinitionPath = DefinitionFile
    BY <1>3 DEF BeginDefinition, DefinitionPath, DefinitionFile, LoadedSoFar, Loading
  <2>2. CASE ThereIs(DefinitionPath)
    <3>1. Begin(disk[DefinitionFile], Dir(DefinitionFile))
      BY <1>3, <2>1, <2>2 DEF BeginDefinition
    <3>. QED  BY <2>1, <2>2, <3>1, BeginRoot
  <2>3. CASE ~ThereIs(DefinitionPath)
    BY <1>3, <2>3, FailMeans DEF BeginDefinition, Failed
  <2>. QED  BY <2>2, <2>3
<1>. QED  BY <1>1, <1>2, <1>3

(* Nothing has been loaded at first. *)
LEMMA InitMeans == Init => MeansSoFar
<1> SUFFICES ASSUME Init PROVE MeansSoFar
  OBVIOUS
<1>1. frames = <<>> /\ nested = <<>> /\ stage = "new"
  BY DEF Init
<1>2. FramesMean
  BY <1>1 DEF FramesMean, StackMeans
<1>3. RootMeans
  BY <1>1 DEF RootMeans
<1>4. LoadedSoFar
  BY <1>1 DEF LoadedSoFar, Loading
<1>. QED  BY <1>2, <1>3, <1>4 DEF MeansSoFar

(* Every step of a load is on its way. *)
LEMMA LoadStepMeans ==
  ASSUME IInv, TextInv, MeansSoFar, LoadStep
  PROVE  MeansSoFar'
<1>1. UNCHANGED <<files, cmd>> /\ LoadedSoFar
  BY DEF LoadStep, Load, MeansSoFar
<1>2. CASE AppendFlag(cmd.tfstate)
  BY <1>1, <1>2, AppendFlagMeans
<1>3. CASE Load
  <2>1. CASE RenderingStep
    BY <1>1, <2>1, RenderingMeans
  <2>2. CASE PreLoad
    BY <1>1, <2>2, PreLoadMeans
  <2>3. CASE BeginLocations \/ BeginConfig \/ BeginDefinition
    BY <1>1, <2>3, BeginStageMeans
  <2>4. CASE EndLocations
    BY <1>1, <2>4, EndLocationsMeans
  <2>5. CASE AppendTFState
    BY <1>1, <2>5, AppendTFStateMeans
  <2>6. CASE EndConfig
    BY <1>1, <2>6, EndConfigMeans
  <2>7. CASE Check
    BY <1>1, <2>7, CheckMeans
  <2>8. CASE EndDefinition
    BY <2>8, EndDefinitionMeans
  <2>. QED  BY <1>3, <2>1, <2>2, <2>3, <2>4, <2>5, <2>6, <2>7, <2>8 DEF Load, RenderingStep
<1>. QED  BY <1>2, <1>3 DEF LoadStep

(* What is done after a load, or instead of one, begins none. *)
LEMMA WriteMeans ==
  ASSUME IInv,
         \/ DescribeForPull \/ DescribeForInit \/ CreateConfigFile \/ CreateDefinitionFile
         \/ ReadResources \/ Replace \/ WriteConfig \/ WriteDefinition
  PROVE  MeansSoFar'
<1>1. /\ stage \in {"loaded", "describe", "config file", "definition file", "read for config",
                    "read for definition", "write config", "write definition"}
      /\ \/ \E l \in Failed : Fail(l)
         \/ \E l \in {"config file", "definition file", "read for config", "read for definition",
                      "write config", "write definition", "ok"} : Goto(l)
         \/ UNCHANGED loading
  <2>1. CASE DescribeForPull
    BY <2>1 DEF DescribeForPull, Failed
  <2>2. CASE DescribeForInit
    BY <2>2 DEF DescribeForInit, Failed
  <2>3. CASE CreateConfigFile \/ CreateDefinitionFile
    BY <2>3 DEF CreateConfigFile, CreateDefinitionFile
  <2>4. CASE ReadResources
    BY <2>4 DEF ReadResources, Failed
  <2>5. CASE Replace
    BY <2>5 DEF Replace
  <2>6. CASE WriteConfig \/ WriteDefinition
    BY <2>6 DEF WriteConfig, WriteDefinition
  <2>. QED  BY <2>1, <2>2, <2>3, <2>4, <2>5, <2>6
<1>2. frames = <<>> /\ nested = <<>>
  BY <1>1, NothingRendered
<1>3. ASSUME NEW l \in Failed, Fail(l) PROVE MeansSoFar'
  BY <1>3, FailMeans
<1>4. ASSUME NEW l \in {"config file", "definition file", "read for config", "read for definition",
                        "write config", "write definition", "ok"}, Goto(l)
      PROVE  MeansSoFar'
  <2>1. stage' = l /\ frames' = <<>> /\ nested' = <<>>
    BY <1>2, <1>4 DEF Goto
  <2>2. ~Loading'
    BY <2>1 DEF Loading
  <2>. QED  BY <2>1, <2>2, SoFarOver, QuietMeans
<1>5. CASE UNCHANGED loading
  <2>1. stage' = stage /\ frames' = <<>> /\ nested' = <<>>
    BY <1>2, <1>5 DEF loading
  <2>2. ~Loading'
    BY <1>1, <2>1 DEF Loading
  <2>. QED  BY <2>1, <2>2, SoFarOver, QuietMeans
<1>. QED  BY <1>1, <1>3, <1>4, <1>5

(* So is every step. *)
LEMMA NextMeans ==
  ASSUME IInv, TextInv, MeansSoFar, [Next]_vars
  PROVE  MeansSoFar'
<1>1. ASSUME NEW c \in Commands, Start(c) PROVE MeansSoFar'
  BY <1>1, StartMeans
<1>2. CASE LoadStep
  BY <1>2, LoadStepMeans
<1>3. CASE \/ DescribeForPull \/ DescribeForInit \/ CreateConfigFile \/ CreateDefinitionFile
           \/ ReadResources \/ Replace \/ WriteConfig \/ WriteDefinition
  BY <1>3, WriteMeans
<1>4. CASE CallFails
  BY <1>4, FailMeans DEF CallFails, Failed
<1>5. CASE Crash
  BY <1>5, FailMeans DEF Crash, Failed
<1>6. CASE UNCHANGED vars
  <2>1. UNCHANGED <<files, stage, frames, nested, loader, cfg, cmd>>
    BY <1>6 DEF vars, loading
  <2>2. LoadedSoFar'
    BY <2>1, SoFarKept DEF MeansSoFar
  <2>3. FramesMean'
    <3>1. disk' = disk
      BY <2>1 DEF files
    <3>. QED  BY <2>1, <3>1 DEF FramesMean, MeansSoFar
  <2>4. RootMeans'
    <3>1. CASE frames = <<>>
      BY <2>1, <3>1 DEF RootMeans
    <3>2. CASE frames # <<>>
      BY <2>1, <3>2, RootKept DEF MeansSoFar
    <3>. QED  BY <3>1, <3>2
  <2>. QED  BY <2>2, <2>3, <2>4 DEF MeansSoFar
<1>. QED  BY <1>1, <1>2, <1>3, <1>4, <1>5, <1>6 DEF Next, Step

(* A load is on its way to what its project means, in every command and    *)
(* with every project: every text on the stack is rendered as what it      *)
(* means up to where it stands, and every stage has left what the next one *)
(* takes for granted (config.go:199-339).                                  *)
THEOREM LoadsAreUnderway == Spec => []MeansSoFar
<1>1. Init => MeansSoFar
  BY InitMeans
<1>2. IInv /\ TextInv /\ MeansSoFar /\ [Next]_vars => MeansSoFar'
  BY NextMeans
<1>. QED  BY <1>1, <1>2, Invariance, TypedTexts, PTL DEF Spec

-----------------------------------------------------------------------------
(* What a stage renders *)

(* What a stage has to render. *)
StageText(text, dir) ==
  CASE stage = "locations" -> text = Join(Locations, "break") /\ dir = ConfigDir
    [] stage = "config" -> text = config.body /\ dir = ConfigDir
    [] stage = "definition" -> /\ ThereIs(DefinitionFile)
                               /\ text = disk[DefinitionFile] /\ dir = Dir(DefinitionFile)
    [] OTHER -> FALSE

(* It is what is rendered first. *)
LEMMA RootIsStageText ==
  ASSUME IInv, MeansSoFar, frames # <<>>
  PROVE  StageText(frames[1].text, frames[1].dir)
<1>1. stage \in {"locations", "config", "definition"}
  BY DEF IInv, StackKept
<1>. QED  BY <1>1 DEF MeansSoFar, RootMeans, StageText, Locations

(* If that means nothing, or cannot be decoded, the project means nothing. *)
LEMMA StageFails ==
  ASSUME IInv, TextInv, MeansSoFar, NEW text, NEW dir, StageText(text, dir),
         ~Sound(Meaning(text, dir, loader.funcs))
  PROVE  ~Meant(cmd.tfstate)
<1> DEFINE flag == cmd.tfstate
<1>1. LoadedSoFar
  BY DEF MeansSoFar
<1>2. CASE stage = "locations"
  <2>1. text = Join(Locations, "break") /\ dir = ConfigDir
    BY <1>2 DEF StageText
  <2>2. /\ loader.funcs = FlagFuncs(flag)
        /\ FlagFuncs(flag) \in [DOMAIN FlagFuncs(flag) -> Seq(Resource)]
    BY <1>1, <1>2, FlagTyped
  <2>3. ~Sound(LocationsMean(flag))
    BY <2>1, <2>2 DEF LocationsMean
  <2>4. config.states # <<>>
    BY <1>2 DEF IInv, Counted
  <2>5. ~StatesLocated(flag)
    BY <2>2, <2>3, <2>4, LocationsAre
  <2>. QED  BY <2>5 DEF Meant, StatesLocated
<1>3. CASE stage = "config"
  <2>1. text = config.body /\ dir = ConfigDir
    BY <1>3 DEF StageText
  <2>2. loader.funcs = ProjectFuncs(flag)
    BY <1>1, <1>3 DEF LoadedSoFar
  <2>3. ~Sound(BodyMeans(flag))
    BY <2>1, <2>2 DEF BodyMeans
  <2>. QED  BY <2>3 DEF Meant
<1>4. CASE stage = "definition"
  <2>1. /\ ThereIs(DefinitionFile)
        /\ text = disk[DefinitionFile] /\ dir = Dir(DefinitionFile)
    BY <1>4 DEF StageText
  <2>2. loader.funcs = ProjectFuncs(flag) /\ ~config.inline
    BY <1>1, <1>4 DEF LoadedSoFar
  <2>3. ~Sound(DefinitionMeans(flag))
    BY <2>1, <2>2 DEF DefinitionMeans
  <2>. QED  BY <2>3 DEF Meant
<1>. QED  BY <1>2, <1>3, <1>4 DEF StageText

(* It means nothing if it cannot be parsed. *)
LEMMA BeginFails ==
  ASSUME IInv, TextInv, MeansSoFar, NEW text, NEW dir, StageText(text, dir),
         ~Parses(text, Functions)
  PROVE  ~Meant(cmd.tfstate)
<1>1. \E V : text \in Seq(V)
  <2>0. config \in ConfigFile /\ disk \in [DOMAIN disk -> Text]
    BY DEF TextInv, FilesText
  <2>1. CASE stage = "locations"
    <3>1. config.states \in Seq(TFStateConfig) /\ config.states # <<>>
      BY <2>0, <2>1 DEF ConfigFile, IInv, Counted
    <3>2. Join(Locations, "break") \in Seq(Broad)
      BY <3>1, LocationsTyped DEF Broad, Locations
    <3>3. text = Join(Locations, "break")
      BY <2>1 DEF StageText
    <3>. QED  BY <3>2, <3>3
  <2>2. CASE stage = "config"
    BY <2>0, <2>2 DEF StageText, ConfigFile, Text
  <2>3. CASE stage = "definition"
    BY <2>0, <2>3 DEF StageText, ThereIs, Text
  <2>. QED  BY <2>1, <2>2, <2>3 DEF StageText
<1>2. PICK V : text \in Seq(V)
  BY <1>1
<1>3. Meaning(text, dir, loader.funcs) = Nothing
  BY <1>2, Unparsed DEF Functions, Meaning
<1>4. ~Sound(Meaning(text, dir, loader.funcs))
  BY <1>3 DEF Sound, Nothing
<1>. QED  BY <1>4, StageFails

-----------------------------------------------------------------------------
(* The end of a load *)

(* A load ends as its project means, or because it means nothing. *)
LoadEnded ==
  IF stage' = "loaded"
  THEN /\ Meant(cmd.tfstate)
       /\ cfg'.body = Decoded(BodyMeans(cmd.tfstate).out)
       /\ cfg'.definition = Decoded(DefinitionMeans(cmd.tfstate).out)
  ELSE ~Meant(cmd.tfstate)

(* A load fails if its project means nothing. *)
LEMMA FailEnds ==
  ASSUME NEW l \in Failed, Fail(l), ~Meant(cmd.tfstate)
  PROVE  LoadEnded
BY DEF Fail, LoadEnded, Failed

(* Rendering fails only if it does. *)
LEMMA RenderingEnds ==
  ASSUME IInv, TextInv, MeansSoFar, CaseApart, RenderingStep, stage' # stage
  PROVE  LoadEnded
<1>1. frames # <<>> /\ LostAt(Len(frames))
  BY RenderingLost
<1>2. ~Meaning(frames[1].text, frames[1].dir, loader.funcs).ok
  BY <1>1, RootLost
<1>3. ~Meant(cmd.tfstate)
  <2>1. ~Sound(Meaning(frames[1].text, frames[1].dir, loader.funcs))
    BY <1>2 DEF Sound
  <2>. QED  BY <1>1, <2>1, RootIsStageText, StageFails
<1>4. stage' # "loaded"
  <2>1. stage' # stage => Fail("cycle") \/ Fail("error")
    <3>1. CASE Copy \/ ReturnNested \/ ReturnMissing
      BY <3>1 DEF Copy, ReturnNested, ReturnMissing
    <3>2. CASE CallEnv \/ CallMustEnv \/ CallFile
      BY <3>2 DEF CallEnv, CallMustEnv, CallFile, Emit
    <3>3. CASE CallTFState
      BY <3>3 DEF CallTFState, Emit
    <3>4. CASE CallTemplateFile
      <4>1. CASE Nested(Target)
        BY <3>4, <4>1 DEF CallTemplateFile
      <4>2. CASE ~Nested(Target) /\ ~Parses(Contents(Target), Functions)
        BY <3>4, <4>2 DEF CallTemplateFile
      <4>3. CASE ~Nested(Target) /\ Parses(Contents(Target), Functions)
        BY <3>4, <4>3 DEF CallTemplateFile
      <4>. QED  BY <4>1, <4>2, <4>3
    <3>. QED  BY <3>1, <3>2, <3>3, <3>4 DEF RenderingStep
  <2>. QED  BY <2>1 DEF Fail
<1>. QED  BY <1>3, <1>4 DEF LoadEnded

(* A text that is not begun fails to parse, and the definition may not be there. *)
LEMMA BeginEnds ==
  ASSUME IInv, TextInv, MeansSoFar, stage' # stage, BeginLocations \/ BeginConfig \/ BeginDefinition
  PROVE  LoadEnded
<1>0. LoadedSoFar
  BY DEF MeansSoFar
<1>1. ASSUME NEW text, NEW dir, Begin(text, dir), StageText(text, dir) PROVE LoadEnded
  <2>1. ~Parses(text, Functions) /\ Fail("error")
    BY <1>1 DEF Begin
  <2>. QED  BY <1>1, <2>1, BeginFails, FailEnds DEF Failed
<1>2. CASE BeginLocations
  <2>1. PICK text : text = Join(Locations, "break")
    OBVIOUS
  <2>2. Begin(text, ConfigDir) /\ stage = "locations"
    BY <1>2, <2>1 DEF BeginLocations, Locations
  <2>. QED  BY <1>1, <2>1, <2>2 DEF StageText
<1>3. CASE BeginConfig
  <2>1. Begin(config.body, ConfigDir) /\ stage = "config"
    BY <1>3 DEF BeginConfig
  <2>. QED  BY <1>1, <2>1 DEF StageText
<1>4. CASE BeginDefinition
  <2>1. stage = "definition" /\ DefinitionPath = DefinitionFile /\ ~config.inline
    BY <1>0, <1>4 DEF BeginDefinition, DefinitionPath, DefinitionFile, LoadedSoFar, Loading
  <2>2. CASE ThereIs(DefinitionPath)
    <3>1. Begin(disk[DefinitionFile], Dir(DefinitionFile))
      BY <1>4, <2>1, <2>2 DEF BeginDefinition
    <3>2. StageText(disk[DefinitionFile], Dir(DefinitionFile))
      BY <2>1, <2>2 DEF StageText
    <3>. QED  BY <1>1, <3>1, <3>2
  <2>3. CASE ~ThereIs(DefinitionPath)
    <3>1. Fail("error")
      BY <1>4, <2>3 DEF BeginDefinition
    <3>2. DefinitionMeans(cmd.tfstate) = Nothing
      BY <2>1, <2>3 DEF DefinitionMeans
    <3>3. ~Meant(cmd.tfstate)
      BY <3>2 DEF Meant, Sound, Nothing
    <3>. QED  BY <3>1, <3>3, FailEnds DEF Failed
  <2>. QED  BY <2>2, <2>3
<1>. QED  BY <1>2, <1>3, <1>4

(* Nothing of a project that is read again after its locations is lost. *)
LEMMA StatesEnd ==
  ASSUME IInv, TextInv, MeansSoFar, AppendTFState, ~Loading'
  PROVE  LoadEnded
<1> DEFINE flag == cmd.tfstate
           n == Len(config.states)
<1>1. PICK a : a = loader.at
  OBVIOUS
<1>2. /\ stage = "states" /\ a \in 1..n /\ n \in Nat /\ Len(loader.states) = n
      /\ a \in Nat \ {0} /\ LoadedSoFar
  <2>1. config.states \in Seq(TFStateConfig)
    BY DEF TextInv, FilesText, ConfigFile
  <2>. QED  BY <1>1, <2>1 DEF AppendTFState, IInv, Counted, MeansSoFar
<1>3. /\ loader.funcs = FuncsAfter(a - 1, flag)
      /\ loader.states = [i \in DOMAIN config.states |->
               [config.states[i] EXCEPT !.location = Location(i, flag).out]]
  BY <1>1, <1>2 DEF LoadedSoFar
<1>4. PICK s : s = loader.states[a]
  OBVIOUS
<1>5. s.location = Location(a, flag).out /\ s.fn = config.states[a].fn
  <2>1. config.states \in Seq(TFStateConfig)
    BY DEF TextInv, FilesText, ConfigFile
  <2>2. config.states[a] \in TFStateConfig /\ a \in DOMAIN config.states
    BY <1>2, <2>1
  <2>3. DOMAIN config.states[a] = {"location", "fn"}
    BY <2>2 DEF TFStateConfig
  <2>4. s = [config.states[a] EXCEPT !.location = Location(a, flag).out]
    BY <1>3, <1>4, <2>2
  <2>. QED  BY <2>3, <2>4
<1>6. StateAt(a, flag) = Resolve(ConfigDir, s.location)
  BY <1>5 DEF StateAt
<1>7. CASE s.location = <<>> \/ Resolve(ConfigDir, s.location) \notin DOMAIN States
             \/ s.fn \in DOMAIN loader.funcs
  <2>1. Fail("error")
    BY <1>1, <1>4, <1>7 DEF AppendTFState
  <2>2. ~StateReadable(a, flag)
    BY <1>3, <1>5, <1>6, <1>7 DEF StateReadable
  <2>3. ~StatesThere(a, flag)
    BY <1>2, <2>2, StatesNext
  <2>4. 1..a \subseteq 1..n
    BY <1>2
  <2>5. ~StatesThere(n, flag)
    BY <2>3, <2>4 DEF StatesThere
  <2>6. ~Meant(flag)
    BY <2>5 DEF Meant
  <2>. QED  BY <2>1, <2>6, FailEnds DEF Failed
<1>8. CASE ~(s.location = <<>> \/ Resolve(ConfigDir, s.location) \notin DOMAIN States
             \/ s.fn \in DOMAIN loader.funcs)
  <2>1. stage' \in {"config", "states"}
    BY <1>1, <1>4, <1>8 DEF AppendTFState, Goto
  <2>. QED  BY <2>1 DEF Loading
<1>. QED  BY <1>7, <1>8

(* The outermost text has been rendered: it is decoded, or cannot be.      *)
LEMMA EndFails ==
  ASSUME IInv, TextInv, MeansSoFar, Rendered, ~Decodes(Top.out)
  PROVE  ~Meant(cmd.tfstate)
<1>1. frames # <<>>
  <2>1. Len(<<>>) = 0
    OBVIOUS
  <2>. QED  BY <2>1 DEF Rendered
<1>2. Meaning(frames[1].text, frames[1].dir, loader.funcs) = Something(Top.out)
  BY RootEnds
<1>3. ~Sound(Meaning(frames[1].text, frames[1].dir, loader.funcs))
  BY <1>2 DEF Sound, Something
<1>. QED  BY <1>1, <1>3, RootIsStageText, StageFails

(* A definition is what it means, and is not empty. *)
LEMMA EndDefinitionEnds ==
  ASSUME IInv, TextInv, MeansSoFar, EndDefinition
  PROVE  LoadEnded
<1> DEFINE flag == cmd.tfstate
<1>1. stage = "definition" /\ Rendered /\ frames # <<>> /\ LoadedSoFar
  <2>1. Len(<<>>) = 0
    OBVIOUS
  <2>. QED  BY <2>1 DEF EndDefinition, Rendered, MeansSoFar
<1>2. DefinitionMeans(flag) = Something(Top.out) /\ ~config.inline
  BY <1>1, RootEnds, DefinitionEnds
<1>3. DefinitionMeans(flag).out = Top.out /\ DefinitionMeans(flag).ok
  BY <1>2 DEF Something
<1>4. CASE Top.out # <<>> /\ Decodes(Top.out)
  <2>1. stage' = "loaded" /\ cfg' = [cfg EXCEPT !.definition = Decoded(Top.out),
                       !.envs = loader.envs, !.mustEnvs = loader.mustEnvs]
    BY <1>4 DEF EndDefinition
  <2>2. cfg'.definition = Decoded(DefinitionMeans(flag).out) /\ cfg'.body = cfg.body
    BY <1>3, <2>1, Fields
  <2>3. Sound(DefinitionMeans(flag)) /\ DefinitionMeans(flag).out # <<>>
    BY <1>3, <1>4 DEF Sound
  <2>4. /\ flag # <<>> => flag \in DOMAIN States
        /\ ~config.empty /\ config.valid
        /\ StatesLocated(flag) /\ StatesThere(Len(config.states), flag)
        /\ Sound(BodyMeans(flag)) /\ cfg.body = Decoded(BodyMeans(flag).out)
    BY <1>1 DEF LoadedSoFar, Loading
  <2>5. Meant(flag)
    BY <2>3, <2>4 DEF Meant, StatesLocated
  <2>. QED  BY <2>1, <2>2, <2>4, <2>5 DEF LoadEnded
<1>5. CASE ~Decodes(Top.out)
  <2>1. Fail("error")
    BY <1>5 DEF EndDefinition
  <2>. QED  BY <1>1, <1>5, <2>1, EndFails, FailEnds DEF Failed
<1>6. CASE Top.out = <<>>
  <2>1. Fail("error")
    BY <1>6 DEF EndDefinition
  <2>2. ~Meant(flag)
    BY <1>2, <1>3, <1>6 DEF Meant
  <2>. QED  BY <2>1, <2>2, FailEnds DEF Failed
<1>. QED  BY <1>4, <1>5, <1>6

(* A configuration with the definition in it has been loaded. *)
LEMMA CheckEnds ==
  ASSUME IInv, TextInv, MeansSoFar, Check, ~Loading'
  PROVE  LoadEnded
<1> DEFINE flag == cmd.tfstate
<1>1. CASE ~config.valid
  <2>1. Fail("error") /\ ~Meant(flag)
    BY <1>1 DEF Check, Meant
  <2>. QED  BY <2>1, FailEnds DEF Failed
<1>2. CASE config.valid /\ config.inline
  <2>1. stage = "check" /\ stage' = "loaded" /\ cfg' = [cfg EXCEPT !.definition = cfg.body]
    BY <1>2 DEF Check, Goto
  <2>2. cfg'.definition = cfg.body /\ cfg'.body = cfg.body
    BY <2>1, Fields
  <2>3. /\ flag # <<>> => flag \in DOMAIN States
        /\ ~config.empty
        /\ StatesLocated(flag) /\ StatesThere(Len(config.states), flag)
        /\ Sound(BodyMeans(flag)) /\ cfg.body = Decoded(BodyMeans(flag).out)
    BY <2>1 DEF MeansSoFar, LoadedSoFar, Loading
  <2>4. DefinitionMeans(flag) = BodyMeans(flag)
    BY <1>2 DEF DefinitionMeans
  <2>5. Meant(flag)
    BY <1>2, <2>3, <2>4 DEF Meant, StatesLocated
  <2>. QED  BY <2>1, <2>2, <2>3, <2>4, <2>5 DEF LoadEnded
<1>3. CASE config.valid /\ ~config.inline
  <2>1. stage' = "definition"
    BY <1>3 DEF Check, Goto
  <2>. QED  BY <2>1 DEF Loading
<1>. QED  BY <1>1, <1>2, <1>3

(* Whatever step ends a load ends it so. *)
LEMMA LoadStepEnds ==
  ASSUME IInv, TextInv, MeansSoFar, CaseApart, LoadStep, ~Loading'
  PROVE  LoadEnded
<1> DEFINE flag == cmd.tfstate
<1>0. Loading /\ stage' # stage /\ LoadedSoFar
  BY DEF LoadStep, Loading, MeansSoFar
<1>1. CASE AppendFlag(cmd.tfstate)
  <2>1. CASE flag \in DOMAIN States
    BY <1>1, <2>1 DEF AppendFlag, Goto, Loading
  <2>2. CASE flag \notin DOMAIN States
    <3>1. Fail("error") /\ flag # <<>>
      BY <1>0, <1>1, <2>2 DEF AppendFlag, LoadedSoFar
    <3>2. ~Meant(flag)
      BY <2>2, <3>1 DEF Meant
    <3>. QED  BY <3>1, <3>2, FailEnds DEF Failed
  <2>. QED  BY <2>1, <2>2
<1>2. CASE RenderingStep
  BY <1>0, <1>2, RenderingEnds
<1>3. CASE PreLoad
  <2>1. CASE config.empty
    <3>1. Fail("error") /\ ~Meant(flag)
      BY <1>3, <2>1 DEF PreLoad, Meant
    <3>. QED  BY <3>1, FailEnds DEF Failed
  <2>2. CASE ~config.empty
    BY <1>3, <2>2 DEF PreLoad, Goto, Loading
  <2>. QED  BY <2>1, <2>2
<1>4. CASE BeginLocations \/ BeginConfig \/ BeginDefinition
  BY <1>0, <1>4, BeginEnds
<1>5. CASE EndLocations \/ EndConfig
  <2>1. Rendered /\ (Decodes(Top.out) => stage' \in {"states", "check"})
    BY <1>5 DEF EndLocations, EndConfig
  <2>2. ~Decodes(Top.out)
    BY <2>1 DEF Loading
  <2>3. Fail("error")
    BY <1>5, <2>2 DEF EndLocations, EndConfig
  <2>. QED  BY <2>1, <2>2, <2>3, EndFails, FailEnds DEF Failed
<1>6. CASE AppendTFState
  BY <1>6, StatesEnd
<1>7. CASE Check
  BY <1>7, CheckEnds
<1>8. CASE EndDefinition
  BY <1>8, EndDefinitionEnds
<1>. QED  BY <1>1, <1>2, <1>3, <1>4, <1>5, <1>6, <1>7, <1>8 DEF LoadStep, Load, RenderingStep

(* A project is loaded exactly when it means something, and as what it     *)
(* means, whatever its files nest: a cycle is always found and nothing     *)
(* else is taken for one, paths are relative to the file they are written  *)
(* in, and whatever is missing anywhere fails the load                     *)
(* (config.go:199-310).                                                    *)
THEOREM LoadsWhatIsMeant == Spec => LoadsAsMeant
<1>1. IInv /\ TextInv /\ MeansSoFar /\ [Next]_vars =>
        [Loading /\ ~Loading' /\ stage' \notin {"crashed", "unavailable"} /\ CaseApart =>
           LoadEnded]_vars
  <2> SUFFICES ASSUME IInv, TextInv, MeansSoFar, Next,
                      Loading, ~Loading', stage' \notin {"crashed", "unavailable"}, CaseApart
               PROVE  LoadEnded
    OBVIOUS
  <2>1. ~\E c \in Commands : Start(c)
    BY DEF Start, Busy, Loading, Ended
  <2>2. ~(CallFails \/ Crash)
    BY DEF CallFails, Crash, Fail
  <2>3. ~(DescribeForPull \/ DescribeForInit \/ CreateConfigFile \/ CreateDefinitionFile
            \/ ReadResources \/ Replace \/ WriteConfig \/ WriteDefinition)
    BY DEF DescribeForPull, DescribeForInit, CreateConfigFile, CreateDefinitionFile,
           ReadResources, Replace, WriteConfig, WriteDefinition, Loading
  <2>4. LoadStep
    BY <2>1, <2>2, <2>3 DEF Next, Step
  <2>. QED  BY <2>4, LoadStepEnds
<1>2. Spec => [][Loading /\ ~Loading' /\ stage' \notin {"crashed", "unavailable"} /\ CaseApart =>
                   LoadEnded]_vars
  BY <1>1, Invariance, TypedTexts, LoadsAreUnderway, PTL DEF Spec
<1>. QED  BY <1>2 DEF LoadsAsMeant, LoadEnded

=============================================================================
