----------------------------- MODULE Templates -----------------------------
(***************************************************************************)
(* Texts with template actions, as text/template executes them with the    *)
(* functions of config.go:137-219, and as the Renderer writes them         *)
(* (render.go:165-331, tfstate.go:17-97).                                  *)
(*                                                                         *)
(* A text is a sequence of tokens: words, and the marks that mean          *)
(* something to a parser.  What is abstracted is how words are spelled;    *)
(* that a value occurs in a text, in a name or in another value is kept.   *)
(***************************************************************************)
EXTENDS Integers, Sequences, FiniteSets, SequencesExt

CONSTANTS
  Word,     \* what a file, a value or a name consists of
  Env,      \* the environment: its variables' values, which may be <<>>
  States,   \* the Terraform states that can be read: path |-> resources
  Lower,    \* the words that differ from another one in case only, lowered
  Yaml      \* the names of files that are YAML, not JSON

Text == Seq(Word)
Resource == [key : Text, value : Text]

(* {{ must_env `NAME` }} is <<"open", "must_env", "NAME", "close">>;       *)
(* further arguments follow a "bar".  A quotation mark within a string of  *)
(* a JSON file is escaped.  Strings that are rendered together have a      *)
(* "break" between them, which is no word.                                 *)
Marks == {"open", "close", "bar", "quote", "escaped"}
BuiltIns == {"env", "must_env", "file", "template_file"}

ASSUME WordsAssumption ==
  Marks \cup BuiltIns \cup {"comma", "tfstate"} \subseteq Word /\ "break" \notin Word

(* The values there are to be read are texts. *)
ASSUME ValuesAssumption ==
  /\ \A n \in DOMAIN Env : Env[n] \in Text
  /\ \A path \in DOMAIN States : States[path] \in Seq(Resource)

Occurs(s, t) == \E i \in 1..(Len(t) - Len(s) + 1) : SubSeq(t, i, i + Len(s) - 1) = s

(* The elements of s that are in S, in their order. *)
Only(s, S) ==
  LET kept[i \in 0..Len(s)] ==
        CASE i = 0 -> <<>>
          [] i > 0 /\ s[i] \in S -> Append(kept[i - 1], s[i])
          [] OTHER -> kept[i - 1]
  IN kept[Len(s)]

Split(s, mark) ==
  LET cut(i) == CHOOSE j \in i..(Len(s) + 1) :
        /\ j <= Len(s) => s[j] = mark
        /\ \A k \in i..(j - 1) : s[k] # mark
      parts[i \in 1..(Len(s) + 1)] ==
        IF cut(i) > Len(s) THEN <<SubSeq(s, i, Len(s))>>
        ELSE <<SubSeq(s, i, cut(i) - 1)>> \o parts[cut(i) + 1]
  IN parts[1]

Join(parts, mark) == Tail(FlattenSeq([i \in DOMAIN parts |-> <<mark>> \o parts[i]]))

(* strings.ReplaceAll: an empty string occurs before every token and at    *)
(* the end.                                                                *)
Replaced(text, from, to) ==
  LET found(i) == /\ i + Len(from) <= Len(text) + 1
                  /\ from = SubSeq(text, i, i + Len(from) - 1)
      rest[i \in 1..(Len(text) + 1)] ==
        CASE i > Len(text) -> IF from = <<>> THEN to ELSE <<>>
          [] i <= Len(text) /\ from = <<>> -> to \o <<text[i]>> \o rest[i + 1]
          [] i <= Len(text) /\ from # <<>> /\ found(i) -> to \o rest[i + Len(from)]
          [] OTHER -> <<text[i]>> \o rest[i + 1]
  IN rest[1]

-----------------------------------------------------------------------------
(* Reading a template *)

CloseOf(text, i) == CHOOSE j \in i..Len(text) :
  text[j] = "close" /\ \A k \in i..(j - 1) : text[k] # "close"

(* Every action is closed in the string it is in, and calls a function     *)
(* there is.                                                               *)
Parses(text, funcs) ==
  \A i \in 1..Len(text) : text[i] = "open" =>
    /\ \E j \in (i + 2)..Len(text) :
         /\ text[j] = "close"
         /\ \A k \in (i + 1)..(j - 1) : text[k] \notin {"open", "close", "break"}
    /\ text[i + 1] \in funcs

Arguments(text, i) == Split(SubSeq(text, i + 2, CloseOf(text, i) - 1), "bar")

(* A variable's name is one word. *)
IsSet(name) == Len(name) = 1 /\ name[1] \in DOMAIN Env
Getenv(name) == IF IsSet(name) THEN Env[name[1]] ELSE <<>>

(* The first variable that is not empty, or the last of several arguments. *)
EnvValue(args) ==
  LET names == IF Len(args) = 1 THEN args ELSE Front(args)
      set == Only(names, {n \in ToSet(names) : Getenv(n) # <<>>})
  IN CASE set # <<>> -> Getenv(set[1])
       [] set = <<>> /\ Len(args) > 1 -> Last(args)
       [] OTHER -> <<>>

(* What envs records the call under. *)
EnvKey(args) == args[1] \o <<"comma">> \o
                (IF Len(args) = 1 THEN <<>> ELSE Join(Tail(args), "comma"))

Lookups(state, key) == Only(state, {r \in ToSet(state) : r.key = key})

(* An ordered map keeps a key where it was first set. *)
Set(map, key, value) ==
  IF \E i \in DOMAIN map : map[i].key = key
  THEN [i \in DOMAIN map |-> IF map[i].key = key THEN [map[i] EXCEPT !.value = value]
                             ELSE map[i]]
  ELSE Append(map, [key |-> key, value |-> value])

Resolve(dir, path) == IF path # <<>> /\ path[1] = "root" THEN path ELSE dir \o path
Dir(path) == Front(path)

FoldCase(path) == [i \in DOMAIN path |-> IF path[i] \in DOMAIN Lower
                                         THEN Lower[path[i]] ELSE path[i]]
EqualFold(p, q) == FoldCase(p) = FoldCase(q)

(* JSON: a value pasted in with a quotation mark ends the string.          *)
Encoded(text) == [i \in DOMAIN text |-> IF text[i] = "quote" THEN "escaped" ELSE text[i]]
Decodes(text) == "quote" \notin ToSet(text)
Decoded(text) == [i \in DOMAIN text |-> IF text[i] = "escaped" THEN "quote" ELSE text[i]]

(* A member whose value is null, false or empty, "none", is not written to *)
(* a JSON file.                                                            *)
Marshalled(path, text) ==
  IF Last(path) \in Yaml THEN Encoded(text)
  ELSE Only(Encoded(text), ToSet(Encoded(text)) \ {"none"})

-----------------------------------------------------------------------------
(* Writing a template: every value is replaced by the call that gives it   *)

Call(fn, args) == <<"open", fn>> \o Join(args, "bar") \o <<"close">>

(* A resource is preferred to a data source of its type. *)
TFStateKey(state, value) ==
  LET same == Only(state, {r \in ToSet(state) : r.value = value})
      first == same[1].key
      of == Only(same, {r \in ToSet(same) : first[1] = "data" /\ r.key[1] = first[2]})
  IN IF of = <<>> THEN first ELSE of[1].key

(* One call for each value there is, the longest value first: the list is  *)
(* sorted by length, and is gone through from its end.                     *)
TFStateCalls(state) ==
  LET value(i) == state[i].value
      first == {i \in DOMAIN state : value(i) # <<>> /\ \A j \in 1..(i - 1) : value(j) # value(i)}
      before(i) == {j \in first : \/ Len(value(j)) > Len(value(i))
                                 \/ (Len(value(j)) = Len(value(i)) /\ j < i)}
      nth(k) == CHOOSE i \in first : Cardinality(before(i)) = k - 1
      call == [i \in first |->
                 [value |-> value(i),
                  call |-> Call("tfstate", <<TFStateKey(state, value(i))>>)]]
  IN [k \in 1..Cardinality(first) |-> call[nth(k)]]

MustEnvCalls(mustEnvs) ==
  [i \in DOMAIN mustEnvs |->
     [value |-> mustEnvs[i].value, call |-> Call("must_env", <<mustEnvs[i].key>>)]]

(* Mutant of EnvCalls: the default is left out. *)
EnvCallsWithoutDefault(envs) ==
  LET kept == Only(envs, {e \in ToSet(envs) : e.value # <<>>})
  IN [i \in DOMAIN kept |->
        [value |-> kept[i].value, call |-> Call("env", <<Split(kept[i].key, "comma")[1]>>)]]

EnvCalls(envs) ==
  LET kept == Only(envs, {e \in ToSet(envs) : e.value # <<>>})
  IN [i \in DOMAIN kept |->
        [value |-> kept[i].value, call |-> Call("env", Split(kept[i].key, "comma"))]]

(* In the order they are applied in.  The resources of the first state     *)
(* configured stand for those of every other.                              *)
Calls(state, nStates, mustEnvs, envs) ==
  FlattenSeq([i \in 1..nStates |-> TFStateCalls(state)])
    \o Reverse(MustEnvCalls(mustEnvs)) \o Reverse(EnvCalls(envs))

=============================================================================
