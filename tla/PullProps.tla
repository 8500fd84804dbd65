----------------------------- MODULE PullProps -----------------------------
(***************************************************************************)
(* What loading a project and writing it back must guarantee.              *)
(***************************************************************************)
EXTENDS PullStack

(* A text is executed from one action to the next, never within one.       *)
BetweenActions ==
  \A i \in DOMAIN frames :
    LET f == frames[i] IN
    /\ Parses(f.text, Functions)
    /\ f.next \in 1..(Len(f.text) + 1)
    /\ \A k \in 1..(f.next - 1) : f.text[k] = "open" => CloseOf(f.text, k) < f.next

(* What makes MeansSoFar inductive: a text consists of words wherever it   *)
(* is, and only where the locations are rendered together, or are written  *)
(* with the rest of the configuration, is there a break between them.      *)
Written(i) == IF stage = "locations" /\ i = 1 THEN Seq(Word \cup {"break"}) ELSE Text

FilesText == config \in ConfigFile /\ disk \in [DOMAIN disk -> Text]

FramesText ==
  /\ BetweenActions
  /\ \A i \in DOMAIN frames :
       frames[i].text \in Written(i) /\ frames[i].out \in Written(i) /\ frames[i].dir \in Text

LoaderText ==
  /\ loader.funcs \in [DOMAIN loader.funcs -> Seq(Resource)]
  /\ loader.envs \in Seq(Resource) /\ loader.mustEnvs \in Seq(Resource)

CfgText ==
  /\ cfg.body \in Text /\ cfg.definition \in Text /\ cfg.path \in Text
  /\ cfg.envs \in Seq(Resource) /\ cfg.mustEnvs \in Seq(Resource)
  /\ stage \in {"config file", "read for config", "write config"} =>
       cfg.states \in Seq(TFStateConfig) /\ Len(cfg.states) <= 1

Replacement == [value : Text, call : Text]

(* Two texts, with a break between them. *)
Broken(text) ==
  /\ text \in Seq(Word \cup {"break"})
  /\ \E i \in 1..Len(text) :
       /\ text[i] = "break"
       /\ SubSeq(text, 1, i - 1) \in Text /\ SubSeq(text, i + 1, Len(text)) \in Text

DataText ==
  /\ calls \in Seq(Replacement)
  /\ stage = "write definition" => data \in Text
  /\ stage = "write config" => IF cfg.states = <<>> THEN data \in Text ELSE Broken(data)

TextInv == FilesText /\ FramesText /\ LoaderText /\ CfgText /\ DataText

-----------------------------------------------------------------------------
(* What a project means: every text with its calls replaced by what they   *)
(* give.  A text means nothing if something in it cannot be given.         *)

Nothing == [ok |-> FALSE, out |-> <<>>]
Something(out) == [ok |-> TRUE, out |-> out]

(* tree: the files there are; below: what those mean that may still be    *)
(* nested.                                                                 *)
CallMeans(text, i, dir, tree, funcs, below) ==
  LET fn == text[i + 1]
      args == Arguments(text, i)
      target == Resolve(dir, args[1])
  IN CASE fn = "env" -> Something(EnvValue(args))
       [] fn = "must_env" -> IF IsSet(args[1]) THEN Something(Getenv(args[1])) ELSE Nothing
       [] fn = "file" -> IF target \in DOMAIN tree THEN Something(tree[target]) ELSE Nothing
       [] fn = "template_file" -> IF target \in DOMAIN below THEN below[target] ELSE Nothing
       [] OTHER -> LET found == Lookups(funcs[fn], args[1])
                   IN IF found = <<>> THEN Nothing ELSE Something(found[1].value)

(* The token is part of a call that begins before it. *)
Within(text, i) == \E k \in 1..(i - 1) : text[k] = "open" /\ CloseOf(text, k) >= i

TokenMeans(text, i, dir, tree, funcs, below) ==
  CASE text[i] = "open" -> CallMeans(text, i, dir, tree, funcs, below)
    [] text[i] # "open" /\ Within(text, i) -> Something(<<>>)
    [] OTHER -> Something(<<text[i]>>)

Means(text, dir, tree, funcs, below) ==
  LET token == [i \in DOMAIN text |-> TokenMeans(text, i, dir, tree, funcs, below)]
  IN IF Parses(text, BuiltIns \cup DOMAIN funcs) /\ \A i \in DOMAIN text : token[i].ok
     THEN Something(FlattenSeq([i \in DOMAIN text |-> token[i].out]))
     ELSE Nothing

(* What the files mean, nested no deeper than n. *)
FilesMean(tree, funcs) ==
  LET mean[n \in 0..Cardinality(DOMAIN tree)] ==
        [path \in IF n = 0 THEN {} ELSE DOMAIN tree |->
           Means(tree[path], Dir(path), tree, funcs, mean[n - 1])]
  IN mean

Meaning(text, dir, funcs) ==
  Means(text, dir, disk, funcs, FilesMean(disk, funcs)[Cardinality(DOMAIN disk)])

(* Something comes out that can be decoded. *)
Sound(meant) == meant.ok /\ Decodes(meant.out)

(* The functions there are: those of the flag, and one per Terraform state *)
(* unless one of them is not there, or is there twice.                     *)
FlagFuncs(flag) == [f \in IF flag = <<>> THEN {} ELSE {"tfstate"} |-> States[flag]]

Location(i, flag) == Meaning(config.states[i].location, ConfigDir, FlagFuncs(flag))
StateAt(i, flag) == Resolve(ConfigDir, Location(i, flag).out)

(* The first n states can be read. *)
StatesThere(n, flag) ==
  \A i \in 1..n :
    /\ Location(i, flag).out # <<>>
    /\ StateAt(i, flag) \in DOMAIN States
    /\ config.states[i].fn \notin DOMAIN FlagFuncs(flag)
    /\ \A j \in 1..(i - 1) : config.states[i].fn # config.states[j].fn

(* The functions after the first n states. *)
FuncsAfter(n, flag) ==
  [f \in DOMAIN FlagFuncs(flag) \cup {config.states[i].fn : i \in 1..n} |->
     IF f \in DOMAIN FlagFuncs(flag) THEN FlagFuncs(flag)[f]
     ELSE States[StateAt(CHOOSE i \in 1..n : config.states[i].fn = f, flag)]]

ProjectFuncs(flag) == FuncsAfter(Len(config.states), flag)
BodyMeans(flag) == Meaning(config.body, ConfigDir, ProjectFuncs(flag))
DefinitionFile == Resolve(ConfigDir, config.path)
DefinitionMeans(flag) ==
  IF config.inline THEN BodyMeans(flag)
  ELSE IF ThereIs(DefinitionFile)
       THEN Meaning(disk[DefinitionFile], Dir(DefinitionFile), ProjectFuncs(flag))
       ELSE Nothing

(* The project means something. *)
Meant(flag) ==
  /\ flag # <<>> => flag \in DOMAIN States
  /\ ~config.empty /\ config.valid
  /\ \A i \in DOMAIN config.states : Sound(Location(i, flag))
  /\ StatesThere(Len(config.states), flag)
  /\ Sound(BodyMeans(flag)) /\ Sound(DefinitionMeans(flag))
  /\ ~config.inline => DefinitionMeans(flag).out # <<>>

(* What is rendered is what the text means as far as it has been executed: *)
(* below is what the files mean that may be nested in it.  Once something  *)
(* is missing, something in the text means nothing.                        *)
Level(j, tree, funcs) == FilesMean(tree, funcs)[Cardinality(DOMAIN tree) + 1 - j]

RenderedTo(f, n, tree, funcs, below) ==
  LET token(i) == TokenMeans(f.text, i, f.dir, tree, funcs, below)
  IN IF f.missing THEN \E i \in 1..(f.next - 1) : ~token(i).ok
     ELSE /\ \A i \in 1..n : token(i).ok
          /\ f.out = FlattenSeq([i \in 1..n |-> token(i).out])

(* The text waits for what the file of its last call means. *)
Waits(f, path, tree, funcs, below) ==
  \E c \in 1..(f.next - 1) :
    /\ f.text[c] = "open" /\ f.text[c + 1] = "template_file"
    /\ CloseOf(f.text, c) = f.next - 1
    /\ Resolve(f.dir, Arguments(f.text, c)[1]) = path
    /\ RenderedTo(f, c - 1, tree, funcs, below)
    /\ ~f.missing => path \in DOMAIN tree

StackMeans(fs, ns, tree, funcs) ==
  /\ fs # <<>> =>
       RenderedTo(Last(fs), Last(fs).next - 1, tree, funcs, Level(Len(fs), tree, funcs))
  /\ \A j \in DOMAIN ns :
       /\ Waits(fs[j], ns[j], tree, funcs, Level(j, tree, funcs))
       /\ ns[j] \in DOMAIN tree => fs[j + 1].text = tree[ns[j]]

FramesMean == StackMeans(frames, nested, disk, loader.funcs)

(* The first text is what is loaded. *)
RootMeans ==
  frames # <<>> =>
    LET f == frames[1] IN
    CASE stage = "locations" ->
           /\ f.text = Join([i \in DOMAIN config.states |-> config.states[i].location], "break")
           /\ f.dir = ConfigDir
      [] stage = "config" -> f.text = config.body /\ f.dir = ConfigDir
      [] OTHER -> /\ ThereIs(DefinitionFile)
                  /\ f.text = disk[DefinitionFile] /\ f.dir = Dir(DefinitionFile)

(* What has been loaded meant something, and is what it meant. *)
StatesLocated(flag) == \A i \in DOMAIN config.states : Sound(Location(i, flag))
LoadedSoFar ==
  LET flag == cmd.tfstate
      n == Len(config.states)
  IN /\ stage = "flag" => flag # <<>>
     /\ Loading /\ stage # "flag" /\ flag # <<>> => flag \in DOMAIN States
     /\ stage \in {"decode", "locations"} => loader.funcs = FlagFuncs(flag)
     /\ Loading /\ stage \notin {"flag", "decode"} =>
          ~config.empty /\ cfg.inline = config.inline /\ cfg.path = config.path
     /\ stage = "states" =>
          /\ StatesLocated(flag) /\ StatesThere(loader.at - 1, flag)
          /\ loader.funcs = FuncsAfter(loader.at - 1, flag)
          /\ loader.states = [i \in DOMAIN config.states |->
               [config.states[i] EXCEPT !.location = Location(i, flag).out]]
     /\ stage \in {"config", "check", "definition"} =>
          StatesLocated(flag) /\ StatesThere(n, flag) /\ loader.funcs = ProjectFuncs(flag)
     /\ stage \in {"check", "definition"} =>
          Sound(BodyMeans(flag)) /\ cfg.body = Decoded(BodyMeans(flag).out)
     /\ stage = "definition" => config.valid /\ ~config.inline

(* A load is on its way to what its project means: every text on the stack *)
(* is rendered as what it means up to where it stands, with nothing left   *)
(* out or given twice when a nested file returns, and every stage has left *)
(* what the next one takes for granted (config.go:199-339).                *)
MeansSoFar == FramesMean /\ RootMeans /\ LoadedSoFar

(* Files whose names differ in case only count as one (config.go:207).     *)
CaseApart ==
  \A f, g \in DOMAIN disk : EqualFold(f, g) => f = g

(* A project is loaded exactly when it means something, and as what it     *)
(* means: no file is taken for a cycle that is not one (it may be nested   *)
(* twice, side by side), a cycle is always found, even one through the     *)
(* file that is not on the stack, a path is relative to the file it is     *)
(* written in, and whatever is missing anywhere fails the load             *)
(* (config.go:199-310).                                                    *)
LoadsAsMeant ==
  [][Loading /\ ~Loading' /\ stage' \notin {"crashed", "unavailable"} /\ CaseApart =>
       IF stage' = "loaded"
       THEN /\ Meant(cmd.tfstate)
            /\ cfg'.body = Decoded(BodyMeans(cmd.tfstate).out)
            /\ cfg'.definition = Decoded(DefinitionMeans(cmd.tfstate).out)
       ELSE ~Meant(cmd.tfstate)]_vars

(* Every command ends, whatever its files nest and whatever fails          *)
(* (config.go:206-210).                                                    *)
CommandsEnd == Busy ~> ~Busy

-----------------------------------------------------------------------------
(* Written, and read again *)

(* What is lost otherwise: an action in the text itself, a member that is  *)
(* null, false or empty (encoding.go:199), a value with a quotation mark   *)
(* (nothing escapes it again), a value that occurs in a call inserted      *)
(* before it, a comma in the arguments of env (it separates them in envs), *)
(* a state that has another function than tfstate, or that is found        *)
(* elsewhere when the configuration is loaded, or whose location is        *)
(* replaced by what only the state itself gives.                           *)
Reversible ==
  LET made == CallsMade IN
  /\ \A t \in {machine.body, machine.definition} :
       "open" \notin ToSet(t) /\ "close" \notin ToSet(t)
  /\ "none" \in ToSet(machine.definition) => Last(cfg.path) \in Yaml
  /\ \A i \in DOMAIN made :
       /\ ToSet(made[i].value) \cap Marks = {}
       /\ \A j \in 1..(i - 1) : ~Occurs(made[i].value, made[j].call)
  /\ \A i \in DOMAIN cfg.envs : EnvValue(Split(cfg.envs[i].key, "comma")) = cfg.envs[i].value
  /\ cfg.states # <<>> =>
       /\ cfg.states[1].fn = "tfstate"
       /\ StatePath = Resolve(ConfigDir, cfg.states[1].location)
       /\ \A i \in DOMAIN made : cmd.op = "init" /\ made[i].call[2] = "tfstate" =>
            ~Occurs(made[i].value, cfg.states[1].location)

(* A definition that was pulled, and a project that was initialized, loads *)
(* as the state machine was in AWS, as long as the calls written into the  *)
(* files can be reversed (render.go:165-270, init.go:24-58, pull.go:16-33).*)
LoadsAsSaved ==
  stage = "ok" /\ Reversible =>
    /\ Meant(<<>>)
    /\ Decoded(DefinitionMeans(<<>>).out) = machine.definition
    /\ cmd.op = "init" => Decoded(BodyMeans(<<>>).out) = machine.body

(* README.md says of pull: "`stefunny pull` command pull the definition    *)
(* file from the state machine and save it to the file."  What a pull      *)
(* without templates saves is the definition it has described              *)
(* (render.go:112, encoding.go:199).                                       *)
PullSaves ==
  [][cmd.op = "pull" /\ ~cmd.templateize /\ stage = "write definition" /\ stage' = "ok" =>
       Decoded(disk'[DefinitionPath]) = machine.definition]_vars

=============================================================================
