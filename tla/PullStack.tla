----------------------------- MODULE PullStack -----------------------------
(***************************************************************************)
(* What always holds while a project is loaded: of the stack of texts that *)
(* are being rendered, of the Terraform states still to come, and of the   *)
(* ordered maps of what the templates asked for (config.go:137-310).       *)
(***************************************************************************)
EXTENDS Pull, FiniteSets

(* The function of a Terraform state is tfstate after a prefix, and none of *)
(* the others (config.go:75-91).                                         *)
TFStateConfig == [location : Text, fn : Word \ BuiltIns]
ConfigFile == [empty : BOOLEAN, valid : BOOLEAN, states : Seq(TFStateConfig),
               inline : BOOLEAN, path : Text, body : Text]

(* A project is a configuration and finitely many other files. *)
ASSUME ProjectsAssumption ==
  /\ ConfigDir \in Text
  /\ \A p \in Projects :
       /\ p.config \in ConfigFile
       /\ IsFiniteSet(DOMAIN p.disk)
       /\ p.disk \in [DOMAIN p.disk -> Text]

ASSUME MachinesAssumption == Machines \subseteq [body : Text, definition : Text]

ASSUME CommandsAssumption ==
  /\ Commands # {}
  /\ Commands \subseteq [op : {"load", "pull", "init"}, tfstate : Text, templateize : BOOLEAN,
                         envs : Seq(Text), mustEnvs : Seq(Text), path : Text]

Stages == Ended \cup {"flag", "decode", "locations", "states", "config",
                      "check", "definition", "describe", "config file",
                      "read for config", "write config", "definition file",
                      "read for definition", "write definition"}

IsSeq(s) == s \in Seq(ToSet(s))

(* An ordered map (OrderdMap, orderd_map.go) has every key once. *)
IsMap(m) ==
  /\ IsSeq(m)
  /\ \A i \in DOMAIN m : DOMAIN m[i] = {"key", "value"}
  /\ \A i, j \in DOMAIN m : m[i].key = m[j].key => i = j

FrameFields == {"text", "next", "dir", "out", "missing"}

(* Type correctness: what is not a text is in its set, and what is a list  *)
(* is a sequence.                                                          *)
TypeOK ==
  /\ stage \in Stages
  /\ cmd \in Commands /\ machine \in Machines
  /\ IsFiniteSet(DOMAIN disk)
  /\ "states" \in DOMAIN config /\ IsSeq(config.states)
  /\ IsSeq(frames) /\ IsSeq(nested)
  /\ \A i \in DOMAIN frames : DOMAIN frames[i] = FrameFields
  /\ DOMAIN loader = DOMAIN NewLoader /\ DOMAIN cfg = DOMAIN NewConfig
  /\ IsSeq(loader.states) /\ IsSeq(cfg.states)
  /\ IsMap(loader.envs) /\ IsMap(loader.mustEnvs)

(* No Terraform state is left out, and none is looked for that is not      *)
(* configured.                                                             *)
Counted ==
  /\ loader.at \in 1..(Len(config.states) + 1)
  /\ stage \in {"flag", "decode", "locations", "describe", "config file",
                "read for config", "write config"} => loader.at = 1
  /\ stage = "locations" => config.states # <<>>
  /\ stage = "states" =>
       Len(loader.states) = Len(config.states) /\ loader.at <= Len(config.states)

(* nestedRednerFiles names the files being rendered, one per call within   *)
(* the first one, and none twice; nothing is left of them when nothing is  *)
(* rendered.                                                               *)
StackKept ==
  /\ Len(nested) = IF frames = <<>> THEN 0 ELSE Len(frames) - 1
  /\ \A i, j \in DOMAIN nested : EqualFold(nested[i], nested[j]) => i = j
  /\ \A i \in DOMAIN nested : frames[i + 1].dir = Dir(nested[i])
  /\ frames # <<>> => stage \in {"locations", "config", "definition"}

(* Only the last of them may be missing: what a missing file is rendered   *)
(* as is empty, and calls nothing.                                         *)
FilesNested ==
  \A i \in DOMAIN nested :
    /\ nested[i] \in DOMAIN disk \/ i = Len(nested)
    /\ nested[i] \notin DOMAIN disk =>
         frames[i + 1].text = <<>> /\ frames[i + 1].next = 1

(* What always holds of ConfigLoader's stack of texts (config.go:199-219). *)
IInv == TypeOK /\ Counted /\ StackKept /\ FilesNested

(* A text is nested no deeper than there are files, and one that is not    *)
(* there: this is what ends a load whose files name each other in a circle *)
(* (config.go:206-210), and MaxDepth cuts nothing off that is deeper.      *)
NestingBounded == Len(nested) <= Cardinality(DOMAIN disk) + 1

=============================================================================
