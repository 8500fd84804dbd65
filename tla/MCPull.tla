------------------------------- MODULE MCPull -------------------------------
(* Instances of Pull for TLC. *)
EXTENDS PullProps, TLC

MCWord == STRING \ {"break"}
MCEnv ==
  "STAGE" :> <<"dev">> @@ "TEAM" :> <<"ops">> @@ "BOTH" :> <<"ops", "dev">>
    @@ "EMPTY" :> <<>> @@ "NAME" :> <<"STAGE">> @@ "SAID" :> <<"quote", "dev", "quote">>
    @@ "TF" :> <<"root", "tf">>

(* A role that is also read as a data source, and a prefix of its ARN. *)
Network == <<[key |-> <<"vpc">>, value |-> <<"arn">>]>>
Roles == <<[key |-> <<"data", "role">>, value |-> <<"arn", "role">>],
           [key |-> <<"role">>, value |-> <<"arn", "role">>],
           [key |-> <<"bucket">>, value |-> <<"arn">>]>>
MCStates == <<"root", "tf">> :> Roles @@ <<"tf">> :> Roles @@ <<"root", "arn", "tf">> :> Roles
              @@ <<"conf", "tf">> :> Network @@ <<"conf", "net">> :> Network
MCLower == "A" :> "a"
MCYaml == {"yaml"}

Env1(n) == Call("env", << <<n>> >>)
Env2(n, default) == Call("env", << <<n>>, <<default>> >>)
MustEnv(n) == Call("must_env", << <<n>> >>)
TFState(key) == Call("tfstate", << <<key>> >>)
File(path) == Call("file", <<path>>)
TemplateFile(path) == Call("template_file", <<path>>)

Def == <<"def">>
In(path) == ConfigDir \o path
State(location, fn) == [location |-> location, fn |-> fn]
Config ==
  [empty |-> FALSE, valid |-> TRUE, states |-> <<>>, inline |-> FALSE,
   path |-> Def, body |-> <<"role">> \o Env1("TEAM")]
Project(c, d) == [config |-> c, disk |-> [f \in {In(g) : g \in DOMAIN d} |->
                                            d[CHOOSE g \in DOMAIN d : In(g) = f]]]

(* A file in a directory nests its neighbour, not the file at the top. *)
Neighbours ==
  Def :> (<<"start">> \o TemplateFile(<<"sub", "a">>))
    @@ <<"sub", "a">> :> (TemplateFile(<<"b">>) \o Env2("EMPTY", "none"))
    @@ <<"sub", "b">> :> MustEnv("STAGE") @@ <<"b">> :> <<"other">>

(* A file that two others nest, and one nested twice. *)
Diamond ==
  Def :> (TemplateFile(<<"a">>) \o TemplateFile(<<"b">>) \o TemplateFile(<<"a">>))
    @@ <<"a">> :> (<<"left">> \o TemplateFile(<<"c">>))
    @@ <<"b">> :> (<<"right">> \o TemplateFile(<<"c">>))
    @@ <<"c">> :> (File(<<"text">>) \o Env1("STAGE")) @@ <<"text">> :> Env1("TEAM")

(* A cycle through the definition, one that spares it, and two files whose *)
(* names differ in case.                                                   *)
ThroughRoot == Def :> TemplateFile(<<"a">>) @@ <<"a">> :> TemplateFile(Def)
SparingRoot ==
  Def :> TemplateFile(<<"a">>) @@ <<"a">> :> TemplateFile(<<"b">>)
    @@ <<"b">> :> (<<"x">> \o TemplateFile(<<"a">>))
TwoCases ==
  Def :> TemplateFile(<<"a">>) @@ <<"a">> :> TemplateFile(<<"A">>) @@ <<"A">> :> <<"x">>

(* Something missing, or not understood, below the definition. *)
Below(text) == Def :> TemplateFile(<<"a">>) @@ <<"a">> :> (<<"x">> \o text)
Missing ==
  {Below(TemplateFile(<<"gone">>)), Below(MustEnv("UNSET")), Below(TFState("gone")),
   Below(<<"open", "open">>), Below(Env1("SAID"))}

(* What values of the environment and of Terraform stand for. *)
Values == Def :> (<<"start">> \o MustEnv("STAGE") \o Env2("UNSET", "ops") \o TFState("role"))
Caught == Def :> (MustEnv("STAGE") \o MustEnv("NAME"))
Comma == Def :> Call("env", << <<"UNSET">>, <<"ops", "comma", "dev">> >>)

With(states) == [Config EXCEPT !.states = states]
Roled == State(Env1("TF"), "tfstate")
OneState == With(<<Roled>>)
TwoStates == With(<<Roled, State(<<"net">>, "net_tfstate")>>)
Relative == With(<<State(<<"net">>, "tfstate")>>)

MCProjects ==
  {Project(Config, d) : d \in {Neighbours, Diamond, ThroughRoot, SparingRoot, TwoCases,
                               Caught, Comma} \cup Missing}
    \cup {Project(c, Values) : c \in {Config, OneState, TwoStates,
            With(<<Roled, Roled>>), With(<<State(<<"gone">>, "tfstate")>>),
            With(<<State(Env1("SAID"), "tfstate")>>),
            [Config EXCEPT !.inline = TRUE], [Config EXCEPT !.valid = FALSE]}}
    \cup {Project(c, Comma) : c \in {Relative, With(<<State(<<"tf">>, "tfstate")>>),
            With(<<State(Env1("TF"), "net_tfstate")>>)}}
    \cup {Project([Config EXCEPT !.path = <<"yaml">>], <<"yaml">> :> MustEnv("STAGE"))}

MCMachines ==
  {[body |-> <<"role">>, definition |-> <<"start", "dev", "arn", "role">>],
   [body |-> <<"ops", "STAGE">>, definition |-> <<"quote", "dev", "quote", "ops", "comma", "dev">>],
   [body |-> <<"arn">>, definition |-> <<"dev", "none">>],
   [body |-> <<"arn">>, definition |-> <<"open", "env", "TEAM", "close", "arn">>]}

Plain(op) ==
  [op |-> op, tfstate |-> <<>>, templateize |-> TRUE, envs |-> <<>>, mustEnvs |-> <<>>,
   path |-> Def]
MCCommands ==
  {Plain("load"), [Plain("load") EXCEPT !.tfstate = <<"tf">>],
   [Plain("load") EXCEPT !.tfstate = <<"gone">>],
   Plain("pull"), [Plain("pull") EXCEPT !.templateize = FALSE],
   Plain("init"),
   [Plain("init") EXCEPT !.tfstate = <<"root", "tf">>, !.envs = << <<"STAGE">>, <<"TF">> >>,
                         !.mustEnvs = << <<"SAID">> >>],
   [Plain("init") EXCEPT !.tfstate = <<"tf">>],
   [Plain("init") EXCEPT !.tfstate = <<"root", "arn", "tf">>],
   [Plain("init") EXCEPT !.mustEnvs = << <<"STAGE">>, <<"NAME">> >>],
   [Plain("init") EXCEPT !.mustEnvs = << <<"UNSET">> >>]}

Elsewhere == <<"conf">>
OnlyPull == {[Plain("pull") EXCEPT !.templateize = FALSE]}
OnlyDiamond == {Project(Config, Diamond)}
=============================================================================
