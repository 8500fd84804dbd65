-------------------------------- MODULE Pull --------------------------------
(***************************************************************************)
(* The files of a project and the commands that write them: `pull` loads   *)
(* the configuration, describes the state machine and writes the           *)
(* definition file; `init` writes configuration and definition of a state  *)
(* machine that is there already (pull.go, init.go, render.go).  What is   *)
(* written is templateized: values are replaced by the calls that give     *)
(* them.  Any other command loads what is written.                         *)
(***************************************************************************)
EXTENDS ConfigLoader

CONSTANTS
  Projects,  \* the files a project may start with
  Machines,  \* what the state machine may look like in AWS
  Commands,  \* the command lines
  Faults     \* "api": a call may fail; "crash": the command may be killed

(* cmd: op; tfstate, the flag; templateize, of pull; envs, mustEnvs and     *)
(* path, the flags of init.                                                *)
VARIABLES
  machine,  \* the state machine in AWS: a definition and everything else
  cmd,      \* the command line
  data,     \* the texts of a file that is written, in one
  calls     \* the calls that are still to replace their values in it

vars == <<files, loading, machine, cmd, data, calls>>

Ended == {"new", "loaded", "ok", "error", "cycle", "unavailable", "crashed"}
Busy == stage \notin Ended \/ (stage = "loaded" /\ cmd.op = "pull")
Loading ==
  stage \in {"flag", "decode", "locations", "states", "config", "check", "definition"}

Init ==
  /\ \E p \in Projects : config = p.config /\ disk = p.disk
  /\ machine \in Machines
  /\ data = <<>> /\ calls = <<>>
  /\ cmd = CHOOSE c \in Commands : TRUE
  /\ stage = "new"
  /\ frames = <<>> /\ nested = <<>>
  /\ loader = NewLoader
  /\ cfg = NewConfig

Start(c) ==
  /\ ~Busy
  /\ cmd' = c
  /\ stage' = CASE c.op = "init" -> "describe"
                [] c.op # "init" /\ c.tfstate # <<>> -> "flag"
                [] OTHER -> "decode"
  /\ frames' = <<>> /\ nested' = <<>>
  /\ loader' = NewLoader
  /\ cfg' = NewConfig
  /\ data' = <<>> /\ calls' = <<>>
  /\ UNCHANGED <<files, machine>>

LoadStep ==
  /\ Loading
  /\ Load \/ (AppendFlag(cmd.tfstate) /\ UNCHANGED files)
  /\ UNCHANGED <<machine, cmd, data, calls>>

-----------------------------------------------------------------------------
(* The configuration that is written from *)

(* What the templates of the loaded configuration asked for stays.  Only   *)
(* a file with a known extension is written.                               *)
DescribeForPull ==
  /\ stage = "loaded" /\ cmd.op = "pull"
  /\ IF cfg.inline THEN Fail("error")
     ELSE /\ Goto("definition file")
          /\ cfg' = [cfg EXCEPT !.body = machine.body, !.definition = machine.definition]
          /\ UNCHANGED loader
  /\ UNCHANGED <<files, machine, cmd, data, calls>>

Asked(names) ==
  LET envs[i \in 0..Len(names)] ==
        IF i = 0 THEN <<>>
        ELSE Set(envs[i - 1], EnvKey(<<names[i]>>), EnvValue(<<names[i]>>))
  IN envs[Len(names)]

AskedMust(names) ==
  LET envs[i \in 0..Len(names)] ==
        IF i = 0 THEN <<>> ELSE Set(envs[i - 1], names[i], Getenv(names[i]))
  IN envs[Len(names)]

DescribeForInit ==
  /\ stage = "describe"
  /\ IF \E i \in DOMAIN cmd.mustEnvs : ~IsSet(cmd.mustEnvs[i])
     THEN Fail("error")
     ELSE /\ Goto("config file")
          /\ cfg' = [body |-> machine.body, definition |-> machine.definition,
                     states |-> IF cmd.tfstate = <<>> THEN <<>>
                                ELSE <<[location |-> cmd.tfstate, fn |-> "tfstate"]>>,
                     inline |-> FALSE, path |-> cmd.path,
                     envs |-> Asked(cmd.envs),
                     mustEnvs |-> AskedMust(cmd.mustEnvs)]
          /\ UNCHANGED loader
  /\ UNCHANGED <<files, machine, cmd, data, calls>>

-----------------------------------------------------------------------------
(* Writing: a file is created, which empties it; the values in its texts   *)
(* are replaced one after the other; then it is written.                   *)

Templateizes ==
  IF cmd.op = "pull" THEN cmd.templateize
  ELSE cmd.tfstate # <<>> \/ cmd.envs # <<>> \/ cmd.mustEnvs # <<>>

(* The new configuration does not know its directory: a location is        *)
(* relative to where the command runs.                                     *)
StatePath == Resolve(<<>>, cfg.states[1].location)
Readable == (Templateizes /\ cfg.states # <<>>) => StatePath \in DOMAIN States
CallsMade ==
  LET state == IF cfg.states = <<>> THEN <<>> ELSE States[StatePath]
  IN IF Templateizes THEN Calls(state, Len(cfg.states), cfg.mustEnvs, cfg.envs)
     ELSE <<>>

Put(path, text) == [f \in DOMAIN disk \cup {path} |-> IF f = path THEN text ELSE disk[f]]

CreateConfigFile ==
  /\ stage = "config file"
  /\ config' = [empty |-> TRUE, valid |-> TRUE, states |-> <<>>, inline |-> FALSE,
                path |-> cfg.path, body |-> <<>>]
  /\ Goto("read for config")
  /\ UNCHANGED <<disk, loader, cfg, machine, cmd, data, calls>>

CreateDefinitionFile ==
  /\ stage = "definition file"
  /\ disk' = Put(DefinitionPath, <<>>)
  /\ Goto("read for definition")
  /\ UNCHANGED <<config, loader, cfg, machine, cmd, data, calls>>

(* The resources of the Terraform state are listed. *)
ReadResources ==
  /\ stage \in {"read for config", "read for definition"}
  /\ LET locations == [i \in DOMAIN cfg.states |-> cfg.states[i].location] IN
     IF ~Readable THEN Fail("error") /\ UNCHANGED <<data, calls>>
     ELSE /\ calls' = CallsMade
          /\ IF stage = "read for config"
             THEN Goto("write config") /\ data' = Join(<<cfg.body>> \o locations, "break")
             ELSE Goto("write definition") /\ data' = cfg.definition
          /\ UNCHANGED <<loader, cfg>>
  /\ UNCHANGED <<files, machine, cmd>>

Replace ==
  /\ stage \in {"write config", "write definition"}
  /\ calls # <<>>
  /\ data' = Replaced(data, Head(calls).value, Head(calls).call)
  /\ calls' = Tail(calls)
  /\ UNCHANGED <<files, loading, machine, cmd>>

WriteConfig ==
  /\ stage = "write config" /\ calls = <<>>
  /\ config' = [config EXCEPT !.empty = FALSE, !.body = Encoded(Split(data, "break")[1]),
       !.states = [i \in DOMAIN cfg.states |->
                     [cfg.states[i] EXCEPT !.location = Split(data, "break")[i + 1]]]]
  /\ Goto("definition file")
  /\ UNCHANGED <<disk, loader, cfg, machine, cmd, data, calls>>

WriteDefinition ==
  /\ stage = "write definition" /\ calls = <<>>
  /\ disk' = Put(DefinitionPath, Marshalled(DefinitionPath, data))
  /\ Goto("ok")
  /\ UNCHANGED <<config, loader, cfg, machine, cmd, data, calls>>

-----------------------------------------------------------------------------
(* Failures *)

(* A Terraform state that is read from a bucket, or the description. *)
Calling ==
  \/ stage \in {"flag", "states", "describe"}
  \/ stage = "loaded" /\ cmd.op = "pull"
  \/ /\ stage = "read for config" \/ (stage = "read for definition" /\ cmd.op = "pull")
     /\ Templateizes /\ cfg.states # <<>>

CallFails ==
  /\ "api" \in Faults
  /\ Calling
  /\ Fail("unavailable")
  /\ UNCHANGED <<files, machine, cmd, data, calls>>

Crash ==
  /\ "crash" \in Faults
  /\ Busy
  /\ Fail("crashed")
  /\ UNCHANGED <<files, machine, cmd, data, calls>>

Step ==
  \/ LoadStep \/ DescribeForPull \/ DescribeForInit
  \/ CreateConfigFile \/ CreateDefinitionFile \/ ReadResources
  \/ Replace \/ WriteConfig \/ WriteDefinition
  \/ CallFails

Next ==
  \/ \E c \in Commands : Start(c)
  \/ Step
  \/ Crash

Spec == Init /\ [][Next]_vars

(* A command that runs goes on running. *)
FairSpec == Spec /\ WF_vars(Step)

=============================================================================
