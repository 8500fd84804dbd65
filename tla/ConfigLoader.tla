---------------------------- MODULE ConfigLoader ----------------------------
(***************************************************************************)
(* How a configuration and its definition file are loaded (config.go): the *)
(* configuration is decoded once as it stands to learn its Terraform       *)
(* states, whose template functions are then there when it is decoded for  *)
(* good, and when the definition is.  Each text is rendered, and so is     *)
(* every file that `template_file` names in it, to any depth.              *)
(***************************************************************************)
EXTENDS Templates

CONSTANTS
  ConfigDir,  \* the directory of the configuration, from where the command is
  MaxDepth    \* bound on the nesting of files

VARIABLES
  config,   \* the configuration file
  disk,     \* the other files there are: path |-> text
  stage,    \* what the command is at, or how it ended
  frames,   \* the calls of renderTemplate that have not returned
  nested,   \* nestedRednerFiles: the files whose calls of template_file have not
  loader,   \* what else ConfigLoader remembers
  cfg       \* the configuration in memory

files == <<config, disk>>
loading == <<stage, frames, nested, loader, cfg>>

(* config:                                                                 *)
(*   empty   it is created, and nothing is written to it                   *)
(*   valid   it migrates, and passes Restrict and ValidateVersion          *)
(*   states  the Terraform states: a location, and the name of the         *)
(*           template function, "tfstate" after func_prefix                *)
(*   inline  the definition is in it                                       *)
(*   path    or in this file                                               *)
(*   body    everything else                                               *)
(* frames:  a text, the token that comes next, the directory of the file,  *)
(*   what is rendered, and whether a variable or a file was missing        *)
(* loader:  at is the state that comes next; envs and mustEnvs are ordered  *)
(*   maps                                                                  *)

NewLoader ==
  [funcs |-> <<>>, at |-> 1, states |-> <<>>, envs |-> <<>>, mustEnvs |-> <<>>]

NewConfig ==
  [body |-> <<>>, definition |-> <<>>, states |-> <<>>, inline |-> FALSE,
   path |-> <<>>, envs |-> <<>>, mustEnvs |-> <<>>]

Goto(l) ==
  /\ stage' = l
  /\ UNCHANGED <<frames, nested>>

(* Every call of renderTemplate returns the error, and pops its file. *)
Fail(l) ==
  /\ stage' = l
  /\ frames' = <<>> /\ nested' = <<>>
  /\ UNCHANGED <<loader, cfg>>

-----------------------------------------------------------------------------
(* Rendering *)

Functions == BuiltIns \cup DOMAIN loader.funcs

NewFrame(text, dir) ==
  [text |-> text, next |-> 1, dir |-> dir, out |-> <<>>, missing |-> FALSE]

Top == Last(frames)
Unfinished(f) == f.next <= Len(f.text)
AtCall(fns) ==
  frames # <<>> /\ Unfinished(Top) /\ Top.text[Top.next] = "open"
    /\ Top.text[Top.next + 1] \in fns

Args == Arguments(Top.text, Top.next)
Target == Resolve(Top.dir, Args[1])
ThereIs(path) == path \in DOMAIN disk
Contents(path) == IF ThereIs(path) THEN disk[path] ELSE <<>>

(* The call before which the topmost text stops gives value. *)
Returned(value, found) ==
  [Top EXCEPT !.next = CloseOf(Top.text, @) + 1, !.out = @ \o value,
              !.missing = @ \/ ~found]

Emit(value, found) ==
  /\ frames' = Append(Front(frames), Returned(value, found))
  /\ UNCHANGED <<stage, nested, cfg>>

(* Text up to the next action is copied as it is. *)
Copy ==
  /\ frames # <<>> /\ Unfinished(Top) /\ Top.text[Top.next] # "open"
  /\ LET end == CHOOSE i \in Top.next..(Len(Top.text) + 1) :
                  /\ i <= Len(Top.text) => Top.text[i] = "open"
                  /\ \A j \in Top.next..(i - 1) : Top.text[j] # "open"
     IN frames' = Append(Front(frames),
          [Top EXCEPT !.next = end, !.out = @ \o SubSeq(Top.text, Top.next, end - 1)])
  /\ UNCHANGED <<stage, nested, loader, cfg>>

CallEnv ==
  /\ AtCall({"env"})
  /\ Emit(EnvValue(Args), TRUE)
  /\ loader' = [loader EXCEPT !.envs = Set(@, EnvKey(Args), EnvValue(Args))]

(* A missing variable fails the call of renderTemplate at its end. *)
CallMustEnv ==
  /\ AtCall({"must_env"})
  /\ Emit(Getenv(Args[1]), IsSet(Args[1]))
  /\ loader' = IF IsSet(Args[1])
               THEN [loader EXCEPT !.mustEnvs = Set(@, Args[1], Getenv(Args[1]))]
               ELSE loader

CallTFState ==
  /\ AtCall(DOMAIN loader.funcs)
  /\ LET found == Lookups(loader.funcs[Top.text[Top.next + 1]], Args[1])
     IN IF found = <<>> THEN Fail("error")
        ELSE Emit(found[1].value, TRUE) /\ UNCHANGED loader

CallFile ==
  /\ AtCall({"file"})
  /\ Emit(Contents(Target), ThereIs(Target))
  /\ UNCHANGED loader

(* Mutant of Nested: only the file it is called in is compared. *)
NestedInItself(target) == nested # <<>> /\ EqualFold(Last(nested), target)

Nested(target) == \E i \in DOMAIN nested : EqualFold(nested[i], target)

(* Mutant of CallTemplateFile: paths stay relative to the first file. *)
CallTemplateFileInPlace ==
  /\ AtCall({"template_file"})
  /\ Len(nested) < MaxDepth
  /\ CASE Nested(Target) -> Fail("cycle")
       [] ~Nested(Target) /\ ~Parses(Contents(Target), Functions) -> Fail("error")
       [] OTHER ->
            /\ nested' = Append(nested, Target)
            /\ frames' = Front(frames) \o
                 <<Returned(<<>>, ThereIs(Target)), NewFrame(Contents(Target), Top.dir)>>
            /\ UNCHANGED <<stage, loader, cfg>>

(* The file is rendered within the call, which Return ends. *)
CallTemplateFile ==
  /\ AtCall({"template_file"})
  /\ Len(nested) < MaxDepth
  /\ CASE Nested(Target) -> Fail("cycle")
       [] ~Nested(Target) /\ ~Parses(Contents(Target), Functions) -> Fail("error")
       [] OTHER ->
            /\ nested' = Append(nested, Target)
            /\ frames' = Front(frames) \o
                 <<Returned(<<>>, ThereIs(Target)), NewFrame(Contents(Target), Dir(Target))>>
            /\ UNCHANGED <<stage, loader, cfg>>

ReturnNested ==
  /\ Len(frames) > 1 /\ ~Unfinished(Top) /\ ~Top.missing
  /\ LET caller == frames[Len(frames) - 1] IN
     frames' = Append(SubSeq(frames, 1, Len(frames) - 2),
                      [caller EXCEPT !.out = @ \o Top.out])
  /\ nested' = Front(nested)
  /\ UNCHANGED <<stage, loader, cfg>>

ReturnMissing ==
  /\ frames # <<>> /\ ~Unfinished(Top) /\ Top.missing
  /\ Fail("error")

-----------------------------------------------------------------------------
(* The stages of Load *)

Begin(text, dir) ==
  /\ frames = <<>>
  /\ IF Parses(text, Functions)
     THEN /\ frames' = <<NewFrame(text, dir)>>
          /\ UNCHANGED <<stage, nested, loader, cfg>>
     ELSE Fail("error")

(* The outermost call returns a text that may be decoded. *)
Rendered == Len(frames) = 1 /\ ~Unfinished(Top) /\ ~Top.missing

(* --tfstate, whose path is relative to where the command runs. *)
AppendFlag(path) ==
  /\ stage = "flag"
  /\ IF path \in DOMAIN States
     THEN /\ loader' = [loader EXCEPT !.funcs = [f \in {"tfstate"} |-> States[path]]]
          /\ Goto("decode")
          /\ UNCHANGED cfg
     ELSE Fail("error")

PreLoad ==
  /\ stage = "decode"
  /\ IF config.empty THEN Fail("error")
     ELSE /\ Goto(IF config.states = <<>> THEN "config" ELSE "locations")
          /\ cfg' = [cfg EXCEPT !.inline = config.inline, !.path = config.path]
          /\ UNCHANGED loader

(* One text, with every location in it. *)
BeginLocations ==
  /\ stage = "locations"
  /\ Begin(Join([i \in DOMAIN config.states |-> config.states[i].location], "break"),
           ConfigDir)

EndLocations ==
  /\ stage = "locations" /\ Rendered
  /\ IF Decodes(Top.out)
     THEN /\ loader' = [loader EXCEPT !.states = [i \in DOMAIN config.states |->
               [config.states[i] EXCEPT !.location = Split(Top.out, "break")[i]]]]
          /\ stage' = "states"
          /\ frames' = <<>>
          /\ UNCHANGED <<nested, cfg>>
     ELSE Fail("error")

(* A function that is there already may not be defined again. *)
AppendTFState ==
  /\ stage = "states"
  /\ LET state == loader.states[loader.at]
         path == Resolve(ConfigDir, state.location)
         known == DOMAIN loader.funcs
     IN IF state.location = <<>> \/ path \notin DOMAIN States \/ state.fn \in known
        THEN Fail("error")
        ELSE /\ loader' = [loader EXCEPT !.at = @ + 1,
                  !.funcs = [f \in known \cup {state.fn} |->
                               IF f = state.fn THEN States[path] ELSE @[f]]]
             /\ Goto(IF loader.at = Len(loader.states) THEN "config" ELSE "states")
             /\ cfg' = [cfg EXCEPT !.states = loader.states]

BeginConfig ==
  /\ stage = "config"
  /\ Begin(config.body, ConfigDir)

EndConfig ==
  /\ stage = "config" /\ Rendered
  /\ IF Decodes(Top.out)
     THEN /\ cfg' = [cfg EXCEPT !.body = Decoded(Top.out)]
          /\ stage' = "check"
          /\ frames' = <<>>
          /\ UNCHANGED <<nested, loader>>
     ELSE Fail("error")

(* A configuration with the definition in it is complete: what its         *)
(* templates asked for is not noted.                                       *)
Check ==
  /\ stage = "check"
  /\ CASE ~config.valid -> Fail("error")
       [] config.valid /\ config.inline ->
            /\ cfg' = [cfg EXCEPT !.definition = cfg.body]
            /\ Goto("loaded")
            /\ UNCHANGED loader
       [] OTHER -> Goto("definition") /\ UNCHANGED <<loader, cfg>>

DefinitionPath == Resolve(ConfigDir, cfg.path)

BeginDefinition ==
  /\ stage = "definition"
  /\ IF ThereIs(DefinitionPath)
     THEN Begin(disk[DefinitionPath], Dir(DefinitionPath))
     ELSE frames = <<>> /\ Fail("error")

EndDefinition ==
  /\ stage = "definition" /\ Rendered
  /\ IF Top.out # <<>> /\ Decodes(Top.out)
     THEN /\ cfg' = [cfg EXCEPT !.definition = Decoded(Top.out),
                       !.envs = loader.envs, !.mustEnvs = loader.mustEnvs]
          /\ stage' = "loaded"
          /\ frames' = <<>>
          /\ UNCHANGED <<nested, loader>>
     ELSE Fail("error")

Load ==
  /\ \/ Copy \/ CallEnv \/ CallMustEnv \/ CallTFState \/ CallFile
     \/ CallTemplateFile \/ ReturnNested \/ ReturnMissing
     \/ PreLoad \/ BeginLocations \/ EndLocations \/ AppendTFState
     \/ BeginConfig \/ EndConfig \/ Check \/ BeginDefinition \/ EndDefinition
  /\ UNCHANGED files

=============================================================================
