# A formal model of stefunny

stefunny deploys AWS Step Functions state machines together with the EventBridge
rules and the EventBridge Scheduler schedules that start them. This directory
holds TLA+ modules for the parts of it that change something in AWS or in a project's
files, TLC configurations that check them on small instances, and proofs, checked
by TLAPS, of what holds on every instance.

## 1. The system

stefunny is a command line. Every invocation is one short-lived process: it
reads its configuration, calls AWS step by step and exits. It stores nothing of
its own; what survives between two invocations is what AWS keeps. Nothing stops
two invocations from running at once (two CI jobs, a deploy and an operator's
rollback), and between any two calls a call may fail, the process may be killed,
or somebody may work on the same resources with other tools.

| Component | Source | State | Operations |
|---|---|---|---|
| State machine releases | `sfn_service.go`, `deploy.go`, `rollback.go`, `versions.go` | in AWS: the state machine and its status, its versions, its aliases and where they route; in the process: six caches that are never invalidated | deploy (publish, tag, wait, move the alias, purge), rollback (find the previous version, move the alias, delete the version left), `versions --delete` (purge) |
| Executions | `sfn_service.go:683-916`, `execute.go` | the execution's status; the command's context, its last description | execute: start, wait by polling, stop when interrupted, report |
| EventBridge rules | `eventbridge_service.go`, `eventbridge_rules.go` | in AWS: rules, their state, tags and targets; in the process: caches of rules | search related rules, plan (difference with the configuration), delete, put |
| Scheduler schedules | `scheduler_service.go`, `schedule.go` | in AWS: schedules by group and name, their state and target; in the process: caches of names, groups and schedules; the clock | search all groups, plan, delete, update, create |
| Command composition | `deploy.go`, `delete.go`, `app.go` | which part a command is at; the ARN once found | deploy: state machine, then rules, then schedules; delete: search, confirm, state machine, rules, schedules |
| Status, diff | `status.go`, `diff.go` | none | describe, then the searches above, printed |
| Init, pull, render, studio | `init.go`, `pull.go`, `render.go`, `studio.go` | the configuration and definition files | describe, replace values by template calls, write |
| Configuration | `config.go` | the loaded configuration; a stack of template files; the calls the templates made | load in two passes, restrict, render nested templates |
| Encoding, state machine value | `encoding.go`, `state_machine.go`, `utils.go`, `orderd_map.go` | none | JSON/YAML/Jsonnet, ARNs, tags, differences |
| Terraform state | `tfstate.go` | none | lookup functions for templates |
| Command line, logger | `cli.go`, `logger.go`, `cmd/stefunny/main.go` | the context that signals cancel | parse and dispatch |
| Paginators | `internal/sfnx`, `internal/eventbridgex` | a page token | list |

How they interact: a command calls the services one after the other and stops at
the first error. The services share nothing but the ARN of the state machine;
they depend on each other through AWS (a rule's target is the qualified ARN of an
alias that the release part moves). Within one process all is sequential, but
for the wait of `execute`, where a ticker and the canceled context race.

What is hard, and what makes each component correct:

- **Releases.** Publishing, moving an alias and deleting versions are separate
  calls decided from listings that age, and from caches that outlive the change
  they should reflect. Correct: a successful deploy leaves its alias on the
  newest release; a purge keeps as many of the newest as it was told; an alias
  moves one release at a time when rolled back; however commands interleave, a
  version that serves traffic is never deleted, and some version always is left;
  every command ends.
- **Executions.** A tick, an interrupt and the end of the execution come in any
  order. Correct: a successful command has waited for the end; an execution is
  stopped only on request; a failure is reported; the command ends.
- **Rules and schedules.** A search describes resources over many calls, a plan is
  carried out over many more. Correct: after success the triggers are those of
  the configuration, whatever state earlier failures left; triggers made by hand
  or belonging to another alias are not touched; an existing trigger keeps being
  on or off.
- **Whole commands.** Each runs over several services and may stop after any of
  them. Correct: a trigger starts an alias only once there is a release behind it;
  nothing stops being triggered before the state machine is on its way out; a
  success leaves nothing half done; what only looks changes nothing.
- **Projects.** Files nest one another, name variables and Terraform resources, and
  are written again from what AWS says. Correct: a project loads as what its texts
  mean, or fails; what is written loads as what was described.

The complete list of hazards, each with its line, is in `PROJECT.json`.

## 2. Modules

| Module | Models |
|---|---|
| `SFnService` | deploy, rollback and purge of any number of processes |
| `ReleaseStore` | abstract: what all commands together may do to a set of releases |
| `SFnServiceProps`, `SFnServiceProofs` | properties of both, the refinement mapping, the inductive invariant; proofs |
| `Execution`, `ExecutionProps`, `ExecutionProofs` | execute and its execution |
| `EventBridgeService`, `EventBridgeProps`, `EventBridgeProofs` | the rules |
| `SchedulerService`, `SchedulerProps`, `SchedulerProofs` | the schedules and the clock |
| `App`, `AppProps`, `AppProofs`, `AppOutcomes` | whole commands over instances of `SFnService`, `EventBridgeService` and `SchedulerService` |
| `Deployment` | abstract: what the commands promise about a state machine and its triggers |
| `Templates`, `TemplateProofs` | texts with template actions: how they are read, and how values become calls; proofs about these operators |
| `ConfigLoader` | loading a configuration and its definition; nested files |
| `Pull` | commands that load, pull and initialize a project, with its files |
| `PullStack`, `PullProofs` | what always holds of the stack of texts, the Terraform states and the ordered maps; proofs |
| `PullProps` | what a project means, and that it is loaded and written back as that |
| `MC*` | the constants TLC runs with |

Conventions common to the services: a process is one invocation; `pc` names the AWS call
it makes next, or how it ended (`new`, `ok`, `error`, `crashed`). One action is
one call to AWS together with the local code up to the next call, because nobody
else can observe the process in between. `mem` is the process's working memory
and caches, reset to `Fresh` when it ends. `Start` begins an invocation with any
of the given command lines; it may run again and again. A failed call is
`CallFails` (or a variant where the code goes on); `Refused` are the cases where
AWS itself must refuse; `Crash` is a kill between two calls. What was started
earlier by a failed or killed command stays in AWS, and later commands start
from there.

**SFnService.** `status`, `published`, `versions` and `routing` are AWS. A version
is its number. An alias's routing is the set of versions it sends traffic to;
the weights do not matter to any decision the code takes. `mem.seen` is
`cacheStateMachineAliasByName`: filled by `DescribeAlias`
(`describeStateMachineAlias`), never refreshed, and read by the purge
(`Purgeable`) and by rollback (`Current`, `TargetShared`). `DeleteVersion`,
`DeleteAgain`, `SkipReferenced` and `DeleteFails` are the ways
`deleteStateMachineVersion` takes: deleted, conflict with an alias whose name
contains the own one (retried), conflict with another (skipped), any other error
(remembered; the next version is tried). `WaitPanics` is the call of
`ErrorCode()` on a nil interface (`sfn_service.go:353`).

**Execution.** `Interrupt` cancels the context; from then on each call made with
it fails (`CallFails`), except `DescribeToStop` and `StopExecution`, which have a
context of their own. `Select` is the select statement of `waitExecution`: when
both branches are ready either may be taken. `StartUnnoticed` is a start whose
answer is lost.

**EventBridgeService.** `exists`, `managed` (the tag), `on` and `target` are AWS.
`Noticed` is the loop of `describeRule` that breaks at the state machine's own
target: it keeps that target and those listed before it, and AWS promises no
order, so any such subset is possible. `mem.remove/change/add` is the result of
`sliceDiff` (`Diff`) still to be carried out.

**SchedulerService.** `target` and `on` are keyed by group and name, as AWS keys
them; the process's caches (`found`, `absent`) are keyed by name alone, as the
code keys them. `now` is the clock, in hours of UTC, and `Timing` what a configured
schedule says of its end; `HasItPassed` reads both as `schedule.go:53-87` does,
which takes an hour of the configured time zone for one of UTC. A deployment
decides once, at its `Start`, what it wants (`mem.wanted`).

**App.** A step of `App` is a step of one service together with the local code that
hands over to the next, or a call `App` makes itself (`GetArnForRules`,
`DescribeStateMachine`, `DeleteStateMachine`). `stage` says which part a command is
at. The services' variables are renamed where two have the same name (`sfPc`,
`ebPc`, `scPc`). `own.found` is `cacheStateMachineArnByName`, which joins the parts
of one command: a deployment that has described or created its state machine may
still look it up, and with `"unseen"` among the faults `ListStateMachines` does not
list a new one yet; the triggers are then wired to `[known after deploy]`. A search
for a delete stops at the service's own `DeleteStateMachine`, and `Resume` goes on
from there: the rules, if any were found, then the schedules. When a command ends
early, what its services were in the middle of is forgotten (`Abandon`). `alone`
holds the processes nobody has run beside; only properties read it.
`Deployment` is the abstract specification, with the mapping in `AppProps`:
`Life` from the status, `Releases` from the routing, `Wires` from all targets.
`App` instantiates the proof modules of the services, which extend their
specifications, so that `AppProofs` can cite their theorems (`SF!Refinement`).

**Templates, ConfigLoader, Pull.** A text is a sequence of tokens: words, and the
marks that mean something to a parser. What is abstracted is spelling; that a value
occurs in a text, in a name or in another value is kept, because the replacements
of `templateize` depend on it. `ConfigLoader` executes a text from one action to the
next. `frames` are the calls of `renderTemplate` that have not returned, `nested` is
`nestedRednerFiles`; `CallTemplateFile` pushes on both, `ReturnNested` pops, and
`Fail` pops everything, as the deferred functions do. The stages of `Load` are those
of `ConfigLoader.Load` and `preLoadForTemplateFuncs`: decode, render the locations,
append their functions, render the configuration, check it, render the definition.
`loader.envs` and `loader.mustEnvs` are the ordered maps the template functions
fill; `pull` passes them to the `Renderer` (`pull.go:23-25`). Writing is three steps,
because a crash or a failure between them shows: the file is created, which empties
it; the Terraform state is read; the text is written after one `Replace` for each
call in `Calls`.

### Modelling decisions

- A state machine lives once: DELETING is final in a behaviour.
- No command deletes an alias, so none is deleted.
- AWS refuses to delete a version an alias refers to, to move an alias to a
  version that does not exist, to delete a rule that has targets, to update what
  does not exist and to create what does. Deleting a missing version or rule
  succeeds. `PutRule` sets tags only when it creates the rule.
- Publishing an unchanged definition answers with the newest version.
- `MaxVersion` is a bound and acts as a quota of AWS: beyond it publishing fails.
- A version that cannot be described is left out of the listing
  (`sfn_service.go:446`): with `"list"` among the faults a listing is any subset.
- The ARN lookup and the description of the state machine that rules and
  schedules begin with are not calls of those modules; they are calls of `App`.
- In `App`, a state machine that is gone is not created again, and does not go in
  the middle of a command that works on its releases.
- In `App`, schedules recur for ever: the clock is the business of
  `SchedulerService`.
- Paths have no `..`; a file's name is one token, so its extension is. The path of
  the definition is not among the values that are replaced.
- Terraform values of the same length are replaced in any one order.
- Calls of `file` and `template_file` are not written again: neither `pull` nor
  `init` passes the files on to the `Renderer`.
- The configuration file is YAML; a definition may be JSON or YAML (`Yaml`).
- Only the default event bus, only active schedule groups.
- An operator works on rules and schedules while no command runs: the race of an
  operator's switch with a deploy's write is lost by design of the AWS API, which
  has no conditional put. What somebody changes while a delete awaits its confirmation
  is therefore not in the model; the second search of a delete answers from the caches
  of the first (`scheduler_service.go:83,166`, `eventbridge_service.go:131`), so that it
  does not see it.
- A synchronous express execution is one step; its possible ends are all but
  ABORTED.
- A dry run stops where its last read is; for the triggers it is a search (`look`),
  as `status` and `diff` are.

## 3. What is checked

Each run also checks a type invariant, within `IInv` where that is named; it carries
facts of the kind "only a rule that exists has a tag, a state or a target", and
`IInv` what its proof needs besides.

| Run | Question | Distinct states |
|---|---|---|
| `SFnSerial` | One command after the other, over all options, with failing calls, crashes, a lagging reference and a deletion of the state machine. What does a successful deploy, purge and rollback leave (`DeployReleases`, `PurgeKeepsLatest`, `PurgeCompletes`, `RollbackOutcome`), how may an alias move (`AliasMovesByOneRelease`), does every command end (`CommandsEnd`)? | 38 thousand |
| `SFnConcurrent` | Two commands at once, stale and incomplete listings, failing calls and an operator shifting traffic: the inductive invariant `IInv`; `SomeVersionLeft`; `NewestOnlyByRollback`; `ImplementsStore` | 2.2 million |
| `EventBridgeSerial` | One deploy, delete or search after the other beside hand-made rules, with failing calls and crashes: the inductive invariant `IInv`; `RulesAsConfigured`, `StateKept`, `OtherAliasesKept`, `HandMadeRulesKept` | 1.4 million |
| `SchedulerSerial` | One deploy, delete or search after the other, two groups, failing calls, crashes, hand-made schedules, time that passes at any moment: `IInv`; `SchedulesAsConfigured`, `OthersKept`, `StateKept`, and how much too early a schedule may be deleted (`EarlyByItsZoneOnly`) | 139 thousand |
| `Execution` | One execute after the other, all options, failing calls, crashes, an interrupt at any moment: `SuccessMeansEnded`, `StopsOnlyWhenInterrupted`, `FailureReported`, `CommandEnds` | 174 |
| `App` | Whole commands, one after the other, over the state machine, a rule and a schedule; failing calls and crashes anywhere, a state machine that is not listed yet, and one that goes. Do they implement `Deployment` (`ImplementsDeployment`); what has a command done at each stage (the inductive invariants `IInv`, `DoneSoFar`), and what does an undisturbed success leave (`DeployCompletes`, `DeleteCompletes`); does everything serve until the state machine goes (`ServesUntilDeleted`); do dry runs, status and diff change nothing (`ReadOnlyChangesNothing`); does every command end (`CommandsEnd`)? | 356 thousand |
| `Pull` | Projects whose files nest neighbours, nest twice, cycle through the definition or past it, miss a file, a variable or a resource, with and without Terraform states, loaded, pulled and initialized with failing calls and crashes: the stack of template files (`IInv`), how deep it gets (`NestingBounded`), that all that has been rendered is what it means (`MeansSoFar`); `LoadsAsMeant`, `LoadsAsSaved`, `CommandsEnd` | 211 thousand |

Five runs look for something the repository says of the program, and find that
the code does otherwise:

| Run | What it shows |
|---|---|
| `SFnKeepVersions` | `deploy --keep-versions` is documented to delete older versions (`deploy.go:17`). The purge sees the alias where it was before the deploy moved it, because `describeStateMachineAlias` answers from its cache (`sfn_service.go:271`), and keeps the version just left. |
| `EventBridgeDelete` | A rule with a second target listed after the state machine's is never deleted: that target is not noticed (`eventbridge_service.go:179`), not removed, and AWS refuses. |
| `SchedulerGroups` | A related schedule found in one group is deleted in the default group (`scheduler_service.go:241`): with the name in both, an unrelated schedule goes. |
| `SchedulerZones` | A schedule two hours behind UTC is taken for passed at its hour in UTC, since `HasItPassed` reads that hour as one of UTC (`schedule.go:76-84`): the next deployment ignores it as one that "has passed" (`config.go:789`), and deletes it, before it has fired. |
| `PullSaves` | `pull` saves the definition (`README.md:327`), but a JSON file is written without the members that are null, false or empty (`encoding.go:199`): a state loses its `"ResultPath": null`, a choice its `"BooleanEquals": false`. |

Other places where the code and what is said of it, or what one would expect of
it, part ways; the properties state what the code does there:

- A rollback keeps the old version when another alias is on the version it goes to
  (`sfn_service.go:571`), though `README.md:281` says it is deleted by default
  (`RollbackOutcome`).
- A configured schedule that has passed is deleted by the next deploy, though the log
  says "skip deploy or delete" (`scheduler_service.go:223`). `EarlyByItsZoneOnly` says
  that of its own configuration a deployment deletes nothing else, but for the hours
  that `SchedulerZones` is about.
- An execution that was aborted or timed out is reported as "execution success"
  (`execute.go:104-107`): only one that is FAILED makes `execute --dump-history` fail
  (`FailureReported`).
- A deployment of triggers alone (`--skip-state-machine`) that does not find the state
  machine and has no rules, or no schedules, configured succeeds and leaves the ones
  there are (`deploy.go:137-147`; `DeployCompletes` says what it deploys otherwise).
- A delete leaves the triggers of the other aliases (`delete.go:34,43`), and once the
  state machine is gone no command reaches triggers left by a delete that failed.
- A pull from another directory than the configuration's does not find a Terraform
  state with a relative location, because `makeConfig` leaves `ConfigDir` empty
  (`render.go:215`), and fails with the definition file emptied already.
- `diff --qualifier` panics when there is no state machine (`diff.go:35`).
- Two files whose names differ in case only count as a cycle (`config.go:208`).
- `TriggerConfig.Restrict` works on copies (`config.go:629`), so the names it fills in
  are lost. It is not modelled.

### Bounds

- **Two aliases**, one name containing the other (`current`, `current-blue`): a
  single other alias suffices to reference, share or lose a version, and the
  substring test of `deleteStateMachineVersion` is exercised both ways.
- **Four versions** serially: enough for a purge that keeps two to delete two,
  one of them unsuccessfully, and for two rollbacks in a row. **Three**
  concurrently: the newest, the one before, and one to purge.
- **Two processes**: all races found are between one process's stale read and
  one other's write. The theorems cover any number.
- **Three tries** in the serial runs, so that a retry can fail, count and
  succeed; **one** concurrently, where a retry is indistinguishable from a late
  call. The code's policies allow more; only reaching the last one matters.
- **Two rules with two target ids**, **two schedules in two groups**: one
  configured and one not, one target of its own and one additional, the default
  group and another, in both listing orders.
- **Time** runs past the hours at which the program takes a schedule for passed. One
  schedule is in a zone two hours behind UTC, and deleted before it fires; the other has
  an end date, and an hour that the program cannot read.
- **One rule, one schedule, two aliases, two versions** for whole commands: what is
  new there is the order of the parts, and each service has a run of its own. Two
  tries of DeleteStateMachine. One process: what two do to each other's releases and
  triggers is checked and proved of the services.
- **Files nested to depth 4**, more than any project of the run has, so that the
  bound (`MaxDepth`) cuts nothing off; a cycle is found before. The environment has a
  variable that is empty, one that holds a quotation mark, one whose value is
  another's name, and values that occur in one another.
- **Every option** of execute; the polling interval does not matter.

### Fairness

The liveness properties `CommandsEnd` and `CommandEnds` assume weak fairness of
`Work` (`Step` in `App` and `Pull`) only: an invocation that runs makes its next call and gets some answer.
That is what an operating system and an AWS client with timeouts give. Nobody
has to start a command; a call may fail each time; no call has to succeed; an
execution need not end, and `CommandEnds` promises an end only once it has, or
the user has interrupted. The wait for ACTIVE and the deletion of a version end because
their retries are counted, as does `DeleteStateMachine` in `App`, and that is what the
mutants of these properties break. In `App` nobody has to answer the confirmation
prompt: a delete that waits there may wait for ever. In `Pull` a load ends although
files nest one another in cycles, because the stack of files grows by one that is not
on it.

## 4. What is proved

`SFnServiceProofs`, for any number of processes, aliases, versions and retries,
any command lines, any name relation and any faults. Assumptions are those of
`SFnService` only: options are well formed, a name contains itself, the bounds
are positive.

- `Invariance`: `Spec => []IInv`, hence `TypeCorrect`.
- `Safety`: some version is left once one was published, however deploys,
  rollbacks and purges interleave.
- `NewestGuarded`: only a rollback deletes the newest release.
- `Refinement`: `Spec` implements `ReleaseStore` - releases are numbered in
  order, an alias moves only to a release that is there, and one that serves
  traffic is never deleted.

The argument. `SomeVersionLeft` is not inductive: a process about to delete `v`
says nothing about what remains. `IInv` is `TypeOK` with

- `NewestOrServed`: the newest release is there, or some alias is served. It
  implies `SomeVersionLeft`, because `TypeOK` says that aliases route to versions
  that exist. A purge cannot break it: it never chooses the first of its listing,
  so what it deletes is older than something published. A rollback cannot: it
  deletes only when it has found its alias, aliases stay, and AWS refuses while
  one refers to the victim, so what that alias routes to is left;
- `Phase`: what a process may know at each call, e.g. that it deletes exactly
  while versions are left in `todo`, and that a rollback past
  `DescribeCurrentAlias` has seen its alias;
- `Known`: what its memory says of AWS, however old: an alias it has seen still
  exists, and a version it is to purge is not the newest.

Each action preserves these; the proof has one step per action.
The refinement is proved from three facts about a step: only a deletion removes
versions (`OnlyDeletionRemoves`), a deletion takes its own victim and goes on
(`DeletionMovesOn`), and each step is a step of the store or a stutter
(`StoreStep`).

`ExecutionProofs`, for any set of command lines and any faults: `Invariance`,
`Waits` (`SuccessMeansEnded`), `Reports` (`FailureReported`), `StopsOnRequest`
(`StopsOnlyWhenInterrupted`). `FailureReported` is about the status described at
the end of the wait, the execution is about AWS; what joins them is `TypeOK`'s
last conjunct (a status described as final is the execution's, because a final
status no longer changes), `AfterWait` (after the wait it is final) and
`WhileWaiting` (only an interrupted command reaches the calls that stop).

`EventBridgeProofs`, for any processes, rules, target ids, aliases, command lines and
faults: `Invariance`, `TypeCorrect`, and `HandMadeSafe` (`HandMadeRulesKept`): no
interleaving of commands, crashes and operators makes stefunny delete a rule that
lacks its tag, or take a target from it other than the one a deployment of a rule of
that name calls its own. `HandMadeRulesKept` is not inductive: the tag is read during
the search and the rule deleted calls later. `IInv` adds `Remembers` (a rule a process
has seen tagged is tagged still, or gone: nobody takes the tag away) and `Phase` (it
plans to delete only what it has seen tagged, and what it is at lies in its plan).

`SchedulerProofs`, likewise: `Invariance`, `TypeCorrect`, and `EarlyByItsZone`
(`EarlyByItsZoneOnly`): whatever the time zones, hours and end dates, a schedule of the
deployment's own configuration that is deleted will never fire again once as many more
hours have passed as its zone is behind UTC. `IInv` adds `Planned`: what a running
command has left out has passed, and it plans to delete nothing it wants; time does not
run backwards, so what has passed stays passed. What the program takes for passed is over
for AWS in a zone at or ahead of UTC, and behind UTC it is after those hours
(`PassedIsOver`).

### One command at a time

Most of what a successful command leaves does not hold while another works beside it:
a listing is old when it is used. These theorems have the hypothesis `OneProcess` (no two
processes; any number of commands one after the other, with any failures and crashes, and
with operators between them), and the further ones named here. Each rests on a
second inductive invariant, `Informs`, on top of `IInv`: what a command that runs
alone knows of AWS at each of its calls. TLC has checked each of these
invariants on the instance of the serial run before it was proved.

| Theorem | States | Further hypotheses |
|---|---|---|
| `SFnServiceProofs!PurgesKeep` | `PurgeKeepsLatest` | none |
| `SFnServiceProofs!PurgesComplete` | `PurgeCompletes` | `NoOperator`, and `"list" \notin Faults`: a version left out of the listing is not purged |
| `SFnServiceProofs!DeploysRelease`, `RollbacksEnd` | `DeployReleases`, `RollbackOutcome` | `NoOperator`: nobody shifts an alias's traffic by hand |
| `SFnServiceProofs!AliasesMove` | `AliasMovesByOneRelease` | `NoOperator`; every version in a listing can be described (`"list" \notin Faults`), or the one before would be skipped |
| `EventBridgeProofs!ConfiguredRules`, `StatesKept`, `OtherAliasesSafe` | `RulesAsConfigured`, `StateKept`, `OtherAliasesKept` | none |
| `SchedulerProofs!ConfiguredSchedules`, `StatesKept`, `OthersSafe` | `SchedulesAsConfigured`, `StateKept`, `OthersKept` | `NoClash`: no name is used in two groups (with one that is, the run `SchedulerGroups` shows an unrelated schedule deleted) |

- Releases: `Spares` (the versions still to be purged are preceded by as many newer
  ones as are to be kept: they go newest first, so an error or a crash on the way leaves
  the rest spared), `LeavesOnly` (as long as no deletion has failed, what a purge has
  dealt with is gone or may stay), `Released` (between publishing and moving the alias the target is the
  newest release and is there; during the purge the alias is on it), `GoesBack`
  (a rollback has its alias as it is, and a target that is older, the next older one if all
  versions are listed).
- Rules: while a command searches, what it has cached is what AWS has (`Cached`); once it
  writes, what is not in its plan any more is as configured (`Lacks`), and what remains of
  the plan has the state the search has read.
- Schedules: the same, and `Unique`: while no name is in two groups, a cache keyed by
  name is as good as one keyed by group and name.

### Whole commands

`AppProofs`, for any processes, command lines, aliases, rules, schedules and faults, with
no restriction to one process unless it is said:

- `RunsItsServices`: `Spec => SF!Spec /\ EB!Spec /\ SC!Spec`. A behaviour of the
  composition is one of each service, so each theorem above holds of whole commands.
  `ReleasesSafe`, `TriggersSafe` and, for one process, `PartsKeepTheirWord` spell this out.
- `Invariance`: the services' invariants together with `Asked` (a service at work does what
  the command line says, with an ARN only when there is a state machine), `Pointed` (a
  deployment past its alias has released it) and `Placed` (which command may be at which
  stage; triggers found for a delete are deleted only once the state machine is being
  deleted).
- `LooksOnly` (`ReadOnlyChangesNothing`): while all commands that run are dry runs,
  `status` or `diff`, no step changes anything. It needs of the services that a
  process that writes may write (`Phase`, `MayWrite`), and that a step writes to one
  service only.
- `ServesOn` (`ServesUntilDeleted`): only deletes at work take no trigger away before
  the state machine is being deleted.
- `DeploymentPromised` (`ImplementsDeployment`): `Spec` implements `Deployment`. An
  alias has a release once and for ever, so a deployment that has seen its own
  (`Pointed`) may wire triggers however old that is; a step changes the status, the
  routing or the triggers of one service, and each is a step of `Deployment` or a
  stutter.

`AppOutcomes` proves what a whole command that succeeds leaves: `DeploysComplete`
(`DeployCompletes`) and `DeletesComplete` (`DeleteCompletes`), for any faults, whatever
failed or was killed before, under the one hypothesis `OneProcess`. That nobody shifts
traffic and that no schedule name is used in two groups is not a further hypothesis here
but a fact of `App` (`NobodyByHand`): it has no operators beside its commands. The
properties speak of commands nobody has run beside (`alone`), which with one process is
all of them; what a command finds after others have overlapped is not claimed.

- A service's `Informs` says what its part leaves (`RulesDone`, `SchedulesDone`,
  `MachineDone`), not what is still so when the last part ends. `WorkDone` (`DoneSoFar`)
  adds what `App` carries from one part to the next: a deployment at its triggers has its
  alias on the newest release, and at its schedules it has its rules; a delete comes to
  the schedules for good with the state machine DELETING and the rules gone.
- A deployment that does not find the state machine asks for `[known after deploy]`. It
  succeeds only with nothing configured, and is right to, because then nothing starts the
  alias: the state machine has just been created, and before it there were no triggers of
  it (`NothingBefore`). With `--skip-state-machine` that argument is missing, and
  `LooksFor` leaves the case out (section 3).
- `RulesOwn`: the rules there are have the tag and no target but the one the commands put,
  so that a rule is not overlooked by the search for managed ones.

### Projects

`PullProofs`, for any environment, Terraform states, projects, state machines and command
lines. The assumptions are of data, and such as the code gives them: the environment and
the Terraform states hold texts (`ValuesAssumption`); a project is finitely many files, a
configuration with its fields and texts (`ProjectsAssumption`), whose states have functions
named `tfstate` after a prefix, hence none of the built-in ones (`config.go:82-91`); what AWS
and the flags of a command give are texts (`MachinesAssumption`, `CommandsAssumption`); the
marks of a template are words, and the break between two strings rendered together is not
(`WordsAssumption`).

- `Invariance`: `StackKept` (one file on `nestedRednerFiles` for each call of
  `renderTemplate` within the first, none twice, each with its own directory, and none
  when nothing is rendered: every way out pops what it pushed), `FilesNested` (only the
  last of them can be missing, because a missing file is empty and calls nothing), `Counted`
  (no Terraform state is left out or read past the last) and `TypeOK` (ordered maps
  have each key once).
- `NestsFewFiles` (`NestingBounded`): texts nest no deeper than there are files and one
  missing one. The files on the stack but the last are in the project and pairwise
  different, so they inject into its files. This is the bound that ends a load of files
  that name each other in circles, and it does not depend on `MaxDepth`.
- `TypedTexts` (`TextInv`), on which `LoadsAreUnderway` rests: words are all there
  is in every text of the loader, the configuration and the files, and where two texts are
  put together (the locations that are rendered at once, the configuration that is
  written with its location) the break between them survives rendering and replacing, so
  that they are taken apart as they were. No value has a break in it, hence none is
  replaced across one (`ReplacedBroken`). What is parsed comes from files that were
  written earlier, from values of the environment and of Terraform, and from
  replacements, so all of these are part of it.

- `LoadsAreUnderway` (`MeansSoFar`) and `LoadsWhatIsMeant` (`LoadsAsMeant`): a load that
  is not cut short ends in `loaded` exactly when the project means something, and then
  the configuration and the definition in memory are what it means. What a project means
  (`Meaning`, `Meant`) is given without a stack, a stage or a loader: each text with its
  calls replaced, the files nested in it taken from a table that is as deep as there are
  files. The proof has four parts.
  - Rendering (`RenderingMeans`). The invariant (`FramesMean`) is that each text on the stack has
    been rendered as what its tokens mean up to where it stands, and waits for what the
    file above it means. A call adds what it means (`CallExtends`), what is copied
    adds itself (`CopyExtends`), and a file that returns gives the text that nests it what the
    table has for it, one level further down (`ReturnMeans`). So when a first text ends, what
    came out is its meaning (`RootEnds`).
  - Failing (`RenderingLost`, `RootLost`). Rendering ends in an error only where a token
    means nothing, and this spreads to what is loaded. The case that matters is the
    cycle: a set of files each of which nests one of the set means nothing at any level of
    the table, because each is there only if another is there one level further down
    (`Circle`). So a cycle that is found was one, for files that are told apart by more than
    case (`CaseApart`).
  - Locations (`LocationsAre`). The code renders all locations of Terraform states with one
    call, before any of their functions is there. That this gives what each means by itself is
    proved for two texts with a break between them (`Halves`: parsing, meaning and
    decoding of the whole are those of the halves), and then for any number (`JoinedMean`).
  - Stages (`LoadedSoFar`). After the first `n` states the functions are those of the flag and of
    `n` states, if each can be read and has a name of its own (`FuncsNext`); each stage
    hands over what it made (`EndLocationsMeans`, `AppendTFStateMeans`, `EndConfigMeans`,
    `CheckMeans`), and a stage that fails does so for something the project lacks
    (`StageFails`, `StatesEnd`, `CheckEnds`).

`TemplateProofs` has what these rest on: what `Split`, `Join`, `Replaced`, `Only`,
`FlattenSeq` and the calls that are written return for every text. These operators are
recursive functions. The induction theorems of the library cannot be used (they take an
operator for a parameter), but its theorem that a set of numbers has a least element can:
`LeastNumber` and `Induction` make of it an induction over sets, and `Iteration` and
`Chain` the functions that are defined by going through a text from its beginning or
its end.

### Only model-checked

- Liveness: `CommandsEnd`, `CommandEnds`, out of the prover's reach.
- `LoadsAsSaved` of `Pull`: what is read of what was written depends on how every
  replacement met the calls inserted before it. It is not a theorem for every value of
  the constants as it stands: a state machine whose text contains a mark of the
  templates, a variable or resource whose name contains one, or a project whose other
  files call `file` on the file `pull` writes, can make the texts read differ from
  those saved. The run's constants have none of these; a proof would need each as an
  assumption, and an induction over the replacements.

## 5. What is not modelled

- What `render`, `status`, `diff` and `versions` print, `studio`, textual
  diffs, logging, and parsing of the command line: no state another step depends on.
- The triggers that `init` writes into a configuration (`init.go:89-146`), and the
  calls of `file` and `template_file` (`render.go:275-319`), which no command makes
  `templateize` re-create.
- Migration of deprecated fields and `Restrict` (`config.go:406-695,806-903`):
  a configuration is valid or not, as an input.
- Jsonnet, key spelling and indentation (`encoding.go`).
- Which attributes of a Terraform resource are looked up (`tfstate.go:96-170`): a state
  is its list of keys and values.
- Pages of a listing read at different times, and the generated mocks.

## 6. Plan

1. Two processes in `App`, with commands for two aliases.
2. The triggers of `init`, with the searches of the services.
