--------------------------- MODULE SFnServiceProps ---------------------------
(***************************************************************************)
(* What the runs of SFnService check and SFnServiceProofs proves.          *)
(***************************************************************************)
EXTENDS SFnService

(* Types of the cloud's and of every process's state.  With it: a retry    *)
(* never counts past retryPolicy.MaxCount (sfn_service.go:342-369,         *)
(* 586-628), so no loop runs forever.                                      *)
CloudOK ==
  /\ status \in {"ABSENT", "ACTIVE", "DELETING"}
  /\ status = "ABSENT" => published = 0
  /\ published \in 0..MaxVersion
  /\ versions \subseteq 1..published
  /\ routing \in [Aliases -> SUBSET versions]

ProcsOK ==
  /\ pc \in [Procs -> Ended \cup Calls]
  /\ opt \in [Procs -> Options]
  /\ mem \in [Procs -> Memory]

TypeOK == CloudOK /\ ProcsOK

Served == \E a \in Aliases : routing[a] # {}

(* The newest release is there, or an alias serves another one. *)
NewestOrServed == published > 0 => published \in versions \/ Served

Purging == {"ListAliases", "DescribeAliases", "ListVersions", "DeleteVersion"}
Looking == {"DescribeCurrentAlias", "ListAliases", "DescribeAliases", "ListVersions"}

(* Where a process with options o and memory m may be: a rollback goes its *)
(* own way and knows its alias once it has described it; nobody comes to   *)
(* delete without a version to delete; a dry run writes nothing.           *)
Phase(l, o, m) ==
  /\ l = "DescribeCurrentAlias" => o.op = "rollback"
  /\ o.dryRun /\ o.op # "versions" /\ l \in Calls =>
       l = "DescribeStateMachine" \/ (o.op = "rollback" /\ l \in Looking)
  /\ l = "DeleteVersion" <=> m.todo # {}
  /\ l # "DescribeAliases" => m.pending = {}
  /\ o.op = "rollback" /\ l \in Calls \ {"DescribeStateMachine", "DescribeCurrentAlias"} =>
       /\ l \in {"ListAliases", "DescribeAliases", "ListVersions",
                 "UpdateAlias", "DeleteVersion"}
       /\ m.seen[o.alias] # {}
       /\ o.alias \notin m.pending

(* What its memory tells it of the cloud, however old: an alias it has     *)
(* seen still exists, and a version it is to purge is not the newest.      *)
Known(o, m) ==
  /\ \A a \in Aliases : m.seen[a] # {} => routing[a] # {}
  /\ o.op # "rollback" => \A v \in m.todo : v < published

(* The inductive invariant behind the theorems. *)
IInv ==
  /\ TypeOK
  /\ NewestOrServed
  /\ \A p \in Procs : Phase(pc[p], opt[p], mem[p]) /\ Known(opt[p], mem[p])

(* No interleaving of deploys, rollbacks and purges, with their stale      *)
(* listings and caches, deletes every version of the state machine         *)
(* (sfn_service.go:466-502, 504-584).                                      *)
SomeVersionLeft == published > 0 => versions # {}

(* Only a rollback deletes the newest release; a purge, however old the    *)
(* listing it works from, does not (sfn_service.go:478-497, 573-581).      *)
NewestOnlyByRollback ==
  [][(published \in versions \ versions') =>
       \E p \in Procs : /\ pc[p] = "DeleteVersion" /\ opt[p].op = "rollback"
                        /\ Victim(p) = published
                        /\ mem'[p] # mem[p] ]_vars

(* All commands together behave like the abstract release store. *)
Store == INSTANCE ReleaseStore
ImplementsStore == Store!StoreSpec

-----------------------------------------------------------------------------
(* One command at a time *)

Ends(p, r) == Running(p) /\ pc'[p] = r

Pointing == {"TagResource", "WaitActive", "DescribeAlias", "CreateAlias", "UpdateAlias"}

(* A purge leaves alone as many newer versions as it was told to keep:     *)
(* more than those it has still to delete, which go newest first.          *)
Spares(l, o, m) ==
  l = "DeleteVersion" /\ o.op # "rollback" => Position(Max(m.todo), versions) >= o.keep

(* What a purge may leave of versions L: the newest it was told to keep,   *)
(* and those an alias is on, or was when the process described it.         *)
MayStay(v, L, keep, seen) ==
  \/ Position(v, L) < keep
  \/ Referencing(v) # {}
  \/ \E a \in Aliases : v \in seen[a]

(* As long as no deletion has failed, a purge leaves nothing else behind.  *)
LeavesOnly(l, o, m) ==
  l = "DeleteVersion" /\ o.op # "rollback" /\ o.keep > 0 /\ ~m.failed =>
    \A v \in versions \ m.todo : MayStay(v, versions, o.keep, m.seen)

(* What a command knows while nobody works beside it: a deploy the release *)
(* it has published, a rollback where its alias is and where it takes it.  *)
Released(l, o, m) ==
  /\ l \in Pointing => m.target = published /\ published \in versions
  /\ l \in Purging => routing[o.alias] = {published}

GoesBack(l, o, m) ==
  LET seen == m.seen[o.alias]
      older == {v \in versions : v < Max(seen)}
  IN /\ l \in Looking => m.target = 0
     /\ l \in (Looking \ {"DescribeCurrentAlias"}) \cup {"UpdateAlias"} =>
          seen = routing[o.alias]
     /\ l = "UpdateAlias" =>
          m.target \in older /\ ("list" \notin Faults => m.target = Max(older))
     /\ l = "DeleteVersion" =>
          routing[o.alias] = {m.target} /\ m.target < Max(seen) /\ m.todo = {Max(seen)}

Informed(l, o, m) ==
  /\ l \in Ended \cup {"DescribeStateMachine"} => m = Fresh
  /\ o.op = "versions" /\ l \in Calls => l \in Purging \cup {"DescribeStateMachine"}
  /\ o.op = "deploy" => Released(l, o, m)
  /\ o.op = "rollback" => GoesBack(l, o, m)

(* An alias goes forward to the newest release or back by one existing     *)
(* release, whatever failed or crashed before (sfn_service.go:302-340,     *)
(* 540-563).                                                               *)
AliasMovesByOneRelease ==
  [][\A a \in Aliases : routing'[a] # routing[a] =>
       \/ routing'[a] = {published}
       \/ routing'[a] = {Max({v \in versions : v < Max(routing[a])})}]_vars

(* A deploy that ends well leaves its alias on the newest release, which   *)
(* its own purge did not delete (deploy.go:100-134).                       *)
DeployReleases ==
  [][\A p \in Procs :
       Ends(p, "ok") /\ opt[p].op = "deploy" /\ ~opt[p].dryRun =>
         published \in versions' /\ routing'[MyAlias(p)] = {published}]_vars

(* A purge deletes a version only while as many newer ones remain as it    *)
(* was told to keep, whichever earlier commands failed or were killed      *)
(* (sfn_service.go:466-502).                                               *)
PurgeKeepsLatest ==
  [][\A p \in Procs :
       pc[p] = "DeleteVersion" /\ opt[p].op # "rollback" /\ versions' # versions =>
         Position(Victim(p), versions) >= opt[p].keep]_vars

(* A purge that ends well has deleted every version older than those it    *)
(* was told to keep, but for those an alias is on, or was when the process *)
(* described it: a deletion that failed, after others or before others     *)
(* that went well, is reported (sfn_service.go:466-502, 586-628).          *)
PurgeCompletes ==
  [][\A p \in Procs :
       /\ Ends(p, "ok") /\ opt[p].op # "rollback" /\ ~opt[p].dryRun /\ opt[p].keep > 0
       => \A v \in versions' : MayStay(v, versions', opt[p].keep, mem[p].seen)]_vars

(* A rollback that ends well has its alias on an older release, and the    *)
(* one it left is gone unless asked to be kept, still referenced, or the   *)
(* older one is shared with another alias (sfn_service.go:556-583).        *)
RollbackOutcome ==
  [][\A p \in Procs :
       Ends(p, "ok") /\ opt[p].op = "rollback" /\ mem[p].target # 0 =>
         /\ mem[p].target < Current(p)
         /\ routing'[MyAlias(p)] = {mem[p].target}
         /\ \/ opt[p].keepVersion \/ TargetShared(p)
            \/ Current(p) \notin versions'
            \/ Referencing(Current(p)) \ {MyAlias(p)} # {}]_vars

-----------------------------------------------------------------------------
(* Every command that is started ends: its loops are bounded by            *)
(* retryPolicy (sfn_service.go:84-88) and it waits for nobody else.        *)
CommandsEnd == \A p \in Procs : Running(p) ~> pc[p] \in Ended

-----------------------------------------------------------------------------
(* What the documentation says *)

(* `--keep-versions`: "Number of latest versions to keep. Older versions   *)
(* will be deleted." (deploy.go:17): after a deploy that ends well no      *)
(* older version without an alias is left.                                 *)
OlderVersionsDeleted ==
  [][\A p \in Procs :
       Ends(p, "ok") /\ opt[p].op = "deploy" /\ opt[p].keep > 0 =>
         \A v \in versions' :
           Position(v, versions') >= opt[p].keep =>
             \E a \in Aliases : v \in routing'[a] ]_vars

=============================================================================
