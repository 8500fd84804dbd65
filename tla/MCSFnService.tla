---------------------------- MODULE MCSFnService ----------------------------
(* Instances of SFnService for TLC. *)
EXTENDS SFnServiceProps, TLC

CONSTANTS current, blue, p1, p2

(* "current-blue" contains "current". *)
MCNames == {<<current, current>>, <<blue, blue>>, <<blue, current>>}

Cmd(op, a, keep, keepVersion, dryRun) ==
  [op |-> op, alias |-> a, keep |-> keep, keepVersion |-> keepVersion,
   dryRun |-> dryRun]

Deploys(a, keeps) == {Cmd("deploy", a, k, FALSE, FALSE) : k \in keeps}
Rollbacks(a) == {Cmd("rollback", a, 0, kv, FALSE) : kv \in BOOLEAN}
Purges(a, keeps) == {Cmd("versions", a, k, FALSE, FALSE) : k \in keeps}
DryRuns(a) == {Cmd(op, a, 0, FALSE, TRUE) : op \in {"deploy", "rollback"}}

SerialOptions ==
  UNION {Deploys(a, {0, 1, 2}) \cup Rollbacks(a) : a \in {current, blue}}
    \cup Purges(current, {0, 1, 2}) \cup DryRuns(current)

ConcurrentOptions ==
  Deploys(current, {1}) \cup Deploys(blue, {0})
    \cup {Cmd("rollback", current, 0, FALSE, FALSE)}

Symmetry == Permutations(Procs)
=============================================================================
