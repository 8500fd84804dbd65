----------------------------- MODULE Deployment -----------------------------
(***************************************************************************)
(* What the commands promise together about a state machine and the        *)
(* triggers that start it: no trigger is wired before there is a state     *)
(* machine, nor to an alias before a release has been put behind the       *)
(* alias; nothing is released once the state machine is on its way out.    *)
(* A loose alias is one whose triggers are deployed by themselves.         *)
(***************************************************************************)
CONSTANTS Aliases, Triggers, Loose

VARIABLES
  life,      \* of the state machine: "none", "serving" or "leaving"
  released,  \* the aliases with a release behind them
  wired      \* for each trigger the alias it starts, or "none"

DeploymentInit ==
  /\ life = "none"
  /\ released = {}
  /\ wired = [t \in Triggers |-> "none"]

Create ==
  /\ life = "none" /\ life' = "serving"
  /\ UNCHANGED <<released, wired>>

Release(a) ==
  /\ life = "serving"
  /\ released' = released \cup {a}
  /\ UNCHANGED <<life, wired>>

Wire(t, a) ==
  /\ life # "none"
  /\ a \in released \cup Loose
  /\ wired' = [wired EXCEPT ![t] = a]
  /\ UNCHANGED <<life, released>>

Unwire(T) ==
  /\ wired' = [t \in Triggers |-> IF t \in T THEN "none" ELSE wired[t]]
  /\ UNCHANGED <<life, released>>

Leave ==
  /\ life = "serving" /\ life' = "leaving"
  /\ UNCHANGED <<released, wired>>

DeploymentNext ==
  \/ Create
  \/ \E a \in Aliases : Release(a)
  \/ \E t \in Triggers, a \in Aliases : Wire(t, a)
  \/ \E T \in SUBSET Triggers : Unwire(T)
  \/ Leave

DeploymentSpec ==
  DeploymentInit /\ [][DeploymentNext]_<<life, released, wired>>

=============================================================================
