---------------------------- MODULE ReleaseStore ----------------------------
(***************************************************************************)
(* What any number of deploys, rollbacks and purges promise together about *)
(* the state machine they share: releases are numbered in the order they   *)
(* are published, an alias goes from release to release and never back to  *)
(* nothing, and a release is retired only while no alias routes to it,     *)
(* the newest one only while some alias still serves another.              *)
(***************************************************************************)
EXTENDS Integers

CONSTANTS Aliases

VARIABLES published, versions, routing

store == <<published, versions, routing>>

StoreInit ==
  /\ published = 0
  /\ versions = {}
  /\ routing = [a \in Aliases |-> {}]

Publish ==
  /\ published' = published + 1
  /\ versions' = versions \cup {published'}
  /\ UNCHANGED routing

Route(a) ==
  /\ \E R \in SUBSET versions :
       R # {} /\ routing' = [routing EXCEPT ![a] = R]
  /\ UNCHANGED <<published, versions>>

Served == \E a \in Aliases : routing[a] # {}

Retire(v) ==
  /\ \A a \in Aliases : v \notin routing[a]
  /\ v = published => Served
  /\ versions' = versions \ {v}
  /\ UNCHANGED <<published, routing>>

StoreNext ==
  \/ Publish
  \/ \E a \in Aliases : Route(a)
  \/ \E v \in versions : Retire(v)

StoreSpec == StoreInit /\ [][StoreNext]_store

=============================================================================
