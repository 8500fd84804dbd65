---------------------------- MODULE MCEventBridge ----------------------------
(* Instances of EventBridgeService for TLC. *)
EXTENDS EventBridgeProps, TLC

CONSTANTS current, blue, r1, r2, own, extra, p1

Req(op, a, wanted, enabled, keepState) ==
  [op |-> op, alias |-> a, wanted |-> wanted, enabled |-> enabled,
   keepState |-> keepState]

Deletes == {Req("delete", current, {}, {}, FALSE)}
Looks(wanted) == {Req("look", current, wanted, {}, FALSE)}
Deploys(a, wanted) == {Req("deploy", a, wanted, wanted, TRUE)}
Switches(wanted) ==
  {Req("deploy", current, wanted, e, FALSE) : e \in {{}, wanted}}

SerialRequests ==
  UNION {Deploys(current, w) \cup Switches(w) : w \in SUBSET Rules}
    \cup Deploys(blue, {r1}) \cup Deploys(Unknown, {r1}) \cup Deletes \cup Looks({r1})
=============================================================================
