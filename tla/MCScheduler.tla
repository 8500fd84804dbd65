----------------------------- MODULE MCScheduler -----------------------------
(* Instances of SchedulerService for TLC. *)
EXTENDS SchedulerProps, TLC

CONSTANTS current, blue, s1, s2, p1

Req(op, a, wanted, enabled, keepState) ==
  [op |-> op, alias |-> a, wanted |-> wanted, enabled |-> enabled,
   keepState |-> keepState]

Deletes == {Req("delete", current, {}, {}, FALSE)}
Looks(wanted) == {Req("look", current, wanted, {}, FALSE)}
Deploys(a, wanted) == {Req("deploy", a, wanted, wanted, TRUE)}
Switches(wanted) ==
  {Req("deploy", current, wanted, e, FALSE) : e \in {{}, wanted}}

SerialRequests ==
  UNION {Deploys(current, w) \cup Switches(w) : w \in SUBSET Names}
    \cup Deploys(blue, {s1}) \cup Deploys(Unknown, {s1}) \cup Deletes \cup Looks({s1})

Once(at, zone, readable) == [end |-> 0, at |-> at, zone |-> zone, readable |-> readable]

(* s1 fires once, two hours west of UTC; s2 has an end date, and an hour   *)
(* that nobody reads.                                                      *)
West ==
  [n \in Names |-> IF n = s1 THEN Once(1, -2, TRUE)
                            ELSE [Once(1, 1, FALSE) EXCEPT !.end = 2]]

AllInDefault == [n \in Names |-> DefaultGroup]
=============================================================================
