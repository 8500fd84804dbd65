------------------------------- MODULE MCApp -------------------------------
(* Instances of App for TLC. *)
EXTENDS AppProps, TLC

CONSTANTS current, blue, r1, own1, s1, p1

MCNames == {<<current, current>>, <<blue, blue>>, <<blue, current>>}
InDefault == [n \in Names |-> DefaultGroup]

Plain(op, a) ==
  [op |-> op, alias |-> a, dryRun |-> FALSE, keep |-> 0, skipMachine |-> FALSE,
   skipTrigger |-> FALSE, enable |-> "as it is", force |-> FALSE,
   qualifier |-> FALSE, rules |-> {}, schedules |-> {}]
Configured(c) == [c EXCEPT !.rules = Rules, !.schedules = Names]
Dry(c) == [c EXCEPT !.dryRun = TRUE]

Deploy(a) == Configured(Plain("deploy", a))
Delete(a) == Plain("delete", a)

SerialCommands ==
  {Deploy(current), Plain("deploy", current), Dry(Deploy(current)),
   [Deploy(current) EXCEPT !.skipTrigger = TRUE],
   Deploy(blue), [Deploy(blue) EXCEPT !.skipMachine = TRUE],
   [Plain("deploy", blue) EXCEPT !.skipMachine = TRUE],
   Dry(Plain("rollback", current)), Delete(current), Dry(Delete(current)),
   [Delete(blue) EXCEPT !.force = TRUE],
   Configured(Plain("status", current)),
   Configured(Plain("diff", current)),
   [Configured(Plain("diff", blue)) EXCEPT !.qualifier = TRUE]}
=============================================================================
