---------------------------- MODULE MCUnleashApply ----------------------------
(* An instance of UnleashApply for TLC.                                    *)
EXTENDS UnleashApply, TLC

CONSTANTS e1, s1, s2

(* Enable with both strategies; disable with one; enable without any.      *)
SomeChanges ==
  {[env |-> e1, strategies |-> << s1, s2 >>, update |-> FALSE, enabled |-> TRUE],
   [env |-> e1, strategies |-> << s1 >>, update |-> TRUE, enabled |-> FALSE],
   [env |-> e1, strategies |-> << >>, update |-> FALSE, enabled |-> TRUE]}
===============================================================================
