------------------------------ MODULE UnleashCall ------------------------------
(***************************************************************************)
(* What apply_change_request (app/routers/change_requests.py) relies on    *)
(* when it calls UnleashClient.apply_change_request: the call ends once,   *)
(* and it does not return normally before the change has reached Unleash.  *)
(* An exception promises nothing.  Governance takes the call in one step   *)
(* with this outcome (CallUnleash).                                        *)
(***************************************************************************)
CONSTANT Applies

VARIABLES result,    \* how each call has ended: none (not yet), ok or error
          reached    \* the calls that have changed something in Unleash

Init ==
  /\ result = [a \in Applies |-> "none"]
  /\ reached = {}

Step(a) ==
  /\ result[a] = "none"
  /\ reached' \in {reached, reached \cup {a}}
  /\ \E end \in {"none", "ok", "error"} :
       /\ result' = [result EXCEPT ![a] = end]
       /\ end = "ok" => a \in reached'

Next == \E a \in Applies : Step(a)

Spec == Init /\ [][Next]_<< result, reached >>
===============================================================================
