----------------------------- MODULE UnleashApply -----------------------------
(***************************************************************************)
(* UnleashClient.apply_change_request (app/unleash_client.py): the HTTP    *)
(* requests one apply sends to the Unleash admin API, each retried by      *)
(* _request_with_retry, and the feature they change.                       *)
(*                                                                         *)
(* Several applies can work on one feature at once: the change requests of *)
(* one flag are independent of each other, and handlers run in threads     *)
(* that share the client.  Unleash itself is seen through its answers; a   *)
(* request whose answer is lost may have been executed or not.             *)
(***************************************************************************)
EXTENDS Naturals, Sequences, FiniteSets, Functions

CONSTANTS Applies,     \* calls of apply_change_request, for one feature
          Changes,     \* what they may ask for
          Envs,        \* environments
          Strategies,  \* activation strategies
          Attempts,    \* stop_after_attempt of _request_with_retry
          Faults       \* how a request can fail: see Faulty

(* Change: the environment, the strategies in the order of the list, does  *)
(* desired_changes have metadata to PUT, and its "enabled" (default True). *)
Change == [env : Envs, strategies : Seq(Strategies), update : BOOLEAN,
           enabled : BOOLEAN]

(* transient: a 5xx answer, no connection, a timeout; rejected: a 4xx;     *)
(* broken: any other exception of httpx, which nobody retries.             *)
Faulty == {"transient", "rejected", "broken"}

ASSUME UnleashApplyAssumption ==
  /\ IsFiniteSet(Applies)
  /\ Changes \subseteq Change
  /\ Attempts \in Nat \ {0}
  /\ Faults \subseteq Faulty

VARIABLES
  exists,    \* the feature exists
  copies,    \* how often each strategy is in each environment
  on,        \* the environments in which the feature is enabled
  pc,        \* the next request of an apply, or how it has ended
  change,    \* what the apply was called with
  added,     \* how many of its strategies have been accepted
  tries,     \* failed attempts at its current request
  reached    \* history: the applies that have changed something

server == << exists, copies, on, reached >>
vars == << exists, copies, on, reached, pc, change, added, tries >>

Ended == {"ok", "error"}

(* Any feature there may be: not yet created, or left by earlier applies.  *)
Init ==
  /\ \/ /\ exists = FALSE
        /\ copies = [e \in Envs |-> [s \in Strategies |-> 0]]
        /\ on = {}
     \/ /\ exists = TRUE
        /\ copies \in [Envs -> [Strategies -> 0..1]]
        /\ on \in SUBSET Envs
  /\ pc = [a \in Applies |-> "idle"]
  /\ change \in [Applies -> Changes]
  /\ added = [a \in Applies |-> 0]
  /\ tries = [a \in Applies |-> 0]
  /\ reached = {}

Call(a) ==
  /\ pc[a] = "idle"
  /\ pc' = [pc EXCEPT ![a] = "get"]
  /\ UNCHANGED << server, change, added, tries >>

-------------------------------------------------------------------------------
(* One attempt of _request_with_retry.                                     *)

(* Slip: an exception is swallowed.                                        *)
FailSilently(a) ==
  /\ pc' = [pc EXCEPT ![a] = "ok"]
  /\ UNCHANGED << change, added, tries >>

(* The exception ends apply_change_request wherever it is: nothing catches *)
(* it there, and nothing undoes the requests that went before.             *)
Fail(a) ==
  /\ pc' = [pc EXCEPT ![a] = "error"]
  /\ UNCHANGED << change, added, tries >>

(* Slip: one attempt more than stop_after_attempt allows.                  *)
RetryOnceMore(a) ==
  IF tries[a] < Attempts
  THEN tries' = [tries EXCEPT ![a] = @ + 1] /\ UNCHANGED << pc, change, added >>
  ELSE Fail(a)

(* Another attempt, or the last failure is raised again.                   *)
Retry(a) ==
  IF tries[a] + 1 < Attempts
  THEN tries' = [tries EXCEPT ![a] = @ + 1] /\ UNCHANGED << pc, change, added >>
  ELSE Fail(a)

Advance(a, next) ==
  /\ pc' = [pc EXCEPT ![a] = next]
  /\ tries' = [tries EXCEPT ![a] = 0]
  /\ UNCHANGED change

(* acceptable: Unleash can execute the request in the present state;       *)
(* effect: what it then does; proceed: what the caller does on a 2xx.      *)
Request(a, acceptable, effect, proceed) ==
  \/ acceptable /\ effect /\ proceed
  \/ (~acceptable \/ "rejected" \in Faults) /\ UNCHANGED server /\ Fail(a)
  \/ "transient" \in Faults /\ UNCHANGED server /\ Retry(a)
  \/ "transient" \in Faults /\ acceptable /\ effect /\ Retry(a)
  \/ "broken" \in Faults /\ UNCHANGED server /\ Fail(a)
  \/ "broken" \in Faults /\ acceptable /\ effect /\ Fail(a)

-------------------------------------------------------------------------------
(* Slip: the loop over the strategies ends one too early.                  *)
AfterMostStrategies(a, n) ==
  IF n + 1 < Len(change[a].strategies) THEN "strategy" ELSE "toggle"

(* Where apply_change_request is when n strategies have been added.        *)
AfterStrategies(a, n) ==
  IF n < Len(change[a].strategies) THEN "strategy" ELSE "toggle"

(* Slip: on a 404, poll until somebody has created the feature.            *)
PollFeature(a) ==
  /\ pc[a] = "get"
  /\ Request(a, exists, UNCHANGED server,
       Advance(a, AfterStrategies(a, 0)) /\ UNCHANGED added)
  /\ exists

(* get_feature: 200 leads to the update branch, 404 to the create branch.  *)
GetFeature(a) ==
  /\ pc[a] = "get"
  /\ Request(a, TRUE, UNCHANGED server,
       /\ Advance(a, IF ~exists THEN "create"
                     ELSE IF change[a].update THEN "update"
                     ELSE AfterStrategies(a, 0))
       /\ UNCHANGED added)

(* update_feature: PUT of the metadata, which no property looks at.        *)
UpdateFeature(a) ==
  /\ pc[a] = "update"
  /\ Request(a, TRUE,
       reached' = reached \cup {a} /\ UNCHANGED << exists, copies, on >>,
       Advance(a, AfterStrategies(a, 0)) /\ UNCHANGED added)

(* create_feature: a name that is taken is a 409 - also when it is this    *)
(* call that has taken it, in an attempt whose answer was lost.            *)
CreateFeature(a) ==
  /\ pc[a] = "create"
  /\ Request(a, ~exists,
       exists' = TRUE /\ reached' = reached \cup {a} /\ UNCHANGED << copies, on >>,
       Advance(a, AfterStrategies(a, 0)) /\ UNCHANGED added)

(* add_strategies: one POST per strategy; a POST adds a copy every time.   *)
AddStrategy(a) ==
  /\ pc[a] = "strategy"
  /\ LET e == change[a].env
         s == change[a].strategies[added[a] + 1]
     IN  Request(a, TRUE,
           /\ copies' = [copies EXCEPT ![e][s] = @ + 1]
           /\ reached' = reached \cup {a}
           /\ UNCHANGED << exists, on >>,
           /\ Advance(a, AfterStrategies(a, added[a] + 1))
           /\ added' = [added EXCEPT ![a] = @ + 1])

(* Slip: "off" and "on" swapped.                                           *)
WrongWay(a) == IF change[a].enabled THEN on \ {change[a].env} ELSE on \cup {change[a].env}

Toggled(a) == IF change[a].enabled THEN on \cup {change[a].env} ELSE on \ {change[a].env}

(* toggle_environment, the last request.                                   *)
ToggleEnvironment(a) ==
  /\ pc[a] = "toggle"
  /\ Request(a, TRUE,
       /\ on' = Toggled(a)
       /\ reached' = reached \cup {a}
       /\ UNCHANGED << exists, copies >>,
       Advance(a, "ok") /\ UNCHANGED added)

Proceed(a) ==
  \/ GetFeature(a)
  \/ UpdateFeature(a)
  \/ CreateFeature(a)
  \/ AddStrategy(a)
  \/ ToggleEnvironment(a)

Next == \E a \in Applies : Call(a) \/ Proceed(a)

Spec == Init /\ [][Next]_vars

(* The timeouts of the client end every attempt, so a call that has begun  *)
(* goes on; nothing makes an attempt succeed.                              *)
Fairness == \A a \in Applies : WF_vars(Proceed(a))

LiveSpec == Spec /\ Fairness

-------------------------------------------------------------------------------
(***************************************************************************)
(* Properties                                                              *)
(***************************************************************************)

TypeOK ==
  /\ exists \in BOOLEAN
  /\ copies \in [Envs -> [Strategies -> Nat]]
  /\ on \subseteq Envs
  /\ reached \subseteq Applies
  /\ pc \in [Applies -> {"idle", "get", "update", "create", "strategy",
                         "toggle"} \cup Ended]
  /\ change \in [Applies -> Changes]
  /\ added \in [Applies -> Nat]
  /\ tries \in [Applies -> 0..(Attempts - 1)]

(* How many of the first n strategies of the apply are s, in environment e.*)
Asked(a, e, s, n) ==
  IF change[a].env # e THEN 0
  ELSE Cardinality({i \in 1..n : change[a].strategies[i] = s})

(* How many of them each apply asks for in all.                            *)
AskedInAll(e, s) ==
  [a \in Applies |-> Asked(a, e, s, Len(change[a].strategies))]

(* Nothing that was accepted is lost: an apply that has returned normally  *)
(* leaves a feature that exists, in which each of its strategies has at    *)
(* least the copies asked for by all the applies that have returned - also *)
(* when they ran at the same time or raced to create the feature.          *)
OkIsApplied ==
  \A a \in Applies : pc[a] = "ok" =>
    /\ exists
    /\ \A s \in Strategies :
         copies[change[a].env][s] >=
           SumFunctionOnSet(AskedInAll(change[a].env, s), {q \in Applies : pc[q] = "ok"})

(* A feature is never switched on in an environment before the strategies  *)
(* that were to limit it there: every step that enables an environment is  *)
(* taken for an apply whose strategies are all in place.                   *)
OnOnlyWithStrategies ==
  [][\A e \in on' \ on : \E a \in Applies :
       /\ change[a].env = e /\ change[a].enabled
       /\ \A s \in Strategies :
            copies[e][s] >= AskedInAll(e, s)[a]]_vars

(* After an apply has returned, its environment is as it asked, unless     *)
(* another apply that wants the opposite has got as far as its own toggle. *)
OnAsAsked ==
  \A a \in Applies :
    pc[a] = "ok" /\ (change[a].env \in on) # change[a].enabled =>
      \E q \in Applies :
        /\ change[q].env = change[a].env /\ change[q].enabled # change[a].enabled
        /\ pc[q] \in {"toggle"} \cup Ended

(* Retries can duplicate a strategy, but not without limit: Attempts       *)
(* copies of each one per apply, over what was there before the first.     *)
DuplicatesAreBounded ==
  \A e \in Envs, s \in Strategies :
    copies[e][s] <= 1 + Attempts * SumFunctionOnSet(AskedInAll(e, s), Applies)

(* Governance may take the whole call as one step: see UnleashCall.        *)
Abstract == INSTANCE UnleashCall
  WITH result <- [a \in Applies |-> IF pc[a] \in Ended THEN pc[a] ELSE "none"]

ImplementsUnleashCall == Abstract!Spec

(* Every apply that has begun ends, whatever fails: the handler that waits *)
(* for it, and the database transaction it holds open, are released.       *)
EveryApplyEnds == \A a \in Applies : pc[a] # "idle" ~> pc[a] \in Ended
===============================================================================
