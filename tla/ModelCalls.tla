------------------------------- MODULE ModelCalls -------------------------------
(***************************************************************************)
(* The calls of the language model that one process makes: complete and    *)
(* complete_json (app/ai/llm.py), which share a budget, and the audit      *)
(* agent (app/ai/agent.py), whose events are streamed to the client.  All  *)
(* are coroutines of one event loop, so they interleave where they await:  *)
(* at the HTTP request, at the sleep between attempts, and where the       *)
(* stream hands an event to the client.                                    *)
(*                                                                         *)
(* run_agent and run_agent_stream have the same loop; the first returns as *)
(* steps and answer what the second yields as events.  Every event is a    *)
(* step, for both of them.                                                 *)
(***************************************************************************)
EXTENDS Naturals, Sequences, FiniteSets

CONSTANTS Tasks,       \* requests the process handles at the same time
          Caps,        \* values of settings.llm_monthly_budget_usd, 0: no cap
          MaxCost,     \* what one completion can cost
          MaxRetries,  \* settings.llm_max_retries
          MaxTurns,    \* MAX_TOOL_TURNS
          MaxTools,    \* bound: tool calls the model asks for in one turn
          MaxSpent     \* bound: from here on answers cost nothing

ASSUME ModelCallsAssumption ==
  /\ IsFiniteSet(Tasks)
  /\ Caps \subseteq Nat
  /\ MaxCost \in Nat /\ MaxRetries \in Nat /\ MaxSpent \in Nat
  /\ MaxTurns \in Nat \ {0} /\ MaxTools \in Nat \ {0}

VARIABLES
  available,  \* is_llm_available
  cap,        \* the budget
  spent,      \* _spent_usd
  kind,       \* what each task is doing
  pc,         \* where it is
  attempt,    \* of complete: the number of the HTTP request
  turn,       \* of the agent: turns that are over
  pending,    \* of the agent: tool calls of this turn yet to be made
  events,     \* of the agent: what has been yielded
  result      \* how the task has ended

settings == << available, cap >>
vars == << settings, spent, kind, pc, attempt, turn, pending, events, result >>

Kinds == {"text", "json", "agent"}
Active == {c \in Tasks : pc[c] \notin {"idle", "done"}}
InFlight == {c \in Active : kind[c] # "agent"}

Init ==
  /\ available \in BOOLEAN
  /\ cap \in Caps
  /\ spent = 0
  /\ kind = [c \in Tasks |-> "text"]
  /\ pc = [c \in Tasks |-> "idle"]
  /\ attempt = [c \in Tasks |-> 0]
  /\ turn = [c \in Tasks |-> 0]
  /\ pending = [c \in Tasks |-> 0]
  /\ events = [c \in Tasks |-> << >>]
  /\ result = [c \in Tasks |-> "none"]

Goto(c, label) == pc' = [pc EXCEPT ![c] = label]
End(c, how) == Goto(c, "done") /\ result' = [result EXCEPT ![c] = how]
Yield(c, e) == events' = [events EXCEPT ![c] = Append(@, e)]

Receive(c, k) ==
  /\ pc[c] = "idle"
  /\ kind' = [kind EXCEPT ![c] = k]
  /\ UNCHANGED << settings, spent, turn, pending >>

(* The coroutine is gone, and its locals with it.                          *)
Forget(c) ==
  /\ pc[c] = "done"
  /\ Goto(c, "idle")
  /\ kind' = [kind EXCEPT ![c] = "text"]
  /\ attempt' = [attempt EXCEPT ![c] = 0]
  /\ turn' = [turn EXCEPT ![c] = 0]
  /\ pending' = [pending EXCEPT ![c] = 0]
  /\ events' = [events EXCEPT ![c] = << >>]
  /\ result' = [result EXCEPT ![c] = "none"]
  /\ UNCHANGED << settings, spent >>

-------------------------------------------------------------------------------
(* complete and complete_json.                                             *)

(* Slip: > for >=.                                                         *)
BudgetExceeded == cap > 0 /\ spent > cap

BudgetExhausted == cap > 0 /\ spent >= cap

(* Up to the first await: nothing comes between the check of the budget    *)
(* and the request.                                                        *)
BeginComplete(c, k) ==
  /\ Receive(c, k)
  /\ IF available /\ ~BudgetExhausted
     THEN /\ Goto(c, "post")
          /\ attempt' = [attempt EXCEPT ![c] = 1]
          /\ UNCHANGED result
     ELSE /\ End(c, IF available THEN "budget" ELSE "disabled")
          /\ UNCHANGED attempt
  /\ UNCHANGED events

Posting(c, ks) == pc[c] = "post" /\ kind[c] \in ks

(* _estimate_cost: tokens times rates, or nothing for a model without a    *)
(* rate.                                                                   *)
Costs == {cost \in 0..MaxCost : spent + cost <= MaxSpent}

(* 200.  The answer may be empty, and it need not be JSON where JSON has   *)
(* been asked for.                                                         *)
Completed(c) ==
  /\ Posting(c, {"text", "json"})
  /\ \E cost \in Costs : spent' = spent + cost
  /\ \E how \in {"ok", "not_json"} :
       /\ how = "not_json" => kind[c] = "json"
       /\ End(c, how)
  /\ UNCHANGED << settings, kind, attempt, turn, pending, events >>

GiveUp(c) == attempt[c] > MaxRetries

(* A transport error, a timeout, a 429 or a 5xx.                           *)
Transient(c) ==
  /\ Posting(c, {"text", "json"})
  /\ IF GiveUp(c) THEN End(c, "error") ELSE Goto(c, "sleep") /\ UNCHANGED result
  /\ UNCHANGED << settings, spent, kind, attempt, turn, pending, events >>

Wake(c) ==
  /\ pc[c] = "sleep"
  /\ attempt' = [attempt EXCEPT ![c] = @ + 1]
  /\ Goto(c, "post")
  /\ UNCHANGED << settings, spent, kind, turn, pending, events, result >>

(* Any other status.                                                       *)
Refused(c) ==
  /\ Posting(c, {"text", "json"})
  /\ End(c, "error")
  /\ UNCHANGED << settings, spent, kind, attempt, turn, pending, events >>

(* A 200 whose body is not JSON, or an exception that is neither of the    *)
(* transport nor a timeout: nothing of complete or the agent catches it.   *)
Garbled(c) ==
  /\ Posting(c, Kinds)
  /\ End(c, "raised")
  /\ UNCHANGED << settings, spent, kind, attempt, turn, pending, events >>

-------------------------------------------------------------------------------
(* The agent.  It neither looks at the budget nor adds to what is spent.   *)

BeginAgent(c) ==
  /\ Receive(c, "agent")
  /\ Yield(c, "start")
  /\ Goto(c, IF available THEN "post" ELSE "fail")
  /\ UNCHANGED << attempt, result >>

(* The last event but one.                                                 *)
Say(c, e) ==
  /\ Yield(c, e)
  /\ Goto(c, IF e = "answer" THEN "answered" ELSE "failed")
  /\ UNCHANGED << settings, spent, kind, attempt, turn, pending, result >>

(* Without a model, or after the last turn.                                *)
Fail(c) == pc[c] = "fail" /\ Say(c, "error")

(* Slip: no end event after an error of the transport.                     *)
TurnFailsSilently(c) ==
  /\ Posting(c, {"agent"})
  /\ Yield(c, "error") /\ End(c, "error")
  /\ UNCHANGED << settings, spent, kind, attempt, turn, pending >>

(* A transport error or any status but 200; there is no second attempt.    *)
TurnFails(c) == Posting(c, {"agent"}) /\ Say(c, "error")

Answer(c) == Posting(c, {"agent"}) /\ Say(c, "answer")

(* The last event, after which the generator only returns.                 *)
Conclude(c) ==
  /\ pc[c] \in {"answered", "failed"}
  /\ Yield(c, "end")
  /\ End(c, IF pc[c] = "answered" THEN "ok" ELSE "error")
  /\ UNCHANGED << settings, spent, kind, attempt, turn, pending >>

AskForTools(c) ==
  /\ Posting(c, {"agent"})
  /\ \E n \in 1..MaxTools : pending' = [pending EXCEPT ![c] = n]
  /\ Goto(c, "tool")
  /\ UNCHANGED << settings, spent, kind, attempt, turn, events, result >>

(* One tool call; an unknown tool and an exception in it are results too.  *)
(* After the last call of a turn comes the next request, or the error.     *)
CallTool(c) ==
  /\ pc[c] = "tool"
  /\ pending' = [pending EXCEPT ![c] = @ - 1]
  /\ turn' = [turn EXCEPT ![c] = IF pending[c] = 1 THEN @ + 1 ELSE @]
  /\ Yield(c, "tool_call")
  /\ Goto(c, IF pending[c] > 1 THEN "tool"
             ELSE IF turn'[c] < MaxTurns THEN "post" ELSE "fail")
  /\ UNCHANGED << settings, spent, kind, attempt, result >>

(* dict(raw_args) of something that is neither a string nor a mapping.     *)
BadArguments(c) ==
  /\ pc[c] = "tool"
  /\ End(c, "raised")
  /\ UNCHANGED << settings, spent, kind, attempt, turn, pending, events >>

(* The client of the stream goes away, between any two events: the         *)
(* generator is closed.                                                    *)
Disconnect(c) ==
  /\ c \in Active /\ kind[c] = "agent"
  /\ End(c, "closed")
  /\ UNCHANGED << settings, spent, kind, attempt, turn, pending, events >>

Proceed(c) ==
  \/ Completed(c)
  \/ Transient(c)
  \/ Wake(c)
  \/ Refused(c)
  \/ Garbled(c)
  \/ Fail(c)
  \/ TurnFails(c)
  \/ Answer(c)
  \/ Conclude(c)
  \/ AskForTools(c)
  \/ CallTool(c)
  \/ BadArguments(c)

Next ==
  \E c \in Tasks :
    \/ \E k \in {"text", "json"} : BeginComplete(c, k)
    \/ BeginAgent(c)
    \/ Proceed(c)
    \/ Disconnect(c)
    \/ Forget(c)

Spec == Init /\ [][Next]_vars

-------------------------------------------------------------------------------
(***************************************************************************)
(* Properties                                                              *)
(***************************************************************************)

Events == {"start", "tool_call", "answer", "error", "end"}

Labels == {"idle", "post", "sleep", "tool", "fail", "answered", "failed", "done"}

Results == {"none", "ok", "not_json", "error", "budget", "disabled", "raised", "closed"}

(* Variables are typed; attempts and turns stay within their limits.       *)
TypeOK ==
  /\ available \in BOOLEAN
  /\ cap \in Caps
  /\ spent \in Nat
  /\ kind \in [Tasks -> Kinds]
  /\ pc \in [Tasks -> Labels]
  /\ attempt \in [Tasks -> 0..(MaxRetries + 1)]
  /\ turn \in [Tasks -> 0..MaxTurns]
  /\ pending \in [Tasks -> 0..MaxTools]
  /\ events \in [Tasks -> Seq(Events)]
  /\ result \in [Tasks -> Results]

(* The budget is soft, but not without limit: calls in flight when it is   *)
(* reached still spend, and together they overshoot it by less than the    *)
(* cost of one completion for every request the process handles at once.   *)
OvershootIsBounded ==
  cap > 0 =>
    spent + MaxCost * Cardinality(InFlight) < cap + MaxCost * Cardinality(Tasks)

(* What a stream may consist of after its tool calls.  Only a client that  *)
(* leaves closes it before its end.                                        *)
Endings(c) ==
  CASE result[c] = "ok"                            -> {<< "answer", "end" >>}
    [] result[c] = "error"                         -> {<< "error", "end" >>}
    [] result[c] = "closed"                        -> {<< >>, << "answer" >>, << "error" >>}
    [] result[c] = "none" /\ pc[c] = "answered"    -> {<< "answer" >>}
    [] result[c] = "none" /\ pc[c] = "failed"      -> {<< "error" >>}
    [] OTHER                                       -> {<< >>}

(* A stream is start, tool calls, one answer or error, end, in that order; *)
(* it ends with end exactly when the agent has returned, and then says     *)
(* answer exactly when that was a success.  An exception cuts it off       *)
(* before the answer or the error, a client that leaves anywhere before    *)
(* the end.  The turns bound the tool calls.                               *)
StreamIsWellFormed ==
  \A c \in Tasks :
    kind[c] = "agent" =>
      /\ \E n \in 0..(MaxTurns * MaxTools) : \E last \in Endings(c) :
           events[c] = << "start" >> \o [i \in 1..n |-> "tool_call"] \o last
      /\ pc[c] = "post" => turn[c] < MaxTurns
===============================================================================
