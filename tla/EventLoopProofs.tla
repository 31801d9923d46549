---------------------------- MODULE EventLoopProofs ----------------------------
(***************************************************************************)
(* Theorems of ModelCalls and EventLoop, for any number of requests, any   *)
(* pool and any limits, and of RateLimitKey, which comes before them.      *)
(***************************************************************************)
EXTENDS EventLoop, RateLimitKey, FiniteSetTheorems, SequenceTheorems, TLAPS

(* What the limits of ModelCalls rest on.                                  *)
Limits ==
  \A c \in Tasks :
    /\ pc[c] = "idle" => turn[c] = 0
    /\ pc[c] \in {"post", "tool"} /\ kind[c] = "agent" => turn[c] < MaxTurns
    /\ pc[c] = "sleep" => attempt[c] <= MaxRetries /\ kind[c] # "agent"
    /\ pc[c] = "tool" => pending[c] > 0 /\ kind[c] = "agent"

ModelInv == TypeOK /\ Limits /\ OvershootIsBounded

-------------------------------------------------------------------------------
(* Types and limits of the model calls.                                    *)

LEMMA ModelTypes == TypeOK /\ Limits /\ [Next]_vars => TypeOK'
<1> SUFFICES ASSUME TypeOK, Limits, [Next]_vars
             PROVE  TypeOK'
  OBVIOUS
<1> USE ModelCallsAssumption DEF TypeOK, Limits, Active, Goto, End, Yield,
    settings, Posting, Kinds, Results, Labels
<1>0. /\ << >> \in Seq(Events)
      /\ {"start", "tool_call", "answer", "error", "end"} \subseteq Events
  BY DEF Events
<1>1. ASSUME NEW c \in Tasks, NEW e \in Events, Yield(c, e)
      PROVE  events' \in [Tasks -> Seq(Events)]
  <2>1. Append(events[c], e) \in Seq(Events)
    OBVIOUS
  <2>2. QED
    BY <1>1, <2>1
<1>2. ASSUME NEW c \in Tasks, NEW k \in {"text", "json"}, BeginComplete(c, k)
      PROVE  TypeOK'
  <2>0. k \in Kinds /\ 1 \in 0..(MaxRetries + 1)
    OBVIOUS
  <2>1. kind' \in [Tasks -> Kinds]
    BY <1>2, <2>0 DEF BeginComplete, Receive
  <2>4. attempt' \in [Tasks -> 0..(MaxRetries + 1)]
    BY <1>2, <2>0 DEF BeginComplete
  <2>2. pc' \in [Tasks -> Labels]
    BY <1>2 DEF BeginComplete
  <2>3. result' \in [Tasks -> Results]
    BY <1>2 DEF BeginComplete
  <2>5. QED
    BY <1>2, <2>1, <2>2, <2>3, <2>4 DEF BeginComplete, Receive
<1>3. ASSUME NEW c \in Tasks, BeginAgent(c) PROVE TypeOK'
  <2>1. events' \in [Tasks -> Seq(Events)]
    BY <1>0, <1>1, <1>3 DEF BeginAgent
  <2>2. QED
    BY <1>3, <2>1 DEF BeginAgent, Receive
<1>4. ASSUME NEW c \in Tasks, Completed(c) PROVE TypeOK'
  BY <1>4 DEF Completed, Costs
<1>5. ASSUME NEW c \in Tasks, Transient(c) \/ Wake(c) PROVE TypeOK'
  <2>1. CASE Transient(c)
    BY <2>1 DEF Transient
  <2>2. CASE Wake(c)
    <3>1. attempt[c] + 1 \in 0..(MaxRetries + 1)
      BY <2>2 DEF Wake
    <3>2. QED
      BY <2>2, <3>1 DEF Wake
  <2>3. QED
    BY <1>5, <2>1, <2>2
<1>6. ASSUME NEW c \in Tasks,
             Refused(c) \/ Garbled(c) \/ BadArguments(c) \/ Disconnect(c)
      PROVE  TypeOK'
  BY <1>6 DEF Refused, Garbled, BadArguments, Disconnect
<1>7. ASSUME NEW c \in Tasks, Fail(c) \/ TurnFails(c) \/ Answer(c) \/ Conclude(c)
      PROVE  TypeOK'
  <2>1. events' \in [Tasks -> Seq(Events)]
    BY <1>0, <1>1, <1>7 DEF Fail, TurnFails, Answer, Say, Conclude
  <2>2. CASE Fail(c) \/ TurnFails(c) \/ Answer(c)
    BY <2>1, <2>2 DEF Fail, TurnFails, Answer, Say
  <2>3. CASE Conclude(c)
    BY <2>1, <2>3 DEF Conclude
  <2>4. QED
    BY <1>7, <2>2, <2>3
<1>8. ASSUME NEW c \in Tasks, AskForTools(c) PROVE TypeOK'
  BY <1>8 DEF AskForTools
<1>9. ASSUME NEW c \in Tasks, CallTool(c) PROVE TypeOK'
  <2>1. events' \in [Tasks -> Seq(Events)]
    BY <1>0, <1>1, <1>9 DEF CallTool
  <2>0. /\ pending[c] \in 0..MaxTools /\ pending[c] > 0
        /\ turn[c] \in 0..MaxTurns /\ turn[c] < MaxTurns
    BY <1>9 DEF CallTool
  <2>2. pending[c] - 1 \in 0..MaxTools /\ turn[c] + 1 \in 0..MaxTurns
    BY <2>0
  <2>3. pending' \in [Tasks -> 0..MaxTools]
    BY <1>9, <2>2 DEF CallTool
  <2>4. turn' \in [Tasks -> 0..MaxTurns]
    BY <1>9, <2>2 DEF CallTool
  <2>5. pc' \in [Tasks -> Labels]
    BY <1>9 DEF CallTool
  <2>6. result' = result
    BY <1>9 DEF CallTool
  <2>7. QED
    BY <1>9, <2>1, <2>3, <2>4, <2>5, <2>6 DEF CallTool
<1>10. ASSUME NEW c \in Tasks, Forget(c) PROVE TypeOK'
  BY <1>0, <1>10 DEF Forget
<1>11. CASE UNCHANGED vars
  BY <1>11 DEF vars
<1>12. QED
  BY <1>2, <1>3, <1>4, <1>5, <1>6, <1>7, <1>8, <1>9, <1>10, <1>11
     DEF Next, Proceed

LEMMA ModelLimits == TypeOK /\ Limits /\ [Next]_vars => Limits'
<1> SUFFICES ASSUME TypeOK, Limits, [Next]_vars
             PROVE  Limits'
  OBVIOUS
<1> USE ModelCallsAssumption DEF TypeOK, Limits, Active, Goto, End, settings,
    Posting, Kinds
<1>1. ASSUME NEW c \in Tasks, NEW k \in {"text", "json"}, BeginComplete(c, k)
      PROVE  Limits'
  BY <1>1 DEF BeginComplete, Receive
<1>2. ASSUME NEW c \in Tasks, BeginAgent(c) PROVE Limits'
  BY <1>2 DEF BeginAgent, Receive
<1>3. ASSUME NEW c \in Tasks, Completed(c) PROVE Limits'
  BY <1>3 DEF Completed
<1>4. ASSUME NEW c \in Tasks, Transient(c) PROVE Limits'
  BY <1>4 DEF Transient, GiveUp
<1>5. ASSUME NEW c \in Tasks, Wake(c) PROVE Limits'
  BY <1>5 DEF Wake
<1>6. ASSUME NEW c \in Tasks,
             Refused(c) \/ Garbled(c) \/ BadArguments(c) \/ Disconnect(c)
      PROVE  Limits'
  BY <1>6 DEF Refused, Garbled, BadArguments, Disconnect
<1>7. ASSUME NEW c \in Tasks, Fail(c) \/ TurnFails(c) \/ Answer(c) \/ Conclude(c)
      PROVE  Limits'
  BY <1>7 DEF Fail, TurnFails, Answer, Say, Conclude
<1>8. ASSUME NEW c \in Tasks, AskForTools(c) PROVE Limits'
  BY <1>8 DEF AskForTools
<1>9. ASSUME NEW c \in Tasks, CallTool(c) PROVE Limits'
  BY <1>9 DEF CallTool
<1>10. ASSUME NEW c \in Tasks, Forget(c) PROVE Limits'
  BY <1>10 DEF Forget
<1>11. CASE UNCHANGED vars
  BY <1>11 DEF vars
<1>12. QED
  BY <1>1, <1>2, <1>3, <1>4, <1>5, <1>6, <1>7, <1>8, <1>9, <1>10, <1>11
     DEF Next, Proceed

LEMMA ModelInit == Init => ModelInv
<1> SUFFICES ASSUME Init PROVE ModelInv
  OBVIOUS
<1> USE ModelCallsAssumption
<1>1. TypeOK
  BY DEF Init, TypeOK, Kinds, Labels, Results
<1>2. Limits
  BY DEF Init, Limits, Active
<1>3. OvershootIsBounded
  <2> SUFFICES ASSUME cap > 0
               PROVE  spent + MaxCost * Cardinality(InFlight)
                        < cap + MaxCost * Cardinality(Tasks)
    BY DEF OvershootIsBounded
  <2>1. InFlight = {}
    BY DEF Init, InFlight, Active
  <2>2. Cardinality(InFlight) = 0 /\ Cardinality(Tasks) \in Nat
    BY <2>1, FS_EmptySet, FS_CardinalityType
  <2>3. MaxCost * Cardinality(Tasks) \in Nat /\ MaxCost * 0 = 0
    BY <2>2
  <2>4. spent = 0 /\ cap \in Nat
    BY DEF Init
  <2>5. QED
    BY <2>2, <2>3, <2>4
<1>4. QED
  BY <1>1, <1>2, <1>3 DEF ModelInv

-------------------------------------------------------------------------------
(* The budget.                                                             *)

LEMMA InFlightCardinality ==
  ASSUME NEW S, S \subseteq Tasks
  PROVE  /\ IsFiniteSet(S)
         /\ Cardinality(S) \in Nat
         /\ Cardinality(S) <= Cardinality(Tasks)
         /\ Cardinality(Tasks) \in Nat
  BY ModelCallsAssumption, FS_Subset, FS_CardinalityType

LEMMA TimesMonotone ==
  ASSUME NEW m \in Nat, NEW i \in Nat, NEW j \in Nat, i <= j
  PROVE  m * i \in Nat /\ m * j \in Nat /\ m * i <= m * j
  OBVIOUS

LEMMA TimesNext ==
  ASSUME NEW m \in Nat, NEW i \in Nat, i > 0
  PROVE  m * i = m * (i - 1) + m
  OBVIOUS

(* A request joins the calls in flight only below the cap, and leaves them *)
(* with its cost.                                                          *)
LEMMA ModelBudget ==
  TypeOK /\ OvershootIsBounded /\ [Next]_vars => OvershootIsBounded'
<1> SUFFICES ASSUME TypeOK, OvershootIsBounded, [Next]_vars, cap' > 0
             PROVE  spent' + MaxCost * Cardinality(InFlight')
                      < cap' + MaxCost * Cardinality(Tasks)
  BY DEF OvershootIsBounded
<1> USE ModelCallsAssumption
<1> DEFINE n == Cardinality(InFlight)
           nn == Cardinality(InFlight')
           all == Cardinality(Tasks)
<1>0. /\ cap' = cap /\ cap \in Nat /\ spent \in Nat
      /\ n \in Nat /\ nn \in Nat /\ all \in Nat /\ n <= all /\ nn <= all
  <2>1. cap' = cap
    BY DEF Next, Proceed, vars, settings, BeginComplete, BeginAgent, Receive,
       Completed, Transient, Wake, Refused, Garbled, Fail, TurnFails, Answer,
       Say, Conclude, AskForTools, CallTool, BadArguments, Disconnect, Forget
  <2>2. InFlight \subseteq Tasks /\ InFlight' \subseteq Tasks
    BY DEF InFlight, Active
  <2>3. QED
    BY <2>1, <2>2, InFlightCardinality DEF TypeOK
<1>1. spent + MaxCost * n < cap + MaxCost * all
  BY <1>0 DEF OvershootIsBounded
<1>2. ASSUME InFlight' \subseteq InFlight, spent' = spent
      PROVE  spent' + MaxCost * nn < cap + MaxCost * all
  <2>1. nn <= n
    BY <1>2, FS_Subset, InFlightCardinality DEF InFlight, Active
  <2>2. MaxCost * nn <= MaxCost * n /\ MaxCost * nn \in Nat /\ MaxCost * n \in Nat
        /\ MaxCost * all \in Nat
    BY <1>0, <2>1, TimesMonotone
  <2>3. QED
    BY <1>0, <1>1, <1>2, <2>2
<1>3. ASSUME NEW c \in Tasks, NEW k \in {"text", "json"}, BeginComplete(c, k)
      PROVE  spent' + MaxCost * nn < cap + MaxCost * all
  <2>1. spent' = spent
    BY <1>3 DEF BeginComplete, Receive
  <2>2. CASE available /\ ~BudgetExhausted
    <3>1. spent < cap
      BY <1>0, <2>2 DEF BudgetExhausted
    <3>2. MaxCost * nn <= MaxCost * all /\ MaxCost * nn \in Nat
          /\ MaxCost * all \in Nat
      BY <1>0, TimesMonotone
    <3>3. QED
      BY <1>0, <2>1, <3>1, <3>2
  <2>3. CASE ~(available /\ ~BudgetExhausted)
    <3>1. InFlight' \subseteq InFlight
      BY <1>3, <2>3 DEF BeginComplete, Receive, End, Goto, InFlight, Active, TypeOK
    <3>2. QED
      BY <1>2, <2>1, <3>1
  <2>4. QED
    BY <2>2, <2>3
<1>4. ASSUME NEW c \in Tasks, Completed(c)
      PROVE  spent' + MaxCost * nn < cap + MaxCost * all
  <2>1. PICK cost \in 0..MaxCost : spent' = spent + cost
    BY <1>4 DEF Completed, Costs
  <2>2. c \in InFlight /\ InFlight' = InFlight \ {c}
    BY <1>4 DEF Completed, Posting, End, Goto, InFlight, Active, TypeOK
  <2>3. IsFiniteSet(InFlight)
    BY InFlightCardinality DEF InFlight, Active
  <2>4. nn = n - 1
    BY <2>2, <2>3, FS_RemoveElement
  <2>5. n > 0 /\ MaxCost * n = MaxCost * nn + MaxCost
    BY <1>0, <2>4, TimesNext
  <2>6. MaxCost * nn \in Nat /\ MaxCost * all \in Nat
    BY <1>0, TimesMonotone
  <2>7. QED
    BY <1>0, <1>1, <2>1, <2>5, <2>6
<1>5. ASSUME NEW c \in Tasks, BeginAgent(c)
      PROVE  InFlight' \subseteq InFlight /\ spent' = spent
  BY <1>5 DEF BeginAgent, Receive, End, Goto, InFlight, Active, TypeOK
<1>6. ASSUME NEW c \in Tasks, Transient(c) \/ Wake(c)
      PROVE  InFlight' \subseteq InFlight /\ spent' = spent
  BY <1>6 DEF Transient, Wake, Posting, End, Goto, InFlight, Active, TypeOK
<1>7. ASSUME NEW c \in Tasks,
             \/ Refused(c) \/ Garbled(c) \/ BadArguments(c) \/ Disconnect(c)
             \/ Fail(c) \/ TurnFails(c) \/ Answer(c) \/ Conclude(c) \/ Forget(c)
      PROVE  InFlight' \subseteq InFlight /\ spent' = spent
  BY <1>7 DEF Refused, Garbled, BadArguments, Disconnect, Fail, TurnFails, Answer, Say,
     Conclude, Posting, Forget, End, Goto, InFlight, Active, TypeOK
<1>8. ASSUME NEW c \in Tasks, AskForTools(c) \/ CallTool(c)
      PROVE  InFlight' \subseteq InFlight /\ spent' = spent
  BY <1>8 DEF AskForTools, CallTool, Posting, End, Goto, InFlight, Active, TypeOK
<1>9. ASSUME UNCHANGED vars
      PROVE  InFlight' \subseteq InFlight /\ spent' = spent
  BY <1>9 DEF vars, InFlight, Active
<1>10. spent' + MaxCost * nn < cap + MaxCost * all
  <2>1. CASE \E c \in Tasks :
               (\E k \in {"text", "json"} : BeginComplete(c, k)) \/ Completed(c)
    BY <1>3, <1>4, <2>1
  <2>2. CASE InFlight' \subseteq InFlight /\ spent' = spent
    BY <1>2, <2>2
  <2>3. QED
    BY <1>5, <1>6, <1>7, <1>8, <1>9, <2>1, <2>2 DEF Next, Proceed
<1>11. QED
  BY <1>0, <1>10

LEMMA ModelStepSafe == ModelInv /\ [Next]_vars => ModelInv'
  BY ModelTypes, ModelLimits, ModelBudget DEF ModelInv

-------------------------------------------------------------------------------
(* The stream of the agent.                                                *)

Streamed(n, last) == << "start" >> \o [i \in 1..n |-> "tool_call"] \o last

(* The most tool calls there can have been.                                *)
CallsOf(turns) == MaxTools * turns

MostCalls(c) ==
  CASE pc[c] = "post" -> CallsOf(turn[c])
    [] pc[c] = "tool" -> CallsOf(turn[c]) + (MaxTools - pending[c])
    [] OTHER          -> CallsOf(MaxTurns)

AgentLabels == {"post", "tool", "fail", "answered", "failed"}

StreamOf(c) ==
  /\ pc[c] = "idle" => events[c] = << >> /\ result[c] = "none" /\ kind[c] # "agent"
  /\ kind[c] = "agent" =>
       /\ c \in Active => result[c] = "none" /\ pc[c] \in AgentLabels
       /\ \E n \in 0..MostCalls(c) : \E last \in Endings(c) : events[c] = Streamed(n, last)

StreamInv == \A c \in Tasks : StreamOf(c)

LEMMA EventsAssociative ==
  \A r, s, t \in Seq(Events) : (r \o s) \o t = r \o (s \o t)
BY ConcatAssociative

(* What is yielded after n tool calls: nothing else, or one more of them.  *)
LEMMA StreamGrows ==
  ASSUME NEW n \in Nat, NEW es \in Seq(Events)
  PROVE  /\ Streamed(n, << >>) \o es = Streamed(n, es)
         /\ Streamed(n, << >>) \o (<< "tool_call" >> \o es) = Streamed(n + 1, es)
         /\ << >> \o (<< "start" >> \o es) = Streamed(0, es)
<1> DEFINE calls(m) == [i \in 1..m |-> "tool_call"]
<1>1. /\ << "start" >> \in Seq(Events) /\ << >> \in Seq(Events)
      /\ << "tool_call" >> \in Seq(Events)
      /\ \A m \in Nat : calls(m) \in Seq(Events) /\ Len(calls(m)) = m
  BY DEF Events
<1>2. /\ calls(n + 1) = calls(n) \o << "tool_call" >>
      /\ calls(0) = << >>
  OBVIOUS
<1> HIDE DEF calls
<1>3. \A m \in Nat : << "start" >> \o calls(m) \in Seq(Events)
  BY <1>1, ConcatProperties
<1>4. \A m \in Nat : (<< "start" >> \o calls(m)) \o << >> = << "start" >> \o calls(m)
  BY <1>3, ConcatEmptySeq
<1>5. << "start" >> \o calls(n + 1) = (<< "start" >> \o calls(n)) \o << "tool_call" >>
  <2>1. /\ << "start" >> \in Seq(Events) /\ << "tool_call" >> \in Seq(Events)
        /\ calls(n) \in Seq(Events)
    BY <1>1
  <2>2. (<< "start" >> \o calls(n)) \o << "tool_call" >> =
          << "start" >> \o (calls(n) \o << "tool_call" >>)
    BY <2>1, EventsAssociative, Zenon
  <2>3. QED
    BY <1>2, <2>2
<1>6. \A m \in Nat : Streamed(m, << >>) = << "start" >> \o calls(m)
  BY <1>4 DEF Streamed, calls
<1>7. Streamed(n, es) = (<< "start" >> \o calls(n)) \o es
      /\ Streamed(n + 1, es) = (<< "start" >> \o calls(n + 1)) \o es
      /\ Streamed(0, es) = (<< "start" >> \o calls(0)) \o es
  BY DEF Streamed, calls
<1>8. << "start" >> \o calls(0) = << "start" >> /\ << >> \o (<< "start" >> \o es) = << "start" >> \o es
  BY <1>1, <1>2, ConcatEmptySeq, ConcatProperties
<1>9. Streamed(n, << >>) \o (<< "tool_call" >> \o es) = Streamed(n + 1, es)
  <2> DEFINE x == << "start" >> \o calls(n)
  <2>1. x \in Seq(Events) /\ << "tool_call" >> \in Seq(Events)
    BY <1>1, <1>3
  <2>2. (x \o << "tool_call" >>) \o es = x \o (<< "tool_call" >> \o es)
    <3> HIDE DEF x
    <3>1. QED
      BY <2>1, EventsAssociative, Zenon
  <2>3. QED
    BY <1>5, <1>6, <1>7, <2>2
<1>10. QED
  BY <1>6, <1>7, <1>8, <1>9

(* The event that is yielded next, after n tool calls and what follows.    *)
LEMMA StreamYields ==
  ASSUME NEW n \in Nat
  PROVE  /\ Append(<< >>, "start") = Streamed(0, << >>)
         /\ Append(Streamed(n, << >>), "tool_call") = Streamed(n + 1, << >>)
         /\ Append(Streamed(n, << >>), "answer") = Streamed(n, << "answer" >>)
         /\ Append(Streamed(n, << >>), "error") = Streamed(n, << "error" >>)
         /\ Append(Streamed(n, << "answer" >>), "end") = Streamed(n, << "answer", "end" >>)
         /\ Append(Streamed(n, << "error" >>), "end") = Streamed(n, << "error", "end" >>)
<1> DEFINE begun == << "start" >> \o [i \in 1..n |-> "tool_call"]
<1>1. /\ << >> \in Seq(Events) /\ << "answer" >> \in Seq(Events)
      /\ << "error" >> \in Seq(Events) /\ << "end" >> \in Seq(Events)
      /\ << "start" >> \in Seq(Events) /\ << "tool_call" >> \in Seq(Events)
      /\ \A m \in Nat : [i \in 1..m |-> "tool_call"] \in Seq(Events)
  BY DEF Events
<1>2. \A m \in Nat : << "start" >> \o [i \in 1..m |-> "tool_call"] \in Seq(Events)
  BY <1>1, ConcatProperties
<1>3. \A m \in Nat, es \in Seq(Events) : Streamed(m, es) \in Seq(Events)
  BY <1>2, ConcatProperties DEF Streamed
<1>4. \A es \in Seq(Events), e \in Events : Append(es, e) = es \o << e >>
  BY AppendIsConcat
<1>5. {"start", "tool_call", "answer", "error", "end"} \subseteq Events
  BY DEF Events
<1>6. /\ << "tool_call" >> = << "tool_call" >> \o << >>
      /\ << "start" >> = << "start" >> \o << >>
      /\ << "answer", "end" >> = << "answer" >> \o << "end" >>
      /\ << "error", "end" >> = << "error" >> \o << "end" >>
  OBVIOUS
<1>7. ASSUME NEW a \in Seq(Events)
      PROVE  Streamed(n, a) \o << "end" >> = Streamed(n, a \o << "end" >>)
  <2>1. begun \in Seq(Events) /\ a \in Seq(Events) /\ << "end" >> \in Seq(Events)
    BY <1>1, <1>2
  <2>2. Streamed(n, a) = begun \o a /\ Streamed(n, a \o << "end" >>) = begun \o (a \o << "end" >>)
    BY DEF Streamed
  <2> HIDE DEF begun
  <2>3. (begun \o a) \o << "end" >> = begun \o (a \o << "end" >>)
    BY <2>1, EventsAssociative, Zenon
  <2>4. QED
    BY <2>2, <2>3, Zenon
<1>8. << >> \o (<< "start" >> \o << >>) = Streamed(0, << >>)
  BY <1>1, StreamGrows
<1>9. Append(<< >>, "start") = Streamed(0, << >>)
  BY <1>1, <1>4, <1>5, <1>6, <1>8, Zenon
<1>10. Streamed(n, << >>) \o << "tool_call" >> = Streamed(n + 1, << >>)
  <2>1. Streamed(n, << >>) \o (<< "tool_call" >> \o << >>) = Streamed(n + 1, << >>)
    BY <1>1, StreamGrows
  <2>2. QED
    BY <1>6, <2>1, Zenon
<1>11. Append(Streamed(n, << >>), "tool_call") = Streamed(n + 1, << >>)
  BY <1>1, <1>3, <1>4, <1>5, <1>10, Zenon
<1>12. /\ Streamed(n, << >>) \o << "answer" >> = Streamed(n, << "answer" >>)
       /\ Streamed(n, << >>) \o << "error" >> = Streamed(n, << "error" >>)
  BY <1>1, StreamGrows
<1>13. /\ Append(Streamed(n, << >>), "answer") = Streamed(n, << "answer" >>)
       /\ Append(Streamed(n, << >>), "error") = Streamed(n, << "error" >>)
  BY <1>1, <1>3, <1>4, <1>5, <1>12, Zenon
<1>14. /\ Append(Streamed(n, << "answer" >>), "end") = Streamed(n, << "answer", "end" >>)
       /\ Append(Streamed(n, << "error" >>), "end") = Streamed(n, << "error", "end" >>)
  BY <1>1, <1>3, <1>4, <1>5, <1>6, <1>7, Zenon
<1>15. QED
  BY <1>9, <1>11, <1>13, <1>14

LEMMA CallsOfTurns ==
  ASSUME TypeOK, Limits, NEW c \in Tasks
  PROVE  /\ CallsOf(turn[c]) \in Nat /\ CallsOf(MaxTurns) \in Nat
         /\ CallsOf(turn[c]) <= CallsOf(MaxTurns)
         /\ turn[c] < MaxTurns => CallsOf(turn[c]) + MaxTools <= CallsOf(MaxTurns)
         /\ CallsOf(turn[c] + 1) = CallsOf(turn[c]) + MaxTools
<1>1. turn[c] \in Nat /\ turn[c] <= MaxTurns /\ MaxTools \in Nat /\ MaxTurns \in Nat
  BY ModelCallsAssumption DEF TypeOK
<1>2. CallsOf(turn[c] + 1) = CallsOf(turn[c]) + MaxTools
  BY <1>1, TimesNext DEF CallsOf
<1>3. turn[c] < MaxTurns => CallsOf(turn[c] + 1) <= CallsOf(MaxTurns)
  BY <1>1, TimesMonotone DEF CallsOf
<1>4. QED
  BY <1>1, <1>2, <1>3, TimesMonotone DEF CallsOf

(* A step of a model call is a step of one task; what kind of call it is   *)
(* is settled when it begins.                                              *)
LEMMA ModelFrame ==
  ASSUME TypeOK, NEW c \in Tasks,
         Proceed(c) \/ Disconnect(c)
  PROVE  /\ kind' = kind
         /\ \A d \in Tasks \ {c} : pc'[d] = pc[d]
         /\ pc[c] \notin {"idle", "done"}
<1> USE DEF TypeOK, Goto, End, Posting, Active
<1>1. CASE Disconnect(c)
  BY <1>1 DEF Disconnect
<1>2. CASE Completed(c) \/ Refused(c) \/ Garbled(c)
  BY <1>2 DEF Completed, Refused, Garbled
<1>3. CASE Transient(c) \/ Wake(c)
  BY <1>3 DEF Transient, Wake
<1>4. CASE Fail(c) \/ TurnFails(c) \/ Answer(c) \/ Conclude(c) \/ AskForTools(c)
  BY <1>4 DEF Fail, TurnFails, Answer, Say, Conclude, AskForTools
<1>5. CASE CallTool(c) \/ BadArguments(c)
  BY <1>5 DEF CallTool, BadArguments
<1>6. QED
  BY <1>1, <1>2, <1>3, <1>4, <1>5 DEF Proceed

LEMMA ModelStream == TypeOK /\ Limits /\ StreamInv /\ [Next]_vars => StreamInv'
<1> SUFFICES ASSUME TypeOK, Limits, StreamInv, [Next]_vars
             PROVE  StreamInv'
  OBVIOUS
<1>1. ASSUME UNCHANGED vars PROVE StreamInv'
  <2>1. /\ pc' = pc /\ kind' = kind /\ turn' = turn
        /\ pending' = pending /\ events' = events /\ result' = result
    BY <1>1 DEF vars
  <2>2. ASSUME NEW d \in Tasks PROVE StreamOf(d)'
    <3>1. StreamOf(d)
      BY DEF StreamInv
    <3>2. MostCalls(d)' = MostCalls(d) /\ Endings(d)' = Endings(d) /\ Active' = Active
      BY <2>1 DEF MostCalls, Endings, Active
    <3>3. QED
      BY <2>1, <3>1, <3>2 DEF StreamOf
  <2>3. QED
    BY <2>2 DEF StreamInv
<1> USE DEF TypeOK, Goto, End
<1>2. ASSUME NEW c \in Tasks,
             \/ \E k \in {"text", "json"} : BeginComplete(c, k)
             \/ BeginAgent(c) \/ Proceed(c) \/ Disconnect(c) \/ Forget(c)
      PROVE  StreamInv'
  <2>1. ASSUME NEW d \in Tasks \ {c}
        PROVE  /\ pc'[d] = pc[d] /\ kind'[d] = kind[d] /\ turn'[d] = turn[d]
               /\ pending'[d] = pending[d] /\ events'[d] = events[d] /\ result'[d] = result[d]
    <3>1. CASE \E k \in {"text", "json"} : BeginComplete(c, k)
      BY <3>1 DEF BeginComplete, Receive
    <3>2. CASE BeginAgent(c) \/ Forget(c)
      BY <3>2 DEF BeginAgent, Receive, Yield, Forget
    <3>3. CASE Completed(c) \/ Transient(c) \/ Wake(c) \/ Refused(c) \/ Garbled(c)
      BY <3>3 DEF Completed, Transient, Wake, Refused, Garbled
    <3>4. CASE Fail(c) \/ TurnFails(c) \/ Answer(c) \/ Conclude(c) \/ AskForTools(c)
      BY <3>4 DEF Fail, TurnFails, Yield, Answer, Say, Conclude, AskForTools
    <3>5. CASE CallTool(c) \/ BadArguments(c) \/ Disconnect(c)
      BY <3>5 DEF CallTool, Yield, BadArguments, Disconnect
    <3>6. QED
      BY <1>2, <3>1, <3>2, <3>3, <3>4, <3>5 DEF Proceed
  <2>2. ASSUME NEW d \in Tasks \ {c} PROVE StreamOf(d)'
    <3>1. StreamOf(d)
      BY DEF StreamInv
    <3>2. MostCalls(d)' = MostCalls(d)
      BY <2>1 DEF MostCalls
    <3>3. d \in Active' <=> d \in Active
      BY <2>1 DEF Active
    <3>4. Endings(d)' = Endings(d)
      BY <2>1 DEF Endings
    <3>5. QED
      BY <2>1, <3>1, <3>2, <3>3, <3>4 DEF StreamOf
  <2>3. StreamOf(c)
    BY DEF StreamInv
  <2>4. /\ CallsOf(turn[c]) \in Nat /\ CallsOf(MaxTurns) \in Nat
        /\ CallsOf(turn[c]) <= CallsOf(MaxTurns)
        /\ turn[c] < MaxTurns => CallsOf(turn[c]) + MaxTools <= CallsOf(MaxTurns)
        /\ CallsOf(turn[c] + 1) = CallsOf(turn[c]) + MaxTools
    BY CallsOfTurns
  <2>5. /\ pc[c] = "tool" => pending[c] \in 1..MaxTools
        /\ pc[c] \in {"post", "tool"} /\ kind[c] = "agent" => turn[c] < MaxTurns
        /\ MaxTools \in Nat
    BY ModelCallsAssumption DEF Limits
  <2>6. c \in Active <=> pc[c] \notin {"idle", "done"}
    BY DEF Active
  <2>7. CASE \E k \in {"text", "json"} : BeginComplete(c, k)
    <3>1. kind'[c] # "agent" /\ pc'[c] # "idle"
      BY <2>7 DEF BeginComplete, Receive
    <3>2. QED
      BY <2>2, <3>1 DEF StreamInv, StreamOf
  <2>8. CASE Forget(c)
    <3>1. events'[c] = << >> /\ result'[c] = "none" /\ kind'[c] # "agent"
      BY <2>8 DEF Forget
    <3>2. QED
      BY <2>2, <3>1 DEF StreamInv, StreamOf
  <2>9. CASE kind'[c] # "agent" /\ pc'[c] # "idle"
    BY <2>2, <2>9 DEF StreamInv, StreamOf
  <2>10. CASE BeginAgent(c)
    <3>1. events[c] = << >> /\ result[c] = "none" /\ pc[c] = "idle" /\ turn[c] = 0
      BY <2>3, <2>10 DEF BeginAgent, Receive, StreamOf, Limits
    <3>2. /\ events'[c] = Append(<< >>, "start")
          /\ pc'[c] \in {"post", "fail"} /\ result'[c] = "none"
      BY <2>10, <3>1 DEF BeginAgent, Yield
    <3>3. << >> \in Endings(c)' /\ events'[c] = Streamed(0, << >>)
      BY <3>2, StreamYields DEF Endings
    <3>4. kind'[c] = "agent" /\ turn' = turn
      BY <2>10 DEF BeginAgent, Receive
    <3>5. MostCalls(c)' \in Nat
      BY <2>4, <3>2, <3>4 DEF MostCalls
    <3>6. StreamOf(c)'
      <4>1. \E n \in 0..MostCalls(c)' : \E last \in Endings(c)' : events'[c] = Streamed(n, last)
        BY <3>3, <3>5
      <4>2. QED
        BY <3>2, <3>4, <4>1 DEF StreamOf, Active, AgentLabels
    <3>7. QED
      BY <2>2, <3>6 DEF StreamInv
  <2>11. CASE (Proceed(c) \/ Disconnect(c)) /\ kind[c] = "agent"
    <3>1. /\ kind' = kind /\ pc[c] \in AgentLabels /\ result[c] = "none"
      BY <2>3, <2>6, <2>11, ModelFrame DEF StreamOf
    <3>2. PICK n \in 0..MostCalls(c), last \in Endings(c) : events[c] = Streamed(n, last)
      BY <2>3, <2>11 DEF StreamOf
    <3>3. MostCalls(c) \in Nat /\ MostCalls(c) <= CallsOf(MaxTurns)
      BY <2>4, <2>5, <2>11, <3>1 DEF MostCalls, AgentLabels
    <3>4. ASSUME NEW m \in Nat, m <= MostCalls(c)', MostCalls(c)' \in Int,
                 NEW es \in Endings(c)', events'[c] = Streamed(m, es),
                 \/ pc'[c] = "done"
                 \/ pc'[c] \in AgentLabels /\ result'[c] = "none"
          PROVE  StreamInv'
      <4>1. StreamOf(c)'
        BY <3>1, <3>4 DEF StreamOf, Active, AgentLabels
      <4>2. QED
        BY <2>2, <4>1 DEF StreamInv
    <3>5. n \in Nat /\ n <= CallsOf(MaxTurns)
      BY <2>4, <3>2, <3>3
    <3>6. /\ pc[c] = "answered" => last = << "answer" >>
          /\ pc[c] = "failed" => last = << "error" >>
          /\ pc[c] \in {"post", "tool", "fail"} => last = << >>
      BY <3>1, <3>2 DEF Endings
    <3>7. CASE Fail(c) \/ TurnFails(c) \/ Answer(c)
      <4>1. /\ pc[c] \in {"post", "fail"} /\ result'[c] = "none"
            /\ \/ pc'[c] = "failed" /\ events'[c] = Append(events[c], "error")
               \/ pc'[c] = "answered" /\ events'[c] = Append(events[c], "answer")
        BY <3>1, <3>7 DEF Fail, TurnFails, Answer, Say, Yield, Posting
      <4>2. PICK es \in Endings(c)' : events'[c] = Streamed(n, es)
        BY <3>2, <3>5, <3>6, <4>1, StreamYields DEF Endings
      <4>3. MostCalls(c)' = CallsOf(MaxTurns)
        BY <4>1 DEF MostCalls
      <4>4. QED
        BY <2>4, <3>4, <3>5, <4>1, <4>2, <4>3 DEF AgentLabels
    <3>8. CASE Conclude(c)
      <4>1. /\ pc'[c] = "done" /\ events'[c] = Append(events[c], "end")
            /\ \/ pc[c] = "failed" /\ result'[c] = "error"
               \/ pc[c] = "answered" /\ result'[c] = "ok"
        BY <3>8 DEF Conclude, Yield
      <4>2. PICK es \in Endings(c)' : events'[c] = Streamed(n, es)
        BY <3>2, <3>5, <3>6, <4>1, StreamYields DEF Endings
      <4>3. MostCalls(c)' = CallsOf(MaxTurns)
        BY <4>1 DEF MostCalls
      <4>4. /\ n <= MostCalls(c)' /\ MostCalls(c)' \in Int
            /\ pc'[c] = "done"
        BY <2>4, <3>5, <4>1, <4>3
      <4>5. QED
        BY <3>4, <3>5, <4>2, <4>4
    <3>9. CASE Garbled(c) \/ BadArguments(c) \/ Disconnect(c)
      <4>1. /\ pc'[c] = "done" /\ events' = events
            /\ \/ result'[c] = "closed"
               \/ result'[c] = "raised" /\ pc[c] \in {"post", "tool"}
        BY <3>9 DEF Garbled, BadArguments, Disconnect, Posting
      <4>2. last \in Endings(c)'
        BY <3>1, <3>6, <4>1 DEF Endings, AgentLabels
      <4>3. MostCalls(c)' = CallsOf(MaxTurns)
        BY <4>1 DEF MostCalls
      <4>4. QED
        BY <2>4, <3>2, <3>4, <3>5, <4>1, <4>2, <4>3
    <3>10. CASE AskForTools(c)
      <4>1. /\ pc'[c] = "tool" /\ events' = events /\ result' = result /\ turn' = turn
            /\ pending'[c] \in 1..MaxTools /\ pc[c] = "post"
        BY <3>10 DEF AskForTools, Posting
      <4>2. /\ MostCalls(c) = CallsOf(turn[c])
            /\ MostCalls(c)' = CallsOf(turn[c]) + (MaxTools - pending'[c])
        BY <4>1 DEF MostCalls
      <4>3. n <= MostCalls(c)' /\ MostCalls(c)' \in Int
        BY <2>4, <2>5, <3>2, <3>5, <4>1, <4>2
      <4>4. last \in Endings(c)' /\ result'[c] = "none"
        BY <3>1, <3>6, <4>1 DEF Endings
      <4>5. QED
        BY <3>2, <3>4, <3>5, <4>1, <4>3, <4>4 DEF AgentLabels
    <3>11. CASE CallTool(c)
      <4>1. /\ pc[c] = "tool" /\ pending'[c] = pending[c] - 1
            /\ turn'[c] = IF pending[c] = 1 THEN turn[c] + 1 ELSE turn[c]
            /\ result'[c] = "none"
            /\ events'[c] = Append(events[c], "tool_call")
        BY <3>1, <3>11 DEF CallTool, Yield
      <4>2. n <= CallsOf(turn[c]) + (MaxTools - pending[c]) /\ n + 1 \in Nat
        BY <3>2, <3>5, <4>1 DEF MostCalls
      <4>3. events'[c] = Streamed(n + 1, << >>)
        BY <3>2, <3>5, <3>6, <4>1, StreamYields
      <4>4. \/ pc'[c] = "tool" /\ pending[c] > 1
            \/ pc'[c] = "post" /\ pending[c] = 1
            \/ pc'[c] = "fail" /\ pending[c] = 1
        BY <2>5, <3>11, <4>1 DEF CallTool
      <4>5. << >> \in Endings(c)'
        BY <4>1, <4>4 DEF Endings
      <4>6. n + 1 <= MostCalls(c)' /\ MostCalls(c)' \in Int
        <5>1. CASE pc'[c] = "tool" /\ pending[c] > 1
          <6>1. MostCalls(c)' = CallsOf(turn[c]) + (MaxTools - (pending[c] - 1))
            BY <2>5, <4>1, <5>1 DEF MostCalls
          <6>2. pending[c] \in 1..MaxTools
            BY <2>5, <4>1
          <6>3. QED
            BY <2>4, <2>5, <3>5, <4>2, <6>1, <6>2
        <5>2. CASE pc'[c] = "post" /\ pending[c] = 1
          <6>1. MostCalls(c)' = CallsOf(turn[c] + 1)
            BY <4>1, <5>2 DEF MostCalls
          <6>2. QED
            BY <2>4, <2>5, <3>5, <4>2, <5>2, <6>1
        <5>3. CASE pc'[c] = "fail" /\ pending[c] = 1
          <6>1. MostCalls(c)' = CallsOf(MaxTurns)
            BY <5>3 DEF MostCalls
          <6>2. QED
            BY <2>4, <2>5, <2>11, <3>5, <4>1, <4>2, <5>3, <6>1
        <5>4. QED
          BY <4>4, <5>1, <5>2, <5>3
      <4>7. QED
        BY <3>4, <4>1, <4>2, <4>3, <4>4, <4>5, <4>6 DEF AgentLabels
    <3>12. QED
      BY <2>11, <3>1, <3>7, <3>8, <3>9, <3>10, <3>11
         DEF Proceed, Completed, Transient, Wake, Refused, Posting, AgentLabels
  <2>12. QED
    <3>1. Proceed(c) \/ Disconnect(c) => kind' = kind /\ pc'[c] # "idle"
      BY ModelFrame DEF Proceed, Completed, Transient, Wake, Refused, Garbled, Fail, TurnFails,
         Answer, Say, Conclude, AskForTools, CallTool, BadArguments, Disconnect
    <3>2. QED
      BY <1>2, <2>7, <2>8, <2>9, <2>10, <2>11, <3>1
<1>3. QED
  BY <1>1, <1>2 DEF Next

-------------------------------------------------------------------------------
(* The event loop takes only steps of the model calls.                     *)

LEMMA LoopTakesModelSteps == [EventLoopNext]_allVars => [Next]_vars
<1> SUFFICES ASSUME [EventLoopNext]_allVars
             PROVE  [Next]_vars
  OBVIOUS
<1>1. UNCHANGED model => UNCHANGED vars
  BY DEF model, vars, settings
<1>2. ASSUME NEW c \in Tasks, Finish(c) PROVE [Next]_vars
  BY <1>1, <1>2 DEF Finish, Next
<1>3. ASSUME NEW c \in Tasks, Take(c) \/ TimeOut(c) PROVE [Next]_vars
  BY <1>1, <1>3 DEF Take, TimeOut, GoOn, Next, Proceed
<1>4. ASSUME NEW c \in Tasks, ThreadStep(c) PROVE [Next]_vars
  BY <1>2, <1>3, <1>4 DEF ThreadStep, QueryInThread, Exit
<1>5. ASSUME NEW c \in Tasks, CallModel(c) PROVE [Next]_vars
  BY <1>5 DEF CallModel, Summarize, AssessRisk, Interpret, Suggest, Investigate, Next
<1>6. ASSUME NEW c \in Tasks, LoopStep(c) PROVE [Next]_vars
  BY <1>1, <1>2, <1>3, <1>5, <1>6
     DEF LoopStep, Query, EndWait, SummarizeNext, ModelStep, Return, EndStream, Next
<1>7. ASSUME NEW c \in Tasks, ClientLeaves(c) PROVE [Next]_vars
  BY <1>7 DEF ClientLeaves, Next
<1>8. ASSUME NEW c \in Tasks, NEW r \in Routes, Arrive(c, r) PROVE [Next]_vars
  BY <1>1, <1>8 DEF Arrive
<1>9. CASE CollectGarbage
  BY <1>1, <1>9 DEF CollectGarbage
<1>10. CASE UNCHANGED allVars
  BY <1>1, <1>10 DEF allVars
<1>11. QED
  BY <1>4, <1>6, <1>7, <1>8, <1>9, <1>10 DEF EventLoopNext

-------------------------------------------------------------------------------
(* The invariant of the event loop.                                        *)

(* A call of the model runs only while its request waits for it, and asks  *)
(* for tools only on behalf of the agent; a session takes its connection   *)
(* in the first query, after which nl_query has nothing left to do.        *)
TaskInv(c) ==
  /\ pc[c] \notin {"idle", "done"} =>
       /\ stage[c] = "model"
       /\ kind[c] = "agent" => route[c] \in {"agent", "stream"}
  /\ stage[c] = "query" => route[c] \notin {"suggest", "agent", "stream"}
  /\ c \in conns =>
       /\ stage[c] \notin {"idle", "query"}
       /\ route[c] = "nl_query" => stage[c] = "exit"

PoolInv ==
  /\ conns \subseteq Tasks
  /\ leaked \in Nat
  /\ Cardinality(conns) + leaked <= PoolSize

WaitInv ==
  /\ loop \in Tasks \cup {NoTask}
  /\ loop # NoTask => Coroutine(loop) /\ NeedsConnection(loop)

LoopInv ==
  /\ ModelInv
  /\ route \in [Tasks -> Routes]
  /\ stage \in [Tasks -> Stages]
  /\ \A c \in Tasks : TaskInv(c)
  /\ PoolInv
  /\ WaitInv

(* What a step of the request c does to the requests, and to none but c.   *)
Local(c) ==
  /\ route' \in [Tasks -> Routes]
  /\ stage' \in [Tasks -> Stages]
  /\ \A d \in Tasks \ {c} : /\ route'[d] = route[d] /\ stage'[d] = stage[d]
                            /\ pc'[d] = pc[d] /\ kind'[d] = kind[d]
  /\ conns' \subseteq conns \cup {c}
  /\ TaskInv(c)'

LEMMA AfterModelStages ==
  ASSUME NEW c \in Tasks
  PROVE  /\ AfterModel(c) \subseteq {"model", "query", "next", "exit"}
         /\ pc'[c] # "done" => AfterModel(c) = {"model"}
         /\ "query" \in AfterModel(c) => route[c] = "nl_query"
  BY DEF AfterModel

LEMMA AfterQueryStages ==
  ASSUME NEW c \in Tasks,
         route[c] \in Routes \ {"suggest", "agent", "stream"}
  PROVE  /\ AfterQuery(c) \subseteq {"return", "call", "next", "exit"}
         /\ route[c] = "nl_query" => AfterQuery(c) = {"exit"}
  BY DEF AfterQuery, Routes

LEMMA Moved ==
  ASSUME NEW c \in Tasks, NEW nexts, nexts \subseteq Stages,
         stage \in [Tasks -> Stages], route \in [Tasks -> Routes],
         MoveTo(c, nexts)
  PROVE  /\ stage' \in [Tasks -> Stages] /\ route' \in [Tasks -> Routes]
         /\ route' = route
         /\ stage'[c] \in nexts
         /\ \A d \in Tasks \ {c} : stage'[d] = stage[d]
  BY DEF MoveTo

LEMMA ForgetFrame ==
  ASSUME TypeOK, NEW c \in Tasks,
         IF pc[c] = "done" THEN Forget(c) ELSE UNCHANGED model
  PROVE  /\ \A d \in Tasks \ {c} : pc'[d] = pc[d] /\ kind'[d] = kind[d]
         /\ pc[c] \in {"idle", "done"} => pc'[c] = "idle"
  BY DEF TypeOK, Goto, Forget, model

-------------------------------------------------------------------------------
(* Steps of a request.                                                     *)

LEMMA ArriveLocal ==
  ASSUME LoopInv, NEW c \in Tasks, NEW r \in Routes, Arrive(c, r)
  PROVE  Local(c)
<1>1. /\ FirstStage(r) \subseteq {"query", "call", "exit"}
      /\ "query" \in FirstStage(r) => r \notin {"suggest", "agent", "stream"}
  BY DEF FirstStage
<1>2. PICK first \in FirstStage(r) : stage' = [stage EXCEPT ![c] = first]
  BY DEF Arrive
<1>3. pc[c] \in {"idle", "done"} /\ c \notin conns
  BY DEF Arrive, LoopInv, TaskInv
<1>4. stage' \in [Tasks -> Stages] /\ stage'[c] = first
      /\ \A d \in Tasks \ {c} : stage'[d] = stage[d]
  BY <1>1, <1>2 DEF LoopInv, Stages
<1>5. route' \in [Tasks -> Routes] /\ route'[c] = r
      /\ \A d \in Tasks \ {c} : route'[d] = route[d]
  BY DEF Arrive, LoopInv
<1>6. QED
  BY <1>1, <1>3, <1>4, <1>5 DEF Arrive, Local, TaskInv, model, pool

(* A tool call of the agent, with a connection or without one.             *)
LEMMA ToolLocal ==
  ASSUME LoopInv, NEW c \in Tasks, stage[c] = "model",
         CallTool(c), MoveTo(c, AfterModel(c)), conns' \subseteq conns \cup {c}
  PROVE  Local(c)
<1>1. pc[c] = "tool" /\ kind[c] = "agent"
  BY DEF CallTool, LoopInv, ModelInv, Limits
<1>2. route[c] \in {"agent", "stream"}
  BY <1>1 DEF LoopInv, TaskInv
<1>3. /\ AfterModel(c) \subseteq {"model", "next", "exit"}
      /\ pc'[c] # "done" => AfterModel(c) = {"model"}
  BY <1>2, AfterModelStages
<1>4. AfterModel(c) \subseteq Stages
  BY <1>3 DEF Stages
<1>5. /\ stage' \in [Tasks -> Stages] /\ route' \in [Tasks -> Routes]
      /\ route' = route /\ stage'[c] \in AfterModel(c)
      /\ \A d \in Tasks \ {c} : stage'[d] = stage[d]
  BY <1>4, Moved DEF LoopInv
<1>6. kind' = kind /\ \A d \in Tasks \ {c} : pc'[d] = pc[d]
  BY ModelFrame DEF Proceed, LoopInv, ModelInv
<1>7. QED
  BY <1>2, <1>3, <1>5, <1>6 DEF Local, TaskInv

LEMMA TakeLocal ==
  ASSUME LoopInv, NEW c \in Tasks, NeedsConnection(c), Take(c)
  PROVE  Local(c)
<1>1. conns' = conns \cup {c}
  BY DEF Take
<1>2. CASE stage[c] = "query"
  <2>1. MoveTo(c, AfterQuery(c)) /\ UNCHANGED model
    BY <1>2 DEF Take, GoOn
  <2>2. pc[c] \in {"idle", "done"} /\ route[c] \in Routes \ {"suggest", "agent", "stream"}
    BY <1>2 DEF LoopInv, TaskInv
  <2>3. /\ AfterQuery(c) \subseteq {"return", "call", "next", "exit"}
        /\ route[c] = "nl_query" => AfterQuery(c) = {"exit"}
    BY <2>2, AfterQueryStages
  <2>4. AfterQuery(c) \subseteq Stages
    BY <2>3 DEF Stages
  <2>5. /\ stage' \in [Tasks -> Stages] /\ route' \in [Tasks -> Routes]
        /\ route' = route /\ stage'[c] \in AfterQuery(c)
        /\ \A d \in Tasks \ {c} : stage'[d] = stage[d]
    BY <2>1, <2>4, Moved DEF LoopInv
  <2>6. QED
    BY <1>1, <2>1, <2>2, <2>3, <2>5 DEF Local, TaskInv, model
<1>3. CASE stage[c] # "query"
  BY <1>1, <1>3, ToolLocal DEF Take, GoOn
<1>4. QED
  BY <1>2, <1>3

LEMMA TimeOutLocal ==
  ASSUME LoopInv, NEW c \in Tasks, NeedsConnection(c), TimeOut(c)
  PROVE  Local(c)
<1> DEFINE ends == {IF Coroutine(c) THEN "exit" ELSE "return"}
<1>1. conns' = conns /\ c \notin conns
  BY DEF TimeOut, pool, NeedsConnection, LoopInv, TaskInv
<1>2. CASE stage[c] = "query"
  <2>1. MoveTo(c, ends) /\ UNCHANGED model
    BY <1>2 DEF TimeOut, GoOn
  <2>2. pc[c] \in {"idle", "done"}
    BY <1>2 DEF LoopInv, TaskInv
  <2>3. ends \subseteq Stages /\ "query" \notin ends
    BY DEF Stages
  <2>4. /\ stage' \in [Tasks -> Stages] /\ route' \in [Tasks -> Routes]
        /\ route' = route /\ stage'[c] \in ends
        /\ \A d \in Tasks \ {c} : stage'[d] = stage[d]
    BY <2>1, <2>3, Moved DEF LoopInv
  <2>5. QED
    BY <1>1, <2>1, <2>2, <2>3, <2>4 DEF Local, TaskInv, model
<1>3. CASE stage[c] # "query"
  BY <1>1, <1>3, ToolLocal DEF TimeOut, GoOn
<1>4. QED
  BY <1>2, <1>3

LEMMA QueryLocal ==
  ASSUME LoopInv, NEW c \in Tasks, Query(c) \/ EndWait(c) \/ QueryInThread(c)
  PROVE  Local(c)
<1>1. NeedsConnection(c)
  BY EventLoopAssumption DEF Query, EndWait, QueryInThread, LoopInv, WaitInv
<1>2. CASE Take(c) \/ TimeOut(c)
  BY <1>1, <1>2, TakeLocal, TimeOutLocal
<1>3. CASE UNCHANGED << model, requests, pool >>
  BY <1>3 DEF Local, LoopInv, TaskInv, model, requests, pool
<1>4. QED
  BY <1>2, <1>3 DEF Query, EndWait, QueryInThread

LEMMA CallModelLocal ==
  ASSUME LoopInv, NEW c \in Tasks, CallModel(c)
  PROVE  Local(c)
<1>1. /\ c \in conns => route[c] # "nl_query"
      /\ conns' = conns
      /\ MoveTo(c, AfterModel(c))
  BY DEF CallModel, LoopInv, TaskInv, pool
<1>2. /\ AfterModel(c) \subseteq {"model", "query", "next", "exit"}
      /\ pc'[c] # "done" => AfterModel(c) = {"model"}
      /\ "query" \in AfterModel(c) => route[c] = "nl_query"
  BY AfterModelStages
<1>3. AfterModel(c) \subseteq Stages
  BY <1>2 DEF Stages
<1>4. /\ stage' \in [Tasks -> Stages] /\ route' \in [Tasks -> Routes]
      /\ route' = route /\ stage'[c] \in AfterModel(c)
      /\ \A d \in Tasks \ {c} : stage'[d] = stage[d]
  BY <1>1, <1>3, Moved DEF LoopInv
<1>5. \/ \E k \in {"text", "json"} : BeginComplete(c, k)
      \/ BeginAgent(c) /\ route[c] \in {"agent", "stream"}
  BY DEF CallModel, Summarize, AssessRisk, Interpret, Suggest, Investigate
<1>6. /\ kind'[c] = "agent" => route[c] \in {"agent", "stream"}
      /\ \A d \in Tasks \ {c} : pc'[d] = pc[d] /\ kind'[d] = kind[d]
  BY <1>5 DEF BeginComplete, BeginAgent, Receive, End, Goto, LoopInv, ModelInv, TypeOK
<1>7. QED
  BY <1>1, <1>2, <1>4, <1>6 DEF Local, TaskInv

LEMMA ModelStepLocal ==
  ASSUME LoopInv, NEW c \in Tasks, ModelStep(c) \/ ClientLeaves(c)
  PROVE  Local(c)
<1>1. /\ stage[c] = "model" /\ conns' = conns
      /\ MoveTo(c, AfterModel(c))
      /\ Proceed(c) \/ Disconnect(c)
  BY DEF ModelStep, ClientLeaves, pool
<1>2. /\ AfterModel(c) \subseteq {"model", "query", "next", "exit"}
      /\ pc'[c] # "done" => AfterModel(c) = {"model"}
      /\ "query" \in AfterModel(c) => route[c] = "nl_query"
  BY AfterModelStages
<1>3. AfterModel(c) \subseteq Stages
  BY <1>2 DEF Stages
<1>4. /\ stage' \in [Tasks -> Stages] /\ route' \in [Tasks -> Routes]
      /\ route' = route /\ stage'[c] \in AfterModel(c)
      /\ \A d \in Tasks \ {c} : stage'[d] = stage[d]
  BY <1>1, <1>3, Moved DEF LoopInv
<1>5. /\ kind' = kind /\ pc[c] \notin {"idle", "done"}
      /\ \A d \in Tasks \ {c} : pc'[d] = pc[d]
  BY <1>1, ModelFrame DEF LoopInv, ModelInv
<1>6. /\ kind[c] = "agent" => route[c] \in {"agent", "stream"}
      /\ c \in conns => route[c] # "nl_query"
  BY <1>1, <1>5 DEF LoopInv, TaskInv
<1>7. QED
  BY <1>1, <1>2, <1>4, <1>5, <1>6 DEF Local, TaskInv

LEMMA SummarizeNextLocal ==
  ASSUME LoopInv, NEW c \in Tasks, SummarizeNext(c)
  PROVE  Local(c)
<1>1. pc[c] \in {"idle", "done"} /\ conns' = conns
  BY DEF SummarizeNext, LoopInv, TaskInv, pool
<1>2. /\ \A d \in Tasks \ {c} : pc'[d] = pc[d] /\ kind'[d] = kind[d]
      /\ pc'[c] = "idle"
  BY <1>1, ForgetFrame DEF SummarizeNext, LoopInv, ModelInv
<1>3. PICK next \in {"call", "exit"} : stage' = [stage EXCEPT ![c] = next]
  BY DEF SummarizeNext
<1>4. stage' \in [Tasks -> Stages] /\ stage'[c] = next
      /\ \A d \in Tasks \ {c} : stage'[d] = stage[d]
  BY <1>3 DEF LoopInv, Stages
<1>5. route' \in [Tasks -> Routes] /\ route'[c] = "summarize"
      /\ \A d \in Tasks \ {c} : route'[d] = route[d]
  BY DEF SummarizeNext, LoopInv, Routes
<1>6. QED
  BY <1>1, <1>2, <1>4, <1>5 DEF Local, TaskInv

LEMMA ReturnLocal ==
  ASSUME LoopInv, NEW c \in Tasks, Return(c)
  PROVE  Local(c)
<1>1. pc[c] \in {"idle", "done"} /\ {"exit"} \subseteq Stages
  BY DEF Return, LoopInv, TaskInv, Stages
<1>2. /\ stage' \in [Tasks -> Stages] /\ route' \in [Tasks -> Routes]
      /\ route' = route /\ stage'[c] = "exit"
      /\ \A d \in Tasks \ {c} : stage'[d] = stage[d]
  BY <1>1, Moved DEF Return, LoopInv
<1>3. QED
  BY <1>1, <1>2 DEF Return, Local, TaskInv, model, pool

LEMMA ExitLocal ==
  ASSUME LoopInv, NEW c \in Tasks, Exit(c) \/ EndStream(c)
  PROVE  Local(c)
<1>1. /\ pc[c] \in {"idle", "done"} /\ Finish(c)
      /\ conns' = conns \ {c}
  BY DEF Exit, EndStream, LoopInv, TaskInv
<1>2. /\ \A d \in Tasks \ {c} : pc'[d] = pc[d] /\ kind'[d] = kind[d]
      /\ pc'[c] = "idle"
  BY <1>1, ForgetFrame DEF Finish, LoopInv, ModelInv
<1>3. /\ stage' \in [Tasks -> Stages] /\ stage'[c] = "idle"
      /\ \A d \in Tasks \ {c} : stage'[d] = stage[d]
  BY <1>1 DEF Finish, LoopInv, Stages
<1>4. /\ route' \in [Tasks -> Routes] /\ route'[c] = "table"
      /\ \A d \in Tasks \ {c} : route'[d] = route[d]
  BY <1>1 DEF Finish, LoopInv, Routes
<1>5. QED
  BY <1>1, <1>2, <1>3, <1>4 DEF Local, TaskInv

-------------------------------------------------------------------------------
(* The pool and the checkout the loop waits for.                           *)

LEMMA PoolStep ==
  ASSUME LoopInv, EventLoopNext
  PROVE  PoolInv'
<1> DEFINE n == Cardinality(conns)
<1>0. /\ IsFiniteSet(conns) /\ n \in Nat /\ leaked \in Nat
      /\ n + leaked <= PoolSize /\ PoolSize \in Nat /\ conns \subseteq Tasks
  BY InFlightCardinality, EventLoopAssumption DEF LoopInv, PoolInv
<1>1. ASSUME UNCHANGED pool PROVE PoolInv'
  BY <1>1 DEF LoopInv, PoolInv, pool
<1>2. ASSUME NEW c \in Tasks, Take(c) PROVE PoolInv'
  <2>1. conns' = conns \cup {c} /\ leaked' = leaked /\ ~(n + leaked >= PoolSize)
    BY <1>2 DEF Take, Exhausted
  <2>2. Cardinality(conns') = n \/ Cardinality(conns') = n + 1
    BY <1>0, <2>1, FS_AddElement
  <2>3. QED
    BY <1>0, <2>1, <2>2 DEF PoolInv
<1>3. ASSUME NEW c \in Tasks, conns' = conns \ {c},
             leaked' = IF c \in conns THEN leaked + 1 ELSE leaked
      PROVE  PoolInv'
  <2>1. CASE c \in conns
    <3>1. Cardinality(conns') = n - 1
      BY <1>0, <1>3, <2>1, FS_RemoveElement
    <3>2. QED
      BY <1>0, <1>3, <2>1, <3>1 DEF PoolInv
  <2>2. CASE c \notin conns
    <3>1. conns' = conns /\ leaked' = leaked
      BY <1>3, <2>2
    <3>2. QED
      BY <1>1, <3>1 DEF pool
  <2>3. QED
    BY <2>1, <2>2
<1>4. ASSUME NEW c \in Tasks, Exit(c) PROVE PoolInv'
  <2>1. conns' \subseteq conns /\ leaked' = leaked
    BY <1>4 DEF Exit
  <2>2. Cardinality(conns') \in Nat /\ Cardinality(conns') <= n
    BY <1>0, <2>1, FS_Subset, FS_CardinalityType
  <2>3. QED
    BY <1>0, <2>1, <2>2 DEF PoolInv
<1>5. CASE CollectGarbage
  BY <1>0, <1>5 DEF CollectGarbage, PoolInv
<1>6. ASSUME NEW c \in Tasks, ThreadStep(c) PROVE PoolInv'
  BY <1>1, <1>2, <1>4, <1>6 DEF ThreadStep, QueryInThread, TimeOut
<1>7. ASSUME NEW c \in Tasks, LoopStep(c) PROVE PoolInv'
  BY <1>1, <1>2, <1>3, <1>7 DEF LoopStep, Query, EndWait, TimeOut, CallModel,
     SummarizeNext, ModelStep, Return, EndStream
<1>8. ASSUME NEW c \in Tasks,
             ClientLeaves(c) \/ \E r \in Routes : Arrive(c, r)
      PROVE  PoolInv'
  BY <1>1, <1>8 DEF ClientLeaves, Arrive
<1>9. QED
  BY <1>5, <1>6, <1>7, <1>8 DEF EventLoopNext

(* While the loop waits only threads run, and none of them touches the     *)
(* request it waits for.                                                   *)
LEMMA WaitStep ==
  ASSUME LoopInv, EventLoopNext
  PROVE  WaitInv'
<1>1. ASSUME loop' = NoTask PROVE WaitInv'
  BY <1>1 DEF WaitInv
<1>2. ASSUME NEW c \in Tasks, Query(c) PROVE WaitInv'
  <2>1. CASE loop' = c
    BY <1>2, <2>1 DEF Query, WaitInv, Coroutine, NeedsConnection, model, requests, pool
  <2>2. QED
    BY <1>1, <1>2, <2>1 DEF Query
<1>3. ASSUME NEW c \in Tasks, ThreadStep(c), loop # NoTask PROVE WaitInv'
  <2>1. loop' = loop /\ loop \in Tasks /\ Coroutine(loop) /\ NeedsConnection(loop)
    BY <1>3 DEF ThreadStep, QueryInThread, Exit, LoopInv, WaitInv
  <2>2. c # loop
    BY <1>3, <2>1 DEF ThreadStep, QueryInThread, Exit, NeedsConnection
  <2>3. Local(c)
    BY <1>3, QueryLocal, ExitLocal DEF ThreadStep
  <2>4. /\ route'[loop] = route[loop] /\ stage'[loop] = stage[loop]
        /\ pc'[loop] = pc[loop]
        /\ loop \notin conns => loop \notin conns'
    BY <2>1, <2>2, <2>3 DEF Local
  <2>5. QED
    BY <2>1, <2>4 DEF WaitInv, Coroutine, NeedsConnection
<1>4. ASSUME NEW c \in Tasks, ThreadStep(c), loop = NoTask PROVE WaitInv'
  BY <1>1, <1>4 DEF ThreadStep, QueryInThread, Exit
<1>5. ASSUME NEW c \in Tasks, LoopStep(c) PROVE WaitInv'
  BY <1>1, <1>2, <1>5 DEF LoopStep, EndWait, CallModel, SummarizeNext, ModelStep,
     Return, EndStream
<1>6. ASSUME NEW c \in Tasks,
             ClientLeaves(c) \/ \E r \in Routes : Arrive(c, r)
      PROVE  WaitInv'
  BY <1>1, <1>6 DEF ClientLeaves, Arrive
<1>7. CASE CollectGarbage
  BY <1>7 DEF CollectGarbage, LoopInv, WaitInv, Coroutine, NeedsConnection, model,
     requests
<1>8. QED
  BY <1>3, <1>4, <1>5, <1>6, <1>7 DEF EventLoopNext

-------------------------------------------------------------------------------
(* The theorems.                                                           *)

LEMMA LoopInit == EventLoopInit => LoopInv
<1> SUFFICES ASSUME EventLoopInit PROVE LoopInv
  OBVIOUS
<1>1. ModelInv
  BY ModelInit DEF EventLoopInit
<1>2. route \in [Tasks -> Routes] /\ stage \in [Tasks -> Stages]
  BY DEF EventLoopInit, Routes, Stages
<1>3. \A c \in Tasks : TaskInv(c)
  BY DEF EventLoopInit, Init, TaskInv
<1>4. PoolInv
  BY EventLoopAssumption, FS_EmptySet DEF EventLoopInit, PoolInv
<1>5. WaitInv
  BY DEF EventLoopInit, WaitInv
<1>6. QED
  BY <1>1, <1>2, <1>3, <1>4, <1>5 DEF LoopInv

LEMMA LoopStepSafe == LoopInv /\ [EventLoopNext]_allVars => LoopInv'
<1> SUFFICES ASSUME LoopInv, [EventLoopNext]_allVars
             PROVE  LoopInv'
  OBVIOUS
<1>1. ModelInv'
  BY LoopTakesModelSteps, ModelStepSafe DEF LoopInv
<1> DEFINE Requests == /\ route \in [Tasks -> Routes]
                       /\ stage \in [Tasks -> Stages]
                       /\ \A c \in Tasks : TaskInv(c)
<1>2. ASSUME NEW c \in Tasks, Local(c) PROVE Requests'
  <2>1. ASSUME NEW d \in Tasks \ {c} PROVE TaskInv(d)'
    BY <1>2, <2>1 DEF Local, LoopInv, TaskInv
  <2>2. QED
    BY <1>2, <2>1 DEF Local
<1>3. ASSUME NEW c \in Tasks, ThreadStep(c) PROVE Requests'
  BY <1>2, <1>3, QueryLocal, ExitLocal DEF ThreadStep
<1>4. ASSUME NEW c \in Tasks, LoopStep(c) PROVE Requests'
  BY <1>2, <1>4, QueryLocal, CallModelLocal, SummarizeNextLocal, ModelStepLocal,
     ReturnLocal, ExitLocal DEF LoopStep
<1>5. ASSUME NEW c \in Tasks,
             ClientLeaves(c) \/ \E r \in Routes : Arrive(c, r)
      PROVE  Requests'
  BY <1>2, <1>5, ModelStepLocal, ArriveLocal
<1>6. ASSUME CollectGarbage PROVE Requests'
  BY <1>6 DEF CollectGarbage, LoopInv, TaskInv, model, requests
<1>7. CASE UNCHANGED allVars
  <2>1. Requests' /\ PoolInv' /\ WaitInv'
    BY <1>7 DEF allVars, model, requests, pool, LoopInv, TaskInv, PoolInv, WaitInv,
       Coroutine, NeedsConnection
  <2>2. QED
    BY <1>1, <2>1 DEF LoopInv
<1>8. CASE EventLoopNext
  <2>1. Requests'
    BY <1>3, <1>4, <1>5, <1>6, <1>8 DEF EventLoopNext
  <2>2. PoolInv' /\ WaitInv'
    BY <1>8, PoolStep, WaitStep
  <2>3. QED
    BY <1>1, <2>1, <2>2 DEF LoopInv
<1>9. QED
  BY <1>7, <1>8

(* One process with its pool: what holds in every state of the handlers of *)
(* app/routers/ai.py, the sessions of app/db/session.py and the model      *)
(* calls they make.                                                        *)
THEOREM LoopInvariant == EventLoopSpec => []LoopInv
<1>1. EventLoopInit => LoopInv
  BY LoopInit
<1>2. LoopInv /\ [EventLoopNext]_allVars => LoopInv'
  BY LoopStepSafe
<1>3. QED
  BY <1>1, <1>2, PTL DEF EventLoopSpec

(* The pool never hands out more than pool_size + max_overflow, counting   *)
(* the connections nobody refers to any more, and the loop waits only for  *)
(* the checkout of a coroutine; with the types of everything.              *)
THEOREM LoopTypeCorrect == EventLoopSpec => []EventLoopTypeOK
<1>1. LoopInv => EventLoopTypeOK
  BY DEF LoopInv, ModelInv, PoolInv, WaitInv, EventLoopTypeOK
<1>2. QED
  BY <1>1, LoopInvariant, PTL

(* Whatever fails in a handler, in its model calls or in the checkouts of  *)
(* others, get_db gives its connection back.                               *)
THEOREM ConnectionsReturned == EventLoopSpec => []ConnectionsComeBack
<1>1. LoopInv => ConnectionsComeBack
  BY DEF LoopInv, PoolInv, TaskInv, ConnectionsComeBack
<1>2. QED
  BY <1>1, LoopInvariant, PTL

(* llm_monthly_budget_usd is overshot by less than one completion for each *)
(* request the process handles at once.                                    *)
THEOREM BudgetIsSoft == EventLoopSpec => []OvershootIsBounded
<1>1. LoopInv => OvershootIsBounded
  BY DEF LoopInv, ModelInv
<1>2. QED
  BY <1>1, LoopInvariant, PTL

(* The handlers use the model as ModelCalls says: what a route does before *)
(* and after a call, and how it waits for the database, is invisible in    *)
(* what complete, complete_json and run_agent go through.                  *)
THEOREM LoopImplementsModelCalls == EventLoopSpec => Spec
<1>1. EventLoopInit => Init
  BY DEF EventLoopInit
<1>2. [EventLoopNext]_allVars => [Next]_vars
  BY LoopTakesModelSteps
<1>3. QED
  BY <1>1, <1>2, PTL DEF EventLoopSpec, Spec

(* Every stream of the agent is start, at most MaxTurns * MaxTools tool    *)
(* calls, one answer or error, end, in that order; an exception may cut it *)
(* off before the answer or the error, and its client anywhere before the  *)
(* end.                                                                    *)
THEOREM StreamsWellFormed == EventLoopSpec => []StreamIsWellFormed
<1>1. EventLoopInit => StreamInv
  <2> SUFFICES ASSUME EventLoopInit, NEW c \in Tasks PROVE StreamOf(c)
    BY DEF StreamInv
  <2>1. QED
    BY DEF EventLoopInit, Init, StreamOf
<1>2. LoopInv /\ StreamInv /\ [EventLoopNext]_allVars => StreamInv'
  BY LoopTakesModelSteps, ModelStream DEF LoopInv, ModelInv
<1>3. LoopInv /\ StreamInv => StreamIsWellFormed
  <2> SUFFICES ASSUME LoopInv, StreamInv, NEW c \in Tasks, kind[c] = "agent"
               PROVE  /\ \E n \in 0..(MaxTurns * MaxTools) : \E last \in Endings(c) :
                           events[c] = Streamed(n, last)
                      /\ pc[c] = "post" => turn[c] < MaxTurns
    BY DEF StreamIsWellFormed, Streamed
  <2>1. TypeOK /\ Limits
    BY DEF LoopInv, ModelInv
  <2>2. pc[c] = "post" => turn[c] < MaxTurns
    BY <2>1 DEF Limits, Active
  <2>3. PICK n \in 0..MostCalls(c), last \in Endings(c) : events[c] = Streamed(n, last)
    BY DEF StreamInv, StreamOf
  <2>4. /\ MostCalls(c) \in Int /\ MaxTurns * MaxTools \in Nat
        /\ MostCalls(c) <= MaxTurns * MaxTools
    <3>1. /\ MaxTools \in Nat /\ MaxTurns \in Nat /\ pending[c] \in 0..MaxTools
          /\ pc[c] = "tool" => pending[c] > 0 /\ turn[c] < MaxTurns
      BY <2>1, ModelCallsAssumption DEF Limits, TypeOK, Active
    <3>2. CallsOf(MaxTurns) = MaxTurns * MaxTools
      BY <3>1 DEF CallsOf
    <3>3. /\ CallsOf(turn[c]) \in Nat /\ CallsOf(MaxTurns) \in Nat
          /\ CallsOf(turn[c]) <= CallsOf(MaxTurns)
          /\ turn[c] < MaxTurns => CallsOf(turn[c]) + MaxTools <= CallsOf(MaxTurns)
      BY <2>1, CallsOfTurns
    <3>4. MostCalls(c) \in Int /\ MostCalls(c) <= CallsOf(MaxTurns)
      BY <3>1, <3>3 DEF MostCalls
    <3>5. QED
      BY <3>2, <3>3, <3>4
  <2>5. n \in 0..(MaxTurns * MaxTools)
    BY <2>4
  <2>6. QED
    BY <2>2, <2>3, <2>5
<1>4. QED
  BY <1>1, <1>2, <1>3, LoopInvariant, PTL DEF EventLoopSpec

-------------------------------------------------------------------------------
(* Whose requests are counted together, before any of them gets here.     *)

(* With as many proxies in front as settings.trusted_proxy_hops says, the  *)
(* key is the address the outermost of them was called from, whatever, and *)
(* however much, the client has put into the header.                       *)
THEOREM KeyIsOutermostPeer ==
  ASSUME NEW Addresses, NEW peer,
         NEW claimed \in Seq(Addresses),
         NEW appended \in Seq(Addresses), appended # << >>
  PROVE  LimiterKey(Len(appended), claimed \o appended, peer) = appended[1]
<1> DEFINE parts == claimed \o appended
<1>1. Len(claimed) \in Nat /\ Len(appended) \in Nat /\ Len(appended) > 0
  OBVIOUS
<1>2. parts \in Seq(Addresses) /\ Len(parts) = Len(claimed) + Len(appended)
  OBVIOUS
<1>3. parts # << >> /\ Len(parts) - Len(appended) = Len(claimed)
  BY <1>1, <1>2
<1>4. parts[1 + Len(claimed)] = appended[1]
  BY <1>1
<1>5. 1 + (IF Len(claimed) > 0 THEN Len(claimed) ELSE 0) = 1 + Len(claimed)
  BY <1>1
<1>6. QED
  BY <1>1, <1>3, <1>4, <1>5 DEF LimiterKey
===============================================================================
