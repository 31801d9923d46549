------------------------------- MODULE EventLoop -------------------------------
(***************************************************************************)
(* One process: its event loop, its connection pool, and the requests that *)
(* share both.  Handlers of the AI routes (app/routers/ai.py) are          *)
(* coroutines, and what they ask of the database runs on the event loop:   *)
(* when the pool (app/db/session.py) is empty, the whole loop waits for a  *)
(* connection.  All other handlers run in threads, but their sessions are  *)
(* closed by get_db only after the loop has taken note of their return.    *)
(*                                                                         *)
(* ModelCalls says what happens between a handler and the model.           *)
(***************************************************************************)
EXTENDS ModelCalls

CONSTANTS PoolSize,   \* pool_size + max_overflow
          NoTask      \* the loop waits for nobody

ASSUME EventLoopAssumption == PoolSize \in Nat \ {0} /\ NoTask \notin Tasks

VARIABLES
  route,    \* which handler a task runs
  stage,    \* where its request is
  conns,    \* the tasks whose session holds a connection
  leaked,   \* connections of sessions nobody refers to any more
  loop      \* the task whose checkout the event loop is waiting in

model == << available, cap, spent, kind, pc, attempt, turn, pending, events, result >>
requests == << route, stage >>
pool == << conns, leaked >>
allVars == << model, requests, pool, loop >>

(* table: any handler that is not a coroutine.                             *)
Routes == {"table", "summarize", "insights", "risk", "nl_query", "suggest",
           "agent", "stream"}

Coroutine(c) == route[c] # "table"

(* Slip: connections without a request are not counted.                    *)
ExhaustedByRequests == Cardinality(conns) >= PoolSize

Exhausted == Cardinality(conns) + leaked >= PoolSize

EventLoopInit ==
  /\ Init
  /\ route = [c \in Tasks |-> "table"]
  /\ stage = [c \in Tasks |-> "idle"]
  /\ conns = {}
  /\ leaked = 0
  /\ loop = NoTask

MoveTo(c, nexts) ==
  /\ \E next \in nexts : stage' = [stage EXCEPT ![c] = next]
  /\ UNCHANGED route

-------------------------------------------------------------------------------
(* The database.                                                           *)

(* What a handler does after its query.  An error of the query, or a       *)
(* change request that is not found, is an exception out of the handler.   *)
AfterQuery(c) ==
  CASE route[c] = "table" -> {"return"}
    [] route[c] \in {"summarize", "risk"} -> {"call", "exit"}
    [] route[c] = "insights" -> {"call", "next", "exit"}
    [] route[c] = "nl_query" -> {"exit"}

(* The first query of a session, and for the agent the first tool call,    *)
(* takes a connection, which the transaction then keeps.                   *)
NeedsConnection(c) ==
  \/ stage[c] = "query"
  \/ stage[c] = "model" /\ pc[c] = "tool" /\ c \notin conns

(* Where the request is after a step of its model call.  nl_query asks the *)
(* database last.  It does so with the filters of the regular expressions  *)
(* if the model has none; what complete raises ends it, and so does an     *)
(* answer that is JSON but not an object.  insights has a second summary   *)
(* to make.                                                                *)
AfterModel(c) ==
  CASE pc'[c] # "done"              -> {"model"}
    [] pc'[c] = "done" /\ route[c] = "nl_query" ->
         CASE result'[c] = "raised" -> {"exit"}
           [] result'[c] = "ok"     -> {"query", "exit"}
           [] OTHER                 -> {"query"}
    [] pc'[c] = "done" /\ route[c] = "insights" ->
         IF result'[c] = "raised" THEN {"exit"} ELSE {"next"}
    [] OTHER                        -> {"exit"}

(* With a connection or without one, a tool call is a result.              *)
GoOn(c, nexts) ==
  \/ /\ stage[c] = "query"
     /\ MoveTo(c, nexts)
     /\ UNCHANGED model
  \/ /\ stage[c] = "model"
     /\ CallTool(c)
     /\ MoveTo(c, AfterModel(c))

Take(c) ==
  /\ ~Exhausted
  /\ conns' = conns \cup {c}
  /\ GoOn(c, AfterQuery(c))
  /\ UNCHANGED leaked

(* Slip: without pool_timeout.                                             *)
NeverTimeOut(c) == FALSE

(* pool_timeout has passed: the query raises, and so does the handler,     *)
(* unless it is the agent, to whom that is the result of the tool.         *)
TimeOut(c) ==
  /\ Exhausted
  /\ GoOn(c, {IF Coroutine(c) THEN "exit" ELSE "return"})
  /\ UNCHANGED pool

(* In a thread, which may wait.                                            *)
QueryInThread(c) ==
  /\ ~Coroutine(c) /\ NeedsConnection(c)
  /\ Take(c) \/ TimeOut(c)
  /\ UNCHANGED loop

(* On the event loop.                                                      *)
Query(c) ==
  /\ Coroutine(c) /\ NeedsConnection(c)
  /\ loop = NoTask
  /\ \/ Take(c) /\ UNCHANGED loop
     \/ Exhausted /\ loop' = c /\ UNCHANGED << model, requests, pool >>

(* The loop has been waiting in the checkout.                              *)
EndWait(c) ==
  /\ loop = c
  /\ loop' = NoTask
  /\ Take(c) \/ TimeOut(c)

-------------------------------------------------------------------------------
(* A request.                                                              *)

(* What a handler does first.  get_db of the streaming route is over       *)
(* before the stream begins: a response is sent after the dependencies     *)
(* have been closed.  nl_query may ask for a time before the calendar,     *)
(* which is an exception.                                                  *)
FirstStage(r) ==
  CASE r \in {"table", "summarize", "insights", "risk"} -> {"query"}
    [] r = "nl_query"                                   -> {"call", "exit"}
    [] OTHER                                            -> {"call"}

Arrive(c, r) ==
  /\ loop = NoTask
  /\ stage[c] = "idle"
  /\ route' = [route EXCEPT ![c] = r]
  /\ \E first \in FirstStage(r) : stage' = [stage EXCEPT ![c] = first]
  /\ UNCHANGED << model, pool, loop >>

(* summarize_change_requests and summarize_audit_logs; nothing to          *)
(* summarize needs no model.                                               *)
Summarize(c) == route[c] \in {"summarize", "insights"} /\ BeginComplete(c, "text")

(* get_risk_score.                                                         *)
AssessRisk(c) == route[c] = "risk" /\ BeginComplete(c, "json")

(* interpret_nl_query.                                                     *)
Interpret(c) == route[c] = "nl_query" /\ BeginComplete(c, "json")

(* suggest_flag_name and suggest_strategy_for_rollout, without a session.  *)
Suggest(c) == route[c] = "suggest" /\ \E k \in {"text", "json"} : BeginComplete(c, k)

(* run_agent and run_agent_stream.                                         *)
Investigate(c) == route[c] \in {"agent", "stream"} /\ BeginAgent(c)

CallModel(c) ==
  /\ loop = NoTask
  /\ stage[c] = "call"
  /\ Summarize(c) \/ AssessRisk(c) \/ Interpret(c) \/ Suggest(c) \/ Investigate(c)
  /\ MoveTo(c, AfterModel(c))
  /\ UNCHANGED << pool, loop >>

(* The rest of insights is a summarize that has its connection and its     *)
(* rows, which may again be none.  The query of detect_anomalies, at its   *)
(* end, needs no other connection.                                         *)
SummarizeNext(c) ==
  /\ loop = NoTask
  /\ stage[c] = "next"
  /\ route' = [route EXCEPT ![c] = "summarize"]
  /\ \E next \in {"call", "exit"} : stage' = [stage EXCEPT ![c] = next]
  /\ IF pc[c] = "done" THEN Forget(c) ELSE UNCHANGED model
  /\ UNCHANGED << pool, loop >>

(* A tool call that needs no connection that is not there: the session has *)
(* one, or the tool is unknown.                                            *)
ModelStep(c) ==
  /\ loop = NoTask
  /\ stage[c] = "model"
  /\ Proceed(c)
  /\ MoveTo(c, AfterModel(c))
  /\ UNCHANGED << pool, loop >>

ClientLeaves(c) ==
  /\ loop = NoTask
  /\ stage[c] = "model" /\ route[c] = "stream"
  /\ Disconnect(c)
  /\ MoveTo(c, AfterModel(c))
  /\ UNCHANGED << pool, loop >>

(* The loop takes note that the thread of a handler is done.               *)
Return(c) ==
  /\ loop = NoTask
  /\ stage[c] = "return"
  /\ MoveTo(c, {"exit"})
  /\ UNCHANGED << model, pool, loop >>

(* The request is over.                                                    *)
Finish(c) ==
  /\ route' = [route EXCEPT ![c] = "table"]
  /\ stage' = [stage EXCEPT ![c] = "idle"]
  /\ IF pc[c] = "done" THEN Forget(c) ELSE UNCHANGED model

(* Slip: only a commit closes the session.                                 *)
ExitAfterSuccess(c) ==
  /\ stage[c] = "exit" /\ route[c] # "stream"
  /\ Finish(c)
  /\ conns' = IF result[c] = "raised" THEN conns ELSE conns \ {c}
  /\ UNCHANGED << leaked, loop >>

(* get_db after the yield, in a thread: commit or rollback, and close.     *)
Exit(c) ==
  /\ stage[c] = "exit" /\ route[c] # "stream"
  /\ Finish(c)
  /\ conns' = conns \ {c}
  /\ UNCHANGED << leaked, loop >>

(* The session of a stream was closed before it was used, and is not       *)
(* closed again: the connection it has taken since waits for the garbage   *)
(* collector.                                                              *)
EndStream(c) ==
  /\ loop = NoTask
  /\ stage[c] = "exit" /\ route[c] = "stream"
  /\ Finish(c)
  /\ conns' = conns \ {c}
  /\ leaked' = IF c \in conns THEN leaked + 1 ELSE leaked
  /\ UNCHANGED loop

CollectGarbage ==
  /\ leaked > 0
  /\ leaked' \in 0..(leaked - 1)
  /\ UNCHANGED << model, requests, conns, loop >>

ThreadStep(c) == QueryInThread(c) \/ Exit(c)

LoopStep(c) ==
  \/ Query(c)
  \/ EndWait(c)
  \/ CallModel(c)
  \/ SummarizeNext(c)
  \/ ModelStep(c)
  \/ Return(c)
  \/ EndStream(c)

EventLoopNext ==
  \/ \E c \in Tasks :
       \/ \E r \in Routes : Arrive(c, r)
       \/ ThreadStep(c)
       \/ LoopStep(c)
       \/ ClientLeaves(c)
  \/ CollectGarbage

(* Threads run, and the loop runs what is ready in the order in which it   *)
(* became ready, so that nobody is passed over for ever.  Nothing makes    *)
(* the garbage collector run.                                              *)
EventLoopSpec ==
  /\ EventLoopInit /\ [][EventLoopNext]_allVars
  /\ \A c \in Tasks : WF_allVars(ThreadStep(c)) /\ SF_allVars(LoopStep(c))

-------------------------------------------------------------------------------
(***************************************************************************)
(* Properties                                                              *)
(***************************************************************************)

Stages == {"idle", "query", "call", "next", "model", "return", "exit"}

(* Variables are typed; the pool never hands out more than it has, and the *)
(* loop waits only for a checkout.                                         *)
EventLoopTypeOK ==
  /\ TypeOK
  /\ route \in [Tasks -> Routes]
  /\ stage \in [Tasks -> Stages]
  /\ conns \subseteq Tasks
  /\ leaked \in Nat
  /\ Cardinality(conns) + leaked <= PoolSize
  /\ loop \in Tasks \cup {NoTask}
  /\ loop # NoTask => Coroutine(loop) /\ NeedsConnection(loop)

(* A connection that a session has taken belongs to a request that is      *)
(* still there and has begun to use it, whatever has failed in it, and     *)
(* however the checkouts of others have ended: a request that is over has  *)
(* given its connection back, or it was a stream.                          *)
ConnectionsComeBack ==
  \A c \in conns : stage[c] \notin {"idle", "query"}

(* Every request ends, although a loop that waits for a connection keeps   *)
(* every holder of one from giving it back.                                *)
EveryHandlerEnds == \A c \in Tasks : stage[c] # "idle" ~> stage[c] = "idle"
===============================================================================
