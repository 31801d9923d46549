# Formal models of the governance proxy

The proxy stands in front of the Unleash Admin API: a change request is
created, approved and applied, every transition is written to a hash-chained
audit log, an apply is made repeatable by an idempotency key, and a small AI
layer answers questions about the data. This directory holds TLA+ modules of
that code, TLC configurations that check them on small instances, and proofs
that TLAPS checks for every instance.

    tlc -config governance_core.cfg MCGovernance.tla     # a run
    tlapm GovernanceProofs.tla                           # a proof module

`PROJECT.json` lists every run, property, theorem, hazard and finding, and
maps every definition to the lines of the source it stands for.

Contents: 1 the system, 2 the modules, 3 how the code became a model, 4 the
runs, 5 what the code does that its documents do not say, 6 the proofs, 7 what
is left out, 8 the plan.

## 1. The system

| component | state | operations | talks to |
|---|---|---|---|
| Change-request write path (`app/routers/flags.py`, `app/routers/change_requests.py`) | table `change_requests` | create, approve, apply (and a list that only reads) | authorization, audit, idempotency, Unleash client, session |
| Audit log (`app/audit.py`, `app/routers/audit.py`) | table `audit_logs`, its id sequence | `write_audit`, `verify_chain`, list | session |
| Idempotency store (`app/idempotency.py`, `app/idempotency_cleanup.py`) | table `idempotency_keys` | look up, store, hourly cleanup | session |
| Database session (`app/db/session.py`) | connection pool, one transaction per request | `get_db`: commit on return, roll back on any exception | Postgres |
| Unleash client (`app/unleash_client.py`) | none (the feature lives in Unleash) | `apply_change_request`: get, create or update, add strategies, toggle; retries | Unleash |
| Authorization (`app/authorization.py`) | `_local_policy`, `_policy_mtime`, shared by all threads | `can_edit_feature`, hot reload | OpenFGA, the policy file |
| Authentication (`app/auth.py`) | `_jwks_cache`, shared by all threads | `_get_signing_key`, decoding of the token | the JWKS endpoint |
| LLM client (`app/ai/llm.py`) | `_spent_usd` of the process | `complete`, `complete_json` | OpenAI |
| Audit agent (`app/ai/agent.py`) | one conversation per request | `run_agent`, `run_agent_stream` | OpenAI, read-only queries |
| HTTP application (`app/main.py`) | the cleanup task of the process | `lifespan`: start and cancel the cleanup; `get_limiter_key` | cleanup, slowapi |
| AI heuristics, configuration, schemas, logging, migrations, dashboard | none of their own, or a library's | see section 7 | |

Handlers are plain functions (FastAPI runs them in a thread pool) except the AI
routes, which are coroutines of one event loop. Several replicas may share one
Postgres. So the hard behaviour is:

* two transactions at READ COMMITTED that read the same row or the same tail of
  the chain, then both write;
* a call to a foreign system (Unleash) in the middle of a transaction that may
  still be rolled back, and whose answer may be lost;
* unlocked caches (`_jwks_cache`, `_local_policy`) that several threads read and
  write in several statements, with I/O in between;
* retries of requests that are not idempotent;
* rows that expire by one clock, are looked up by another and deleted by a
  background loop that may stop for good;
* coroutines that block their event loop while they wait for a connection;
* a budget that is checked before an `await` and charged after it.

What makes each component correct:

* write path: status, audit log, idempotency rows, the answers clients got and
  what reached Unleash agree, whoever interleaves and whatever fails;
* audit log: the chain breaks only when it should, and `verify_chain` reports
  exactly what it can know;
* idempotency store: a retry is answered from the table for as long as the TTL
  says, and an expired row does not block its key for long;
* Unleash client: a normal return means the change is there, duplicates are
  bounded, nothing is enabled before the strategies that limit it;
* the two caches: what was withdrawn is refused after a known time, what was
  changed is seen;
* AI layer: bounded overspending, well-formed streams, no connection lost,
  termination.

## 2. The modules

| module | what it is |
|---|---|
| `AuditChain` | the hash chain as operators on a set of rows: hash, tail, intact row, `VerifyChain` |
| `Governance` | the write path: requests, transactions, failures, expiry (EXTENDS `AuditChain`) |
| `ChangeRequestLifecycle` | the abstract specification: absent, pending, approved, applied, once each |
| `GovernanceInvariant` | the inductive invariant of the write path, part by part |
| `MCGovernance` | the instances of both for TLC |
| `GovernanceProofs` | 1 types, 2 the inductive invariant and its consequences, 3 the hash chain, 4 one worker at a time, 5 row locks and the rows of keys |
| `AuditVerification` | `verify_chain` as the loop it is, over logs that are edited behind its back |
| `AuditChainProofs` | what an append, a late commit and an edit do to a chain, for every chain |
| `AuditVerificationProofs` | the loop of `verify_chain` and what its answer means, for every log |
| `UnleashApply`, `MCUnleashApply` | the HTTP requests of one apply, with retries |
| `UnleashCall` | the abstract specification: the whole call as one step that ends ok or error |
| `UnleashProofs` | the guarantees of a call, with sums over any number of applies, and the refinement |
| `KeyRetention`, `MCKeyRetention` | one idempotency key over time: clock, TTL, time zone, the cleanup loop of each process |
| `KeyRow` | the abstract specification: the life of a row as `Governance` assumes it |
| `KeyRetentionProofs` | how long a key works, how far apart its applications are, and the refinement |
| `SigningKeys` | the JWKS cache, statement by statement |
| `SigningKeysProofs` | how long a withdrawn key is accepted, why a valid one is refused |
| `LocalPolicy`, `MCLocalPolicy` | `can_edit_feature` and the hot reload, statement by statement |
| `LocalPolicyProofs` | that a decision follows the file, for any number of threads |
| `ModelCalls` | the LLM client, its budget, and the agent with its event stream |
| `EventLoop` | the requests of one process on its event loop, its threads and its connection pool (EXTENDS `ModelCalls`) |
| `EventLoopProofs` | the pool, the connections, the budget, the streams, that `EventLoop` implements `ModelCalls`; the theorem about `RateLimitKey` |
| `RateLimitKey` | `get_limiter_key` as an operator |

How they compose: `Governance` extends `AuditChain` and runs its operators
inside transactions; `AuditVerification` checks that the loop of the code
computes the same operators. `Governance!CallUnleash` is one step;
`UnleashApply` is that step in detail and is shown to implement `UnleashCall`,
whose three outcomes (done and ok, done and error, not done and error) are those
of `CallUnleash`. `Governance` takes two answers as given: the subject of the
token (a parameter of each request, whose key is the subject of `SigningKeys`)
and the permission (the relation `Editors`, whose changes are the subject of
`LocalPolicy`). `Governance` also leaves time out: a row may expire and be deleted at
any moment, which is what `KeyRow` says of one row and `KeyRetention`, with its
clocks, is shown to implement; that every row of `Governance` lives so as well is a
theorem (`RowsLiveAsKeyRow`). `EventLoop` composes `ModelCalls` with the pool:
each of its steps that concerns a model call contains an action of `ModelCalls`,
at the place where the handler of the route makes it, so that it implements the
specification of `ModelCalls`.

### Slips

Some definitions stand beside a second version of themselves whose comment
begins with `Slip:`. A slip is the definition with a plausible mistake in it: a
dropped guard, an off-by-one, a wrong order. Nothing uses a slip; `PROJECT.json`
pairs each property with a slip (or with another definition of the module) that
breaks it, so that a reader sees what each property depends on.

## 3. How the code became a model

**A request** is a member of `Requests` with a program counter `pc`. Its
transaction reads committed rows (READ COMMITTED: each statement sees what is
committed when it runs) and its own writes become visible at `Commit`.

| step of `Governance` | code |
|---|---|
| `BeginCreate`, `BeginApprove` | the handler up to its first write; all its checks and early exits |
| `BeginApply` | `require_idempotency_key` and `get_existing_response`, whose hit is answered before anything is checked about the path |
| `LoadForApply` | the row, the permission, the status |
| `CallUnleash` | `client.apply_change_request` |
| `ReadTail`, `InsertAudit`, `UpdateCR` | `write_audit`: `_latest_hash`, then the flush, which sends the INSERT of the audit row (and draws its id) before the UPDATE of the change request (and takes the row lock) |
| `Commit`, `CommitConflict`, `CommitUnacknowledged` | `get_db` after the handler returned: the INSERT of the idempotency row is sent here; a unique violation rolls everything back as a 500; the acknowledgement may be lost |
| `RaiseBadGateway` | the `except` branch of apply: a flushed audit row, then HTTPException, then the rollback of `get_db` |
| `Abort` | any statement fails (500), or the process or connection dies (no answer): the transaction is rolled back |
| `Expire`, `Cleanup` | the TTL of a key passes; a pass of the cleanup deletes the row |

Decisions that a reader may want to check:

* `autoflush` is off, so the assignment of the new status reaches Postgres only
  with the flush in `write_audit`. The unit of work sends INSERT `audit_logs`
  before UPDATE `change_requests`, which have no foreign key between them.
* `audit_logs.id` comes from a sequence: a rollback leaves a gap, and rows
  become visible in another order than their ids.
* An expired idempotency row is invisible to the look-up but still violates
  `UNIQUE(key)` until `Cleanup` has run.
* A key used for another change request answers with the body stored for the
  first one; `SuccessIsDurable` is stated about the body, so it covers this.
* What Unleash did is never undone; `effects` remembers it.
* A crash is `Abort` with no answer: everything that must survive is in
  Postgres. A client's retry is another request with the same key.
* FastAPI is pinned below 0.115: the code after `yield` in `get_db` runs before
  the response is sent, so a failed commit is a 500 and never a lost 200.

**Hashes.** SHA-256 is an injective function: the hash of a row is the sequence
of the contents hashed into it, so equal hashes mean equal histories.

**KeyRetention.** One key, the applies that carry it, and a cleanup task for each
process. `Replay` and `Miss` are the look-up, `Store` takes the TTL, `Commit`
inserts the row, which `UNIQUE(key)` refuses whether the one that is there has
expired or not (`RollBack`). `Pass` is one round of the loop. `PassFails` ends
the task: its handler of the error raises itself. `Start` and `Stop` are
`lifespan`, or a process that dies. `CleanUpOnce` may come at any time.

What is stored is a naive `utcnow()` plus the TTL, in a column with time zone,
so Postgres reads it in the zone of the session. The look-up compares it with
another naive time and the error cancels; the cleanup compares it with an aware
one. `offset` is that zone's distance from UTC, east positive: 0 in the Docker
setup, whose sessions are in UTC. Where it is positive the cleanup deletes rows
that early, and a retry that comes then is not answered from the table: it gets
a 400, since the change request is already applied, or applies another one if
the key is used for it. `offset` is constant; a change to or from daylight
saving time is not modelled. All processes and the database share one clock.

`Tick` waits for nobody longer than `Longest` (an apply) and `Late` (a loop whose
sleep is over). No fairness is assumed: `lifespan` raises before it starts the
task (section 5), and a process served without it has no loop, so `Start` need
never happen. `StaleRowIsShort` is therefore about loops that run: one that has
made a pass is enough, if every other is dead.

**UnleashApply.** Each HTTP request is one attempt of `_request_with_retry`:
accepted; refused (4xx); transient (5xx, transport, timeout), executed or not,
and tried again up to `Attempts` times; or another exception, which nothing
retries. A create of a name that is taken is a 409, which ends the apply. This
includes a name taken by the lost first attempt of the same call.

**SigningKeys.** The cache is two dictionary entries that are read and written
separately. `Begin` takes `now`; `CheckAge`, `Check` are the two operands of
the condition; `Fetch` is the moment the issuer answers, `StoreKeys` and
`StoreTime` the two assignments. `Tick` advances the clock as long as no call
is older than `Longest`. That bound is a parameter because the timeout of httpx
is per phase (connect, read, write, pool), not for the request as a whole.

**LocalPolicy.** Each file-system call and each assignment of
`_reload_if_changed` and `_load_local_policy` is a step. What the matching of
allowlist entries computes is abstracted to the set of users a policy permits
to edit the feature in question. Constructing the singleton is taken as done.

**ModelCalls.** Tasks interleave only where the coroutine awaits: at the HTTP
request, at the sleep between attempts, and at a `yield` of the stream. A model
answer costs between 0 and `MaxCost`; an attempt that timed out costs nothing
in `_spent_usd`, as in the code. Each `yield` of a stream is a step of its own
(`Yield`), so that the client may leave after any event: after a final answer or
an error and before the `end` that follows it, too. `run_agent` and
`run_agent_stream` have the same loop and are one set of actions: `run_agent`
takes the steps of the stream although it suspends at none of them.

**EventLoop.** The handlers of `app/routers/ai.py` are coroutines, so their
queries run on the event loop. While one of them waits for a connection (`loop`),
nothing else on the loop moves: no model call, no arrival, and no request whose
thread has finished, because `get_db` closes a session only after the loop has
taken note of the thread's return (`Return`, then `Exit` in a thread). Only the
checkout's timeout is then sure to come (`TimeOut`; the default `pool_timeout` of
SQLAlchemy). For the agent a timeout is the result of a tool, for everybody
else it is an exception. A session keeps its connection from its first query to
its close, model calls included.

The session of the streaming route is closed before the stream begins, since
FastAPI below 0.115 closes dependencies before it sends the response, and opens
itself again at the first tool call. Nothing closes it a second time: its
connection (`leaked`) waits for the garbage collector, which may never run.

`/v1/ai/insights` makes two summaries in a row with one connection: it has a
stage `next` between them, after which it goes on like `summarize`.

What this leaves out or adds: the limit of 40 threads of anyio is not modelled.
It does not apply where it could matter: FastAPI closes dependencies outside of
it, so a request that holds a connection never waits for a thread. `Query` and
`CallModel` are two steps, and so are two tool calls of `run_agent` in one turn,
although the loop runs nothing in between; its answer and its end are steps too,
since it shares those of the stream. This only adds interleavings.

## 4. The runs

Distinct states are those of one run on this instance. Every constant of a run
is in its cfg.

| run | instance | states | what it shows |
|---|---|---|---|
| `governance_core` | 4 requests, 2 change requests, 2 keys (one expires), 1 legacy row, all failures, 4 workers | 398 300 | invariants relating status, audit log, keys, answers and effects, a key that is used for another change request included; Unleash is not changed without a row but under an error; a commit breaks the chain exactly when its tail is stale; a broken chain stays broken |
| `governance_live` | 3 requests, 1 change request, 2 users (one without permission), all failures, fairness | 26 445 | nothing reaches Unleash without an approval and a permission; every request that has begun ends; the inductive invariant of the proofs holds in every reachable state |
| `key_retention` | 3 applies, 2 processes, sessions 1 tick west, at and 1 tick east of UTC, TTL 3, interval 2, `Longest` and `Late` 1, clock to 8 | 461 617 | a retry is replayed for the TTL; applications of a key are the TTL apart; an expired row is gone after the next pass of any loop; the row lives as `KeyRow` says |
| `unleash_apply` | 2 applies of one feature, any of 3 changes, 3 attempts, all faults | 100 353 | the four guarantees of a call, termination, and that it implements `UnleashCall` |
| `audit_verification` | ids up to 4, 2 contents, edits, deletions, gaps, switching | 79 832 | the loop of `verify_chain` agrees with its definition for every log and limit, and what its answer means |
| `signing_keys` | 2 threads, 2 kids of which 1 is ever issued, clock to 6 | 2 828 851 | a withdrawn key is refused after `Ttl + 2 * Longest`; a rotated-in key is found but for two reasons |
| `local_policy` | 3 threads, 1 user, 3 modification times | 1 237 781 | a decision follows the file as it is, unless its last change was hidden in one of the named ways |
| `event_loop` | 2 requests at a time of any route, again and again; a pool of 1; cap 1, cost up to 1, 1 retry, 2 turns of up to 2 tools | 326 855 | overspending is bounded; streams are well formed, and cut off only by an exception or a client that leaves; connections come back; every request ends |
| `chain_fork`, `double_apply`, `lifecycle_regress`, `unaudited_failure` | 3 or 4 requests, 1 change request | | section 5 |

**Why the bounds are enough.** Four requests on one change request are a
create, an approve and two applies, or a create, two approves and an apply:
every race between two transactions that both reach the row, the key or the
tail, with the rows they need. Different change requests meet only in the
chain and in the keys. With two of them, the four requests are also a create, an
approve, an apply, and an apply of the other change request with the same key,
which is answered from the table. Two kids show a
known and an unknown kid; two threads show one overwriting the other, and six
ticks are more than `Ttl + 2 * Longest` after the start. In `key_retention` the
third apply is the retry of two that overlap; eight ticks are two lives of a row
and a pass after each; of two loops one can be dead while the other runs. The
bounds in its three invariants are tight: with any of them off by one TLC finds a
counterexample on this instance. Three threads in
`local_policy` are one that loads, one whose load fails, and one that decides;
two of them already need every clause of `Hides`, and the third shows that
nothing more is needed. Two requests reach the budget together, and with a pool
of one each can hold what the other waits for, be it on the loop, in a thread
or in a session nobody refers to any more. Each clause of `Hides` and each summand of the bound in
`WithdrawnIsRefused` is necessary: without it TLC finds a counterexample on
these instances.

**Deadlock.** All runs but `audit_verification` say `CHECK_DEADLOCK FALSE`,
because they stop when every request has been used, every apply has ended or the
clock is at its bound (`signing_keys`, `key_retention`); `event_loop` never has to stop, but deadlock would say
nothing there, since a client may always come. That nobody waits for ever is
checked instead as a liveness property (`EveryRequestEnds`, `EveryApplyEnds`,
`EveryHandlerEnds`).

**Symmetry** is used for interchangeable requests, change requests, applies,
processes and threads, and only in runs without liveness properties.

**Fairness.** Weak fairness of the next step of each handler, apply or task
that has begun: a thread in the pool or a coroutine on the loop keeps running,
the HTTP client has timeouts, a sleep ends. The client of a stream takes what it
is sent or leaves: a send that is blocked for ever by a client that does neither
is not modelled. Nothing else is assumed of clients, of the success of a request, of expiry, of the start of a cleanup loop or of its
passes. Weak fairness is enough
for `UpdateCR`, which waits for a lock: the holder has only its commit left
and releases the lock, and `EveryRequestEnds` is checked with finitely many
requests, so nobody can take the lock from a waiter for ever. With an unbounded
supply of requests Postgres's lock queue would have to be modelled.

In `event_loop` requests never run out, and the loop may be blocked for others
again and again, so weak fairness is not enough. Steps on the loop are strongly
fair: asyncio runs callbacks in the order in which they became ready, so a
coroutine that is ready again and again is not passed over for ever. Steps in
threads are weakly fair. `CollectGarbage` is not fair: that every request ends
does not depend on it.

## 5. What the code does that its documents do not say

Four disagreements are runs that end in a counterexample.

* `chain_fork`: `write_audit` reads the tail without a lock, so two overlapping
  transactions chain onto the same row and `verify_chain` reports a break nobody
  caused. `app/audit.py:63` says "extend it atomically";
  `docs/ARCHITECTURE.md:27` says the order is serialized. What does hold is that
  the chain breaks at such commits and no others (`StaleTailBreaksChain`).
* `double_apply`: the idempotency row is read before and written after the call
  to Unleash, so two applies with one key both reach Unleash and the loser ends
  as a 500. `tests/test_concurrency.py:3` and `docs/ARCHITECTURE.md:28` say
  otherwise. What does hold under concurrency is `OneApplicationPerKey` (one
  committed application) and `SameKeySameBody`.
* `lifecycle_regress`: `approve` writes the status without comparing it again,
  so an applied change request can become approved again and be applied twice.
  `app/db/models.py:23` gives the order.
* `unaudited_failure`: `app/routers/change_requests.py:194` writes the audit row
  of a failed apply in the transaction that the HTTPException two statements
  later makes `get_db` roll back (`app/db/session.py:50-52`), so no failed apply
  is ever in the log, with one worker and without any race.
  `docs/ARCHITECTURE.md:54` says "502 with audited failure". What does hold is
  that a change of Unleash which is not in the log never comes with a success
  (`UnloggedEffectsAreErrors`).

Smaller ones, met while modelling, without a run of their own:

* `app/idempotency.py:46` and `:71` use naive times and
  `app/idempotency_cleanup.py:29` an aware one: if the database session is east
  of UTC keys work for less than `app/config.py:89` says (`RetryIsReplayed`).
* `app/authorization.py:43` takes the modification time after parsing: a file
  replaced in between is not loaded, although `README.md:14` promises hot reload
  (`Hides` in `LocalPolicy` says exactly when).
* `app/auth.py:31` says the key set is fetched at most every
  `jwt_jwks_cache_seconds`; an unknown kid fetches it on every request. A valid
  key can be refused when a late answer overwrites a newer one
  (`RotationIsSeen`).
* `app/ai/llm.py:99` says "Never raises": a 200 whose body is not JSON does
  (`Garbled`). `llm.py:51` says text is None iff not ok; a JSON parse failure
  keeps the text (`not_json`).
* The agent neither checks nor charges the budget, although `README.md:23` calls
  the layer bounded by it.
* `app/idempotency_cleanup.py:39` passes a keyword to a standard logger, so the
  first failed pass ends the loop with a TypeError (`PassFails` in
  `KeyRetention`).
* `app/ai/agent.py:10-11` calls a run of the agent transactionally consistent
  because it uses one session. At READ COMMITTED each of its queries sees another
  snapshot, with model calls in between.
* `app/main.py:56` and `:58` pass `event` to structlog, whose first positional
  parameter has that name: a TypeError while the program starts, before line 59
  creates the task of the cleanup loop.
* `app/db/session.py:44` says a session per request; that of the streaming route
  is closed before it is used (`EndStream` in `EventLoop`).
* `app/unleash_client.py:156` speaks of replacing strategies; the code only adds
  (`DuplicatesAreBounded` is about what that means together with retries).

## 6. The proofs

Every safety invariant and every action property that a passing run checks is also a
theorem, for all values of the constants that the named assumptions allow; so are
the refinements. Only liveness is not (end of this section).

**Write path.** `GovernanceProofs!TypeCorrect` proves `TypeOK`, strengthened by
`TailIsHash` (a tail read while the chain is on is a hash, not NULL).
`Invariance` proves `Spec => []IInv`, where `IInv`
(`GovernanceInvariant`) has fifteen parts. None of the safety properties is
inductive alone: they speak of committed rows, and a commit installs what a
transaction has gathered over several steps during which others have committed.
The parts say what a running transaction knows and why it is still true:

| part | the argument |
|---|---|
| `IdsInv` | ids in use are below the sequence, so a new row is above every committed one |
| `OwnerInv` | a committed row is the one its request built, and that request is over: nothing about it changes |
| `ControlInv` | how far a request is determines what it has done |
| `GrantInv`, `ApproverInv` | the permission and the approval a request relies on are committed rows, which no step removes, so a stale read stays a true one |
| `CreateInv` | a fresh id is nobody else's |
| `StatusIsAudited`, `AuditIsCausal` | status and log are written by one commit, at a higher id than what they rest on |
| `KeyInv`, `AnswerInv`, `SuccessIsDurable` | an idempotency row replays a committed application and is unique while it cannot expire |
| `UnloggedEffectsAreErrors` | a request that has reached Unleash either commits its own row with its answer, or ends in an error, or has not been answered yet |
| `LinkInv`, `LinksAreCommitted` | a tail was committed before its reader drew its id |

The proof has frame lemmas first (what a step leaves alone, for the request that
takes it and for the others), then one lemma per part. The invariant was checked
by TLC (`governance_live`) before it was proved. From it follow, for any number
of requests, users, keys and change requests, and any subset of the failures:
`StatusAudited`, `AuditCausal`, `SuccessDurable`, `NoSilentEffect`,
`ChainLinksCommitted`, `NoOverclaim`, `OnlyApprovedEffects`, `OneApplication`,
`SameBody`. The assumptions are `GovernanceAssumption` and, where the chain is
concerned, `HashAssumption`: a NULL is not a digest.

**The chain under concurrency.** `OnlyStaleTailsBreak` and `ForksAreForever` need
two more things than `IInv`. Ids are drawn at the flush and become visible at the
commit in another order, so `NumberInv` says that the sequence never hands one
out twice (`IdsAreUnique`). And the row of a late commit lands *between* rows
that are there, so an append at the end (`AppendKeepsChain`) is not the only case.
`ChainSurvives` covers both: if there is a row above the new one, the next one
above it was chained to an older row, and no other row has the hash of that one
(`NoHashTwice`, because every hash contains the whole history), so the chain is
broken at that row (`LateRowBreaksChain`). Such a commit always has a stale tail,
which is why a stale tail is the only cause. `NoHashTwice` is an induction along
the log; it is done by taking a counterexample with the least id.

**One worker at a time.** Three of the four runs of section 5 need two
requests at once (`unaudited_failure` does not). What they refute is true with
`Workers = 1`, and proved; no run repeats it. `SerialInv` says that what the one
handler has read is still so, that the tail it holds is the latest hash, and that
the chain verifies. From it follow `OneWorkerIsSerial` (verify_chain is always
ok, whatever fails), `OneWorkerFollowsLifecycle` (the refinement of
`ChangeRequestLifecycle`, whatever fails) and `OneWorkerAppliesOnce`. The last
one allows only the failure "commit": a crash or a failed statement between the
call and the commit leaves the change in Unleash and no row of the key, so that a
retry applies it again, even with one worker.

**Row locks.** That nobody waits for ever is liveness and stays with TLC. Its
safety half is `LocksAreShort`: who holds a row lock has only its commit left, so
nobody who holds one waits for one.

**Rows of keys.** `RowsLiveAsKeyRow`: for each key the write path implements
`KeyRow` without early deletion. `KeyRetentionProofs!RowIsKeyRow` shows the same
of the timed model, so that the two models of a key agree on what one row can do.

**Unleash call.** `UnleashProofs!ApplyTypeCorrect` and `OneCallOneStep`: every
step of a retried request maps to a step of `UnleashCall` or to a stutter, for
any number of applies, strategies and attempts. `CopiesAreCounted` proves the
invariant behind the rest: the copies of a strategy in Unleash are at least what
the applies together have had accepted (`Accepted`) and at most `Attempts` times
that, plus the attempts at the request under way (`Spent`) and the copy that may
have been there. These are sums over the set of applies, which is why
`UnleashApplyAssumption` says that it is finite; the lemmas on sums (one summand
changes, sums are monotone and linear) are proved by taking a smallest subset for
which they fail. From it follow `OkMeansApplied`, `FewDuplicates` and
`NotOnTooEarly`. `AsAsked` is inductive by itself.

**Chain and verification.** `AuditChainProofs`: `AppendKeepsChain` (a row at a
higher id keeps an intact chain intact exactly when it carries the latest hash),
`EditIsFirstBroken` (an edited row of an intact chain becomes its first broken
row), and the three theorems named above. `AuditVerificationProofs` is about logs
that are edited and deleted from. `RowsInv` says that each row is one that was
written, up to its payload; `WrittenInv` that what was written verifies as long
as nothing was deleted. The condition is necessary: after the last row has been
deleted the next one is chained to the same hash as it was, and what was written
is a fork. From the two follow `EditsAreReported` (an edited row no longer has
the hash of its payload, and the rows below it do not depend on it) and, without
`WrittenInv`, `OkVouchesForPayloads`. `LoopIsVerifyChain` proves that the
loop of the code computes `VerifyChain`: the loop is a recursive function over the
rows by ascending id, and the lemma on what it has computed after `i` rows is
proved for the least `i` at which it would be wrong.

**Idempotency keys.** `KeyRetentionProofs!Retention` proves `Spec => []KeyInv`.
The guarantees are about rows that may be long gone, so the invariant says what
their absence means: a committed row is in the table unless it has become due
(`RowInv`), and a row that a sleeping loop has left there was not yet due, or not
yet there, at the last pass of that loop (`LoopInv`). What is gone was therefore
committed at least the TTL, less the corrections, before anything that comes now.
From it follow `RetriesAreReplayed`, `ApplicationsAreSpaced`, `StaleRowsAreShort`
and the refinement `RowIsKeyRow`, for any number of applies and processes, any TTL,
interval, zone and clock, from `KeyRetentionAssumption`.

**Local policy.** `PolicyIsCurrent` proves `CurrentInv`: while the file is there and
its last change is not hidden, the time the service holds is not later than that
of the file; when it is the same the policy is what the file says; and what a
thread in the middle of a load is about to store or to stamp will not change
that. A load that overlaps with a change of the file would, and it is one of the
ways of hiding a change (`Hides`): the invariant is the reason why the list of
these ways is complete. `DecisionsAreCurrent` follows, for any number of threads,
users and times.

**Signing keys.** `SigningKeysProofs!Cached` proves `CacheSafe` inductive. A
thread can overwrite the keys of another one and leave the time of a third; what
holds is a bound between the two entries: a key that is in the cache and no
longer published was withdrawn at most `Longest` before the time the cache says,
or is about to say (`CacheInv`). It is true because no call is older than
`Longest` when it stores (`AgeInv`), and because what it stores was published
after it began (`GotInv`). `TrustInv` carries it over to threads that have
already decided to trust the cache. `WithdrawnKeysAreRefused` adds the second
`Longest`: the thread itself may be that old when it answers. `RotationsAreSeen`
rests on `SeenInv`.

**Event loop.** `EventLoopProofs!LoopImplementsModelCalls` shows that every step
of the process is a step of `ModelCalls` or leaves it alone, so what is proved
of `ModelCalls` holds of the process. `LoopInvariant` proves `LoopInv`
inductive, from which follow `BudgetIsSoft` (`OvershootIsBounded`: a call joins
those in flight only below the cap, and leaves them with at most `MaxCost`),
`LoopTypeCorrect` (`EventLoopTypeOK`) and `ConnectionsReturned`
(`ConnectionsComeBack`). The latter two need `TaskInv`: a request's stage, its
model call and its connection move together. Each action has a lemma that says
what it does to its own request (`Local`), and none touches another one's.
`StreamsWellFormed` needs a second invariant, `StreamInv`: the events of an agent
that has not ended are start, a number of tool calls within what its turns so
far allow and, once it has been yielded, the answer or the error. The `end` that
follows completes the stream, and a client that leaves at any point has seen a
prefix of a complete one.

**Rate-limit key.** `EventLoopProofs!KeyIsOutermostPeer`: for every header and every
number of proxies.

**How inductions are done.** No installed prover can instantiate an induction theorem, since
the property is a parameter. Where a lemma needs one (sums over finite sets,
chains, the loop of `verify_chain`) its proof takes a minimal counterexample: a
least number, or a smallest subset, at which it fails.

**Only model-checked.** Liveness: `EveryRequestEnds`, `EveryApplyEnds` and
`EveryHandlerEnds` need fairness and ENABLED, which the prover does not handle.

## 7. What is left out

* What the AI heuristics compute (risk, suggestions, summaries, anomaly,
  natural-language query): stateless functions of rows they read. When they ask
  the database and the model is in `EventLoop`.
* Matching of allowlist entries, decoding of tokens, parsing of settings,
  schemas, JSON: data that no property tells apart.
* The counting of slowapi's rate limiter (whom it counts is in `RateLimitKey`),
  metrics, logs, traces, the dashboard, migrations.
* The queries behind the list endpoints and the agent's tools: read-only.
* Two threads constructing the `AuthorizationService` singleton at once: both
  build it from the same file, one instance wins.
* The budget is in whole units; fractions of a dollar do not matter to it.
* Clocks of processes and database that differ, and a session zone that changes
  (daylight saving time), in `KeyRetention`.

## 8. The plan

Done: the write path with its inductive invariant; the chain and its
verification; the Unleash call and its refinement; the two caches; the AI layer
with the event loop and the pool; the idempotency keys over time, with the
cleanup loops. Proved: every safety and action property that a passing run checks, the
refinements, and what one worker guarantees.

Next, in this order:

1. An abstract specification of what the write path promises under concurrency,
   where `ChangeRequestLifecycle` fails: a change request may go from applied
   back to approved through an approval that was read as pending, and in no
   other way.
2. Retries with one worker and crashes: how often a key can then reach Unleash
   (once more for each crash), in place of `OneWorkerAppliesOnce` without them.
3. Ranking arguments for the three liveness properties as action properties: each
   step of a handler lowers a measure, which is the half of termination that
   can be proved.
