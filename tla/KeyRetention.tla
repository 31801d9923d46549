----------------------------- MODULE KeyRetention -----------------------------
(***************************************************************************)
(* How long an idempotency key works (app/idempotency.py) while the loops  *)
(* of several processes delete expired keys (app/idempotency_cleanup.py).  *)
(* Governance leaves time out: a row may expire and be cleaned up at any   *)
(* moment.  Here both have their clock.                                    *)
(*                                                                         *)
(* Rows of different keys do not meet, so there is one key, which all      *)
(* applies use.  Time passes in ticks.  What is stored is a naive utcnow() *)
(* plus the TTL, in a column with time zone, so Postgres takes it for a    *)
(* time in the zone of the session; the look-up compares it with another   *)
(* naive utcnow() and the error cancels out, but the cleanup compares it   *)
(* with an aware time, and sees it offset ticks early.                     *)
(***************************************************************************)
EXTENDS Integers

CONSTANTS Applies,   \* apply requests that carry the key
          Replicas,  \* processes that run the cleanup loop
          NoRow,     \* the table has no row of the key
          Offsets,   \* possible zones of the database session, east of UTC
          Ttl,       \* settings.idempotency_ttl_seconds
          Interval,  \* CLEANUP_INTERVAL_SECONDS
          Longest,   \* how long an apply can take
          Late,      \* how long a loop can be late for its pass
          MaxClock   \* bound: the last tick

ASSUME KeyRetentionAssumption ==
  /\ NoRow \notin Applies
  /\ Offsets \subseteq Int
  /\ Ttl \in Nat
  /\ Interval \in Nat
  /\ Longest \in Nat
  /\ Late \in Nat
  /\ MaxClock \in Nat

VARIABLES
  clock,        \* utcnow()
  offset,       \* the time zone of the session
  row,          \* the apply whose row is in the table, or NoRow
  pc,           \* where each apply is
  since,        \* when its look-up missed, while it runs
  expires,      \* expires_at of the row it stores
  committedAt,  \* history: when that row was committed
  loop,         \* the cleanup task of each process
  wakeAt        \* when its sleep ends

applyVars == << pc, since, expires, committedAt >>
loopVars == << loop, wakeAt >>
vars == << clock, offset, row, applyVars, loopVars >>

Running == {a \in Applies : pc[a] \in {"missed", "stored"}}
Cleaning == {p \in Replicas : loop[p] \in {"started", "asleep"}}

Init ==
  /\ clock = 0
  /\ offset \in Offsets
  /\ row = NoRow
  /\ pc = [a \in Applies |-> "idle"]
  /\ since = [a \in Applies |-> 0]
  /\ expires = [a \in Applies |-> 0]
  /\ committedAt = [a \in Applies |-> 0]
  /\ loop = [p \in Replicas |-> "down"]
  /\ wakeAt = [p \in Replicas |-> 0]

Goto(a, label) == pc' = [pc EXCEPT ![a] = label]

-------------------------------------------------------------------------------
(* One apply.                                                              *)

(* get_existing_response: the row is there and expires_at > now.           *)
Live == row # NoRow /\ expires[row] > clock

Replay(a) ==
  /\ pc[a] = "idle"
  /\ Live
  /\ Goto(a, "replayed")
  /\ UNCHANGED << clock, offset, row, since, expires, committedAt, loopVars >>

Miss(a) ==
  /\ pc[a] = "idle"
  /\ ~Live
  /\ since' = [since EXCEPT ![a] = clock]
  /\ Goto(a, "missed")
  /\ UNCHANGED << clock, offset, row, expires, committedAt, loopVars >>

(* store_idempotency_response, after Unleash has accepted the change.  The *)
(* row is only sent with the commit.                                       *)
Store(a) ==
  /\ pc[a] = "missed"
  /\ expires' = [expires EXCEPT ![a] = clock + Ttl]
  /\ Goto(a, "stored")
  /\ UNCHANGED << clock, offset, row, since, committedAt, loopVars >>

(* Slip: only a row that has not expired counts.                           *)
LiveKeyTaken == Live

(* UNIQUE(key), which knows nothing of expires_at.                         *)
KeyTaken == row # NoRow

Commit(a) ==
  /\ pc[a] = "stored"
  /\ ~KeyTaken
  /\ row' = a
  /\ committedAt' = [committedAt EXCEPT ![a] = clock]
  /\ since' = [since EXCEPT ![a] = 0]
  /\ Goto(a, "applied")
  /\ UNCHANGED << clock, offset, expires, loopVars >>

(* The unique violation, a refusal, any other error, or a crash: the       *)
(* transaction is rolled back.                                             *)
RollBack(a) ==
  /\ pc[a] = "missed" \/ pc[a] = "stored"
  /\ since' = [since EXCEPT ![a] = 0]
  /\ expires' = [expires EXCEPT ![a] = 0]
  /\ Goto(a, "failed")
  /\ UNCHANGED << clock, offset, row, committedAt, loopVars >>

-------------------------------------------------------------------------------
(* The cleanup.                                                            *)

(* Slip: the DELETE has lost its WHERE.                                    *)
DueAlways == row # NoRow

(* Slip: rows that expire before the next pass are deleted by this one.    *)
DueByNextPass == row # NoRow /\ expires[row] < clock + offset + Interval

(* What the DELETE selects: expires_at < datetime.now(timezone.utc).       *)
Due == row # NoRow /\ expires[row] < clock + offset

Purge == row' = IF Due THEN NoRow ELSE row

(* The lifespan of the application starts the task and, at shutdown, ends  *)
(* it; the process may also just die.  A process that is started without   *)
(* its lifespan has no loop: Start need never happen.                      *)
Start(p) ==
  /\ loop[p] = "down"
  /\ loop' = [loop EXCEPT ![p] = "started"]
  /\ wakeAt' = [wakeAt EXCEPT ![p] = clock]
  /\ UNCHANGED << clock, offset, row, applyVars >>

Stop(p) ==
  /\ loop[p] # "down"
  /\ loop' = [loop EXCEPT ![p] = "down"]
  /\ wakeAt' = [wakeAt EXCEPT ![p] = 0]
  /\ UNCHANGED << clock, offset, row, applyVars >>

Sleep(p) ==
  /\ loop' = [loop EXCEPT ![p] = "asleep"]
  /\ wakeAt' = [wakeAt EXCEPT ![p] = clock + Interval]

(* Slip: the DELETE is not committed.                                      *)
PassUncommitted(p) ==
  /\ p \in Cleaning
  /\ wakeAt[p] <= clock
  /\ Sleep(p)
  /\ UNCHANGED << clock, offset, row, applyVars >>

Pass(p) ==
  /\ p \in Cleaning
  /\ wakeAt[p] <= clock
  /\ Purge
  /\ Sleep(p)
  /\ UNCHANGED << clock, offset, applyVars >>

(* The database cannot be reached, or refuses.  The handler of the error   *)
(* raises itself, because the logger of the standard library takes no      *)
(* keyword error: the task ends and nobody restarts it.  (The message of a *)
(* pass that has deleted something has the same mistake, but is below the  *)
(* level of that logger.)                                                  *)
PassFails(p) ==
  /\ p \in Cleaning
  /\ wakeAt[p] <= clock
  /\ loop' = [loop EXCEPT ![p] = "dead"]
  /\ wakeAt' = [wakeAt EXCEPT ![p] = 0]
  /\ UNCHANGED << clock, offset, row, applyVars >>

(* run_cleanup_once, whenever somebody calls it.                           *)
CleanUpOnce ==
  /\ Purge
  /\ UNCHANGED << clock, offset, applyVars, loopVars >>

-------------------------------------------------------------------------------
Tick ==
  /\ clock < MaxClock
  /\ \A a \in Running : clock < since[a] + Longest
  /\ \A p \in Cleaning : clock < wakeAt[p] + Late
  /\ clock' = clock + 1
  /\ UNCHANGED << offset, row, applyVars, loopVars >>

Request(a) == Replay(a) \/ Miss(a) \/ Store(a) \/ Commit(a) \/ RollBack(a)

Cleanup(p) == Start(p) \/ Stop(p) \/ Pass(p) \/ PassFails(p)

Next ==
  \/ \E a \in Applies : Request(a)
  \/ \E p \in Replicas : Cleanup(p)
  \/ CleanUpOnce
  \/ Tick

Spec == Init /\ [][Next]_vars

-------------------------------------------------------------------------------
(***************************************************************************)
(* Properties                                                              *)
(***************************************************************************)

TypeOK ==
  /\ clock \in Nat
  /\ offset \in Offsets
  /\ row \in Applies \cup {NoRow}
  /\ pc \in [Applies -> {"idle", "replayed", "missed", "stored", "applied", "failed"}]
  /\ since \in [Applies -> Nat]
  /\ expires \in [Applies -> Nat]
  /\ committedAt \in [Applies -> Nat]
  /\ loop \in [Replicas -> {"down", "started", "asleep", "dead"}]
  /\ wakeAt \in [Replicas -> Nat]

Applied == {a \in Applies : pc[a] = "applied"}

(* config.py:89, "How long to retain idempotency keys": a look-up after a  *)
(* committed apply misses only if the TTL has passed, less the time that   *)
(* apply has taken since it took its own, and less the distance of the     *)
(* session's time zone from UTC if it lies east of it: the cleanup then    *)
(* deletes rows that early, and the retry is not answered from the table.  *)
RetryIsReplayed ==
  \A a \in Running, b \in Applied :
    committedAt[b] < since[a] =>
      since[a] + (IF offset > 0 THEN offset ELSE 0) >= committedAt[b] + Ttl - Longest

(* A key is not used for two committed applies unless its row was deleted  *)
(* in between, so they are the TTL and the distance of the time zone apart *)
(* (less the time the first one took), whether or not they overlap and     *)
(* whoever cleans up.  West of UTC this is longer than the TTL.            *)
SpacedApplications ==
  \A a, b \in Applied :
    a # b => \/ committedAt[a] + offset > committedAt[b] + Ttl - Longest
             \/ committedAt[b] + offset > committedAt[a] + Ttl - Longest

(* An expired row blocks its key (an apply reaches Unleash and then fails  *)
(* at the commit) only until the next pass: while a loop sleeps that has   *)
(* made a pass, no row is there for more than Interval + Late ticks after  *)
(* it became due (or was committed, if that was later), even if every      *)
(* other loop is dead.                                                     *)
StaleRowIsShort ==
  \A p \in Replicas, b \in Applied :
    loop[p] = "asleep" /\ row = b =>
      \/ clock + offset <= expires[b] + Interval + Late
      \/ clock <= committedAt[b] + Interval + Late

(* What Governance takes for granted about a row holds of the timed one,   *)
(* unless the session lies east of UTC.                                    *)
Row == INSTANCE KeyRow WITH
  key <- IF row = NoRow THEN "none" ELSE IF Live THEN "live" ELSE "expired",
  early <- offset > 0

ImplementsKeyRow == Row!Spec
===============================================================================
