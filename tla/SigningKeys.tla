------------------------------ MODULE SigningKeys ------------------------------
(***************************************************************************)
(* The cache of signing keys (app/auth.py, _get_signing_key), which the    *)
(* threads that decode tokens share without a lock: a dictionary whose two *)
(* entries, the keys and the time they were asked for, are read and        *)
(* written one at a time, with an HTTP request in between.                 *)
(*                                                                         *)
(* A key is its kid: an issuer does not use one kid for two keys.  Time    *)
(* passes in ticks, and a call is over within Longest ticks of its         *)
(* beginning (the request has a timeout).                                  *)
(***************************************************************************)
EXTENDS Naturals

CONSTANTS Threads,   \* threads that decode tokens
          Kids,      \* key ids that tokens carry
          Issued,    \* those the issuer can publish
          NoKid,     \* no call is running
          Ttl,       \* settings.jwt_jwks_cache_seconds
          Longest,   \* how long one call of _get_signing_key can take
          MaxClock   \* bound: the last tick

ASSUME SigningKeysAssumption ==
  /\ Issued \subseteq Kids
  /\ NoKid \notin Kids
  /\ Ttl \in Nat
  /\ Longest \in Nat
  /\ MaxClock \in Nat

VARIABLES
  clock,        \* time.time()
  published,    \* the kids in the issuer's key set
  withdrawnAt,  \* history: when a kid was taken out of it
  keys,         \* _jwks_cache["keys"]
  fetchedAt,    \* _jwks_cache["fetched_at"]
  pc,           \* where the call of each thread is
  kid,          \* the kid it looks for
  now,          \* its local now
  stale,        \* its local stale
  got,          \* the answer to its request
  failed,       \* its request has failed
  answer,       \* what the last call of each thread has returned
  steady,       \* history: the kids published ever since it began
  late          \* history: threads whose kid another one has dropped: see
                \* StoreKeys

issuer == << published, withdrawnAt >>
cache == << keys, fetchedAt >>
locals == << kid, now, stale, got, failed >>
history == << steady, late >>
vars == << clock, issuer, cache, pc, locals, answer, history >>

Active == {t \in Threads : pc[t] # "idle"}

(* The process has just started, long after the epoch.                     *)
Init ==
  /\ clock = Ttl + 1
  /\ published \in SUBSET Issued
  /\ withdrawnAt = [k \in Kids |-> 0]
  /\ keys = {}
  /\ fetchedAt = 0
  /\ pc = [t \in Threads |-> "idle"]
  /\ kid = [t \in Threads |-> NoKid]
  /\ now = [t \in Threads |-> 0]
  /\ stale = [t \in Threads |-> FALSE]
  /\ got = [t \in Threads |-> {}]
  /\ failed = [t \in Threads |-> FALSE]
  /\ answer = [t \in Threads |-> "none"]
  /\ steady = [t \in Threads |-> {}]
  /\ late = {}

Goto(t, label) == pc' = [pc EXCEPT ![t] = label]

-------------------------------------------------------------------------------
(* The issuer rotates its keys, and time passes.                           *)

Publish(k) ==
  /\ k \notin published
  /\ published' = published \cup {k}
  /\ withdrawnAt' = [withdrawnAt EXCEPT ![k] = 0]
  /\ UNCHANGED << clock, cache, pc, locals, answer, history >>

Withdraw(k) ==
  /\ k \in published
  /\ published' = published \ {k}
  /\ withdrawnAt' = [withdrawnAt EXCEPT ![k] = clock]
  /\ steady' = [t \in Threads |-> steady[t] \ {k}]
  /\ UNCHANGED << clock, cache, pc, locals, answer, late >>

Tick ==
  /\ clock < MaxClock
  /\ \A t \in Active : clock < now[t] + Longest
  /\ clock' = clock + 1
  /\ UNCHANGED << issuer, cache, pc, locals, answer, history >>

-------------------------------------------------------------------------------
(* _get_signing_key, statement by statement.                               *)

Begin(t, k) ==
  /\ pc[t] = "idle"
  /\ kid' = [kid EXCEPT ![t] = k]
  /\ now' = [now EXCEPT ![t] = clock]
  /\ steady' = [steady EXCEPT ![t] = published]
  /\ Goto(t, "age")
  /\ UNCHANGED << clock, issuer, cache, stale, got, failed, answer, late >>

CheckAge(t) ==
  /\ pc[t] = "age"
  /\ stale' = [stale EXCEPT ![t] = now[t] > fetchedAt + Ttl]
  /\ Goto(t, "check")
  /\ UNCHANGED << clock, issuer, cache, kid, now, got, failed, answer, history >>

(* Slip: a kid that is not in the cache is no reason to fetch.             *)
CheckStaleOnly(t) ==
  /\ pc[t] = "check"
  /\ Goto(t, IF stale[t] THEN "fetch" ELSE "get")
  /\ UNCHANGED << clock, issuer, cache, locals, answer, history >>

Check(t) ==
  /\ pc[t] = "check"
  /\ Goto(t, IF stale[t] \/ kid[t] \notin keys THEN "fetch" ELSE "get")
  /\ UNCHANGED << clock, issuer, cache, locals, answer, history >>

(* The issuer answers the request of _fetch_jwks; whoever waits for the    *)
(* answer gets it later.                                                   *)
Fetch(t) ==
  /\ pc[t] = "fetch"
  /\ got' = [got EXCEPT ![t] = published]
  /\ Goto(t, "keys")
  /\ UNCHANGED << clock, issuer, cache, kid, now, stale, failed, answer, history >>

(* Slip: fetched_at is set whether or not the request has succeeded.       *)
FetchFailsTouching(t) ==
  /\ pc[t] \in {"fetch", "keys"}
  /\ failed' = [failed EXCEPT ![t] = TRUE]
  /\ fetchedAt' = now[t]
  /\ Goto(t, "get")
  /\ UNCHANGED << clock, issuer, keys, kid, now, stale, got, answer, history >>

(* No answer, an answer that is lost, or one that is not a key set.        *)
FetchFails(t) ==
  /\ pc[t] \in {"fetch", "keys"}
  /\ failed' = [failed EXCEPT ![t] = TRUE]
  /\ Goto(t, "get")
  /\ UNCHANGED << clock, issuer, cache, kid, now, stale, got, answer, history >>

(* The threads that lose a kid published ever since they began, because    *)
(* this thread has asked before it was published, are remembered in late.  *)
StoreKeys(t) ==
  /\ pc[t] = "keys"
  /\ keys' = got[t]
  /\ late' = late \cup {q \in Active : kid[q] \in steady[q] \ got[t]}
  /\ Goto(t, "time")
  /\ UNCHANGED << clock, issuer, fetchedAt, locals, answer, steady >>

(* The time stored is when the call began, not when the answer came.       *)
StoreTime(t) ==
  /\ pc[t] = "time"
  /\ fetchedAt' = now[t]
  /\ Goto(t, "get")
  /\ UNCHANGED << clock, issuer, keys, locals, answer, history >>

(* The call returns and its locals are gone.                               *)
Get(t) ==
  /\ pc[t] = "get"
  /\ answer' = [answer EXCEPT ![t] = IF kid[t] \in keys THEN "key" ELSE "unknown"]
  /\ kid' = [kid EXCEPT ![t] = NoKid]
  /\ now' = [now EXCEPT ![t] = 0]
  /\ stale' = [stale EXCEPT ![t] = FALSE]
  /\ got' = [got EXCEPT ![t] = {}]
  /\ failed' = [failed EXCEPT ![t] = FALSE]
  /\ steady' = [steady EXCEPT ![t] = {}]
  /\ late' = late \ {t}
  /\ Goto(t, "idle")
  /\ UNCHANGED << clock, issuer, cache >>

Proceed(t) ==
  \/ CheckAge(t)
  \/ Check(t)
  \/ Fetch(t)
  \/ FetchFails(t)
  \/ StoreKeys(t)
  \/ StoreTime(t)
  \/ Get(t)

Next ==
  \/ \E t \in Threads : (\E k \in Kids : Begin(t, k)) \/ Proceed(t)
  \/ \E k \in Issued : Publish(k) \/ Withdraw(k)
  \/ Tick

Spec == Init /\ [][Next]_vars

-------------------------------------------------------------------------------
(***************************************************************************)
(* Properties                                                              *)
(***************************************************************************)

(* Variables are typed; what a thread knows is never ahead of the clock.   *)
TypeOK ==
  /\ clock \in Nat
  /\ published \subseteq Issued
  /\ withdrawnAt \in [Kids -> 0..clock]
  /\ keys \subseteq Kids
  /\ fetchedAt \in 0..clock
  /\ pc \in [Threads -> {"idle", "age", "check", "fetch", "keys", "time", "get"}]
  /\ kid \in [Threads -> Kids \cup {NoKid}]
  /\ \A t \in Active : kid[t] \in Kids
  /\ now \in [Threads -> 0..clock]
  /\ stale \in [Threads -> BOOLEAN]
  /\ got \in [Threads -> SUBSET Kids]
  /\ failed \in [Threads -> BOOLEAN]
  /\ answer \in [Threads -> {"none", "key", "unknown"}]
  /\ steady \in [Threads -> SUBSET Kids]
  /\ late \subseteq Threads

Returns(t) == t \in Active /\ pc'[t] = "idle"

(* A key the issuer has withdrawn stops being accepted: unless its own     *)
(* request to the issuer has failed, a call returns a key only if it was   *)
(* published within the last Ttl + 2 * Longest ticks.  Twice, because the  *)
(* keys of one thread can end up under the time of another one.            *)
WithdrawnIsRefused ==
  [][\A t \in Threads :
       Returns(t) /\ answer'[t] = "key" =>
         \/ kid[t] \in published
         \/ clock <= withdrawnAt[kid[t]] + Ttl + 2 * Longest
         \/ failed[t]]_vars

(* README.md:14: rotation needs no restart.  A key that has been published *)
(* since before the call began is found, but for two reasons: the request  *)
(* of this call has failed, or another thread has, during this call,       *)
(* stored an answer from before the key was published.                     *)
RotationIsSeen ==
  [][\A t \in Threads :
       Returns(t) /\ answer'[t] = "unknown" /\ kid[t] \in steady[t] =>
         failed[t] \/ t \in late]_vars
===============================================================================
