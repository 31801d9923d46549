--------------------------- MODULE SigningKeysProofs ---------------------------
(***************************************************************************)
(* Theorems of SigningKeys, for any number of threads, kids and ticks: how *)
(* long a withdrawn key is accepted, and why a valid one is refused.       *)
(***************************************************************************)
EXTENDS SigningKeys, TLAPS

(* No call is older than Longest.                                          *)
AgeInv == \A t \in Active : clock <= now[t] + Longest

(* What a thread has been answered was published after it began.           *)
GotInv ==
  \A t \in Threads : pc[t] = "keys" =>
    \A k \in got[t] \ published : now[t] <= withdrawnAt[k]

(* A key in the cache that is no longer published was withdrawn at most    *)
(* Longest before the time the cache says it was asked for, or is about to *)
(* say.                                                                    *)
CacheInv ==
  \A k \in keys \ published :
    /\ fetchedAt <= withdrawnAt[k] + Longest
    /\ \A t \in Threads : pc[t] = "time" => now[t] <= withdrawnAt[k] + Longest

(* A thread that trusts the cache, because it was young enough or because  *)
(* the thread itself has filled it, began at most Longest + Ttl after any  *)
(* key in it was withdrawn: also if others have filled it since.           *)
Trusts(t) ==
  \/ pc[t] = "check" /\ ~stale[t]
  \/ pc[t] = "get" /\ ~failed[t]

TrustInv ==
  \A t \in Threads : Trusts(t) =>
    \A k \in keys \ published : now[t] <= withdrawnAt[k] + Longest + Ttl

(* A key published ever since the call began is there when the call looks  *)
(* for it the second time.                                                 *)
SeenInv ==
  \A t \in Threads :
    /\ pc[t] \in {"time", "get"}
    /\ ~failed[t]
    /\ kid[t] \in steady[t]
    /\ t \notin late
    => kid[t] \in keys

CacheSafe == TypeOK /\ AgeInv /\ GotInv /\ CacheInv /\ TrustInv /\ SeenInv

-------------------------------------------------------------------------------
(* Types.                                                                  *)

LEMMA InitType == Init => TypeOK
<1> SUFFICES ASSUME Init PROVE TypeOK
  OBVIOUS
<1>1. clock \in Nat /\ 0 \in 0..clock
  BY SigningKeysAssumption DEF Init
<1>2. QED
  BY <1>1 DEF Init, TypeOK, Active

LEMMA Types == TypeOK /\ [Next]_vars => TypeOK'
<1> SUFFICES ASSUME TypeOK, [Next]_vars
             PROVE  TypeOK'
  OBVIOUS
<1> USE DEF Goto, issuer, cache, locals, history
<1>0. clock \in Nat /\ clock \in 0..clock /\ 0 \in 0..clock
  BY DEF TypeOK
<1>1. ASSUME NEW k \in Issued, Publish(k) \/ Withdraw(k) PROVE TypeOK'
  <2>1. k \in Kids
    BY SigningKeysAssumption
  <2>2. withdrawnAt' \in [Kids -> 0..clock] /\ published' \subseteq Issued
    BY <1>0, <1>1, <2>1 DEF Publish, Withdraw, TypeOK
  <2>3. steady' \in [Threads -> SUBSET Kids]
    BY <1>1 DEF Publish, Withdraw, TypeOK
  <2>4. QED
    BY <1>1, <2>2, <2>3 DEF Publish, Withdraw, TypeOK, Active
<1>2. CASE Tick
  <2>1. clock' \in Nat /\ 0..clock \subseteq 0..clock'
    BY <1>0, <1>2 DEF Tick
  <2>2. withdrawnAt' \in [Kids -> 0..clock'] /\ now' \in [Threads -> 0..clock']
    BY <1>2, <2>1 DEF Tick, TypeOK
  <2>3. QED
    BY <1>2, <2>1, <2>2 DEF Tick, TypeOK, Active
<1>3. ASSUME NEW t \in Threads, NEW k \in Kids, Begin(t, k) PROVE TypeOK'
  <2>1. published \subseteq Kids
    BY SigningKeysAssumption DEF TypeOK
  <2>2. now' \in [Threads -> 0..clock] /\ steady' \in [Threads -> SUBSET Kids]
    BY <1>0, <1>3, <2>1 DEF Begin, TypeOK
  <2>3. QED
    BY <1>3, <2>2 DEF Begin, TypeOK, Active
<1>4. ASSUME NEW t \in Threads, CheckAge(t) PROVE TypeOK'
  <2>1. (now[t] > fetchedAt + Ttl) \in BOOLEAN
    OBVIOUS
  <2>2. stale' \in [Threads -> BOOLEAN]
    BY <1>4, <2>1 DEF CheckAge, TypeOK
  <2>3. QED
    BY <1>4, <2>2 DEF CheckAge, TypeOK, Active
<1>5. ASSUME NEW t \in Threads, Check(t) \/ FetchFails(t) PROVE TypeOK'
  BY <1>5 DEF Check, FetchFails, TypeOK, Active
<1>6. ASSUME NEW t \in Threads, Fetch(t) PROVE TypeOK'
  BY <1>6, SigningKeysAssumption DEF Fetch, TypeOK, Active
<1>7. ASSUME NEW t \in Threads, StoreKeys(t) PROVE TypeOK'
  BY <1>7 DEF StoreKeys, TypeOK, Active
<1>8. ASSUME NEW t \in Threads, StoreTime(t) PROVE TypeOK'
  BY <1>8 DEF StoreTime, TypeOK, Active
<1>9. ASSUME NEW t \in Threads, Get(t) PROVE TypeOK'
  BY <1>0, <1>9 DEF Get, TypeOK, Active
<1>10. CASE UNCHANGED vars
  BY <1>10 DEF vars, TypeOK, Active
<1>11. QED
  BY <1>1, <1>2, <1>3, <1>4, <1>5, <1>6, <1>7, <1>8, <1>9, <1>10 DEF Next, Proceed

(* The variables as numbers.                                               *)
LEMMA Numbers ==
  ASSUME TypeOK
  PROVE  /\ clock \in Nat /\ Longest \in Nat /\ Ttl \in Nat
         /\ fetchedAt \in Nat /\ fetchedAt <= clock
         /\ \A t \in Threads : now[t] \in Nat /\ now[t] <= clock
         /\ \A k \in Kids : withdrawnAt[k] \in Nat
         /\ keys \subseteq Kids /\ published \subseteq Kids
         /\ \A t \in Threads : got[t] \subseteq Kids
  BY SigningKeysAssumption DEF TypeOK

-------------------------------------------------------------------------------
(* The steps of the issuer and of the clock.                               *)

LEMMA PublishStep ==
  ASSUME CacheSafe, NEW k \in Issued, Publish(k)
  PROVE  CacheSafe'
<1> USE DEF CacheSafe, cache, locals, history
<1>1. TypeOK'
  BY Types DEF Next
<1>2. published' = published \cup {k}
  BY DEF Publish
<1>3. \A i \in Kids \ {k} : withdrawnAt'[i] = withdrawnAt[i]
  BY DEF Publish, TypeOK
<1>4. AgeInv' /\ SeenInv'
  BY DEF Publish, AgeInv, SeenInv, Active
<1>5. GotInv'
  BY <1>2, <1>3, Numbers DEF Publish, GotInv
<1>6. CacheInv' /\ TrustInv'
  BY <1>2, <1>3, Numbers DEF Publish, CacheInv, TrustInv, Trusts
<1>7. QED
  BY <1>1, <1>4, <1>5, <1>6

LEMMA WithdrawStep ==
  ASSUME CacheSafe, NEW k \in Issued, Withdraw(k)
  PROVE  CacheSafe'
<1> USE DEF CacheSafe, cache, locals, history
<1>1. TypeOK'
  BY Types DEF Next
<1>2. published' = published \ {k} /\ k \in Kids
  BY SigningKeysAssumption DEF Withdraw
<1>3. /\ withdrawnAt'[k] = clock
      /\ \A i \in Kids \ {k} : withdrawnAt'[i] = withdrawnAt[i]
  BY <1>2 DEF Withdraw, TypeOK
<1>4. AgeInv'
  BY DEF Withdraw, AgeInv, Active
<1>5. SeenInv'
  BY DEF Withdraw, SeenInv
<1>6. GotInv'
  BY <1>2, <1>3, Numbers DEF Withdraw, GotInv
<1>7. CacheInv'
  BY <1>2, <1>3, Numbers DEF Withdraw, CacheInv
<1>8. TrustInv'
  BY <1>2, <1>3, Numbers DEF Withdraw, TrustInv, Trusts
<1>9. QED
  BY <1>1, <1>4, <1>5, <1>6, <1>7, <1>8

LEMMA TickStep ==
  ASSUME CacheSafe, Tick
  PROVE  CacheSafe'
<1> USE DEF CacheSafe, issuer, cache, locals, history
<1>1. TypeOK'
  BY Types DEF Next
<1>2. AgeInv'
  BY Numbers DEF Tick, AgeInv, Active
<1>3. GotInv' /\ CacheInv' /\ TrustInv' /\ SeenInv'
  BY DEF Tick, GotInv, CacheInv, TrustInv, Trusts, SeenInv
<1>4. QED
  BY <1>1, <1>2, <1>3

-------------------------------------------------------------------------------
(* The steps of a call.                                                    *)

LEMMA BeginStep ==
  ASSUME CacheSafe, NEW t \in Threads, NEW k \in Kids, Begin(t, k)
  PROVE  CacheSafe'
<1> USE DEF CacheSafe, Goto, issuer, cache
<1>1. TypeOK'
  BY Types DEF Next
<1>2. /\ pc'[t] = "age" /\ now'[t] = clock
      /\ \A q \in Threads \ {t} : /\ pc'[q] = pc[q] /\ now'[q] = now[q]
                                  /\ kid'[q] = kid[q] /\ steady'[q] = steady[q]
  BY DEF Begin, TypeOK
<1>3. AgeInv'
  BY <1>2, Numbers DEF Begin, AgeInv, Active
<1>4. GotInv' /\ CacheInv'
  BY <1>2 DEF Begin, GotInv, CacheInv
<1>5. TrustInv' /\ SeenInv'
  BY <1>2 DEF Begin, TrustInv, Trusts, SeenInv
<1>6. QED
  BY <1>1, <1>3, <1>4, <1>5

LEMMA CheckAgeStep ==
  ASSUME CacheSafe, NEW t \in Threads, CheckAge(t)
  PROVE  CacheSafe'
<1> USE DEF CacheSafe, Goto, issuer, cache, history
<1>1. TypeOK'
  BY Types DEF Next, Proceed
<1>2. /\ pc[t] = "age" /\ pc'[t] = "check"
      /\ stale'[t] <=> now[t] > fetchedAt + Ttl
      /\ \A q \in Threads \ {t} : pc'[q] = pc[q] /\ stale'[q] = stale[q]
  BY Zenon DEF CheckAge, TypeOK
<1>3. AgeInv'
  BY <1>2 DEF CheckAge, AgeInv, Active
<1>4. GotInv' /\ CacheInv' /\ SeenInv'
  BY <1>2 DEF CheckAge, GotInv, CacheInv, SeenInv
<1>5. TrustInv'
  BY <1>2, Numbers DEF CheckAge, CacheInv, TrustInv, Trusts
<1>6. QED
  BY <1>1, <1>3, <1>4, <1>5

LEMMA CheckStep ==
  ASSUME CacheSafe, NEW t \in Threads, Check(t)
  PROVE  CacheSafe'
<1> USE DEF CacheSafe, Goto, issuer, cache, locals, history
<1>1. TypeOK'
  BY Types DEF Next, Proceed
<1>2. /\ pc[t] = "check" /\ pc'[t] \in {"fetch", "get"}
      /\ pc'[t] = "get" => ~stale[t] /\ kid[t] \in keys
      /\ \A q \in Threads \ {t} : pc'[q] = pc[q]
  BY DEF Check, TypeOK
<1>3. AgeInv'
  BY <1>2 DEF Check, AgeInv, Active
<1>4. GotInv' /\ CacheInv'
  BY <1>2 DEF Check, GotInv, CacheInv
<1>5. TrustInv'
  BY <1>2 DEF Check, TrustInv, Trusts
<1>6. SeenInv'
  BY <1>2 DEF Check, SeenInv
<1>7. QED
  BY <1>1, <1>3, <1>4, <1>5, <1>6

LEMMA FetchStep ==
  ASSUME CacheSafe, NEW t \in Threads, Fetch(t)
  PROVE  CacheSafe'
<1> USE DEF CacheSafe, Goto, issuer, cache, history
<1>1. TypeOK'
  BY Types DEF Next, Proceed
<1>2. /\ pc[t] = "fetch" /\ pc'[t] = "keys" /\ got'[t] = published
      /\ \A q \in Threads \ {t} : pc'[q] = pc[q] /\ got'[q] = got[q]
  BY DEF Fetch, TypeOK
<1>3. AgeInv'
  BY <1>2 DEF Fetch, AgeInv, Active
<1>4. GotInv' /\ CacheInv'
  BY <1>2 DEF Fetch, GotInv, CacheInv
<1>5. TrustInv' /\ SeenInv'
  BY <1>2 DEF Fetch, TrustInv, Trusts, SeenInv
<1>6. QED
  BY <1>1, <1>3, <1>4, <1>5

LEMMA FetchFailsStep ==
  ASSUME CacheSafe, NEW t \in Threads, FetchFails(t)
  PROVE  CacheSafe'
<1> USE DEF CacheSafe, Goto, issuer, cache, history
<1>1. TypeOK'
  BY Types DEF Next, Proceed
<1>2. /\ pc[t] \in {"fetch", "keys"} /\ pc'[t] = "get" /\ failed'[t]
      /\ \A q \in Threads \ {t} : pc'[q] = pc[q] /\ failed'[q] = failed[q]
  BY DEF FetchFails, TypeOK
<1>3. AgeInv'
  BY <1>2 DEF FetchFails, AgeInv, Active
<1>4. GotInv' /\ CacheInv'
  BY <1>2 DEF FetchFails, GotInv, CacheInv
<1>5. TrustInv' /\ SeenInv'
  BY <1>2 DEF FetchFails, TrustInv, Trusts, SeenInv
<1>6. QED
  BY <1>1, <1>3, <1>4, <1>5

(* The cache has been filled now, and no call is older than Longest: what  *)
(* thread t has been answered is recent enough for every call that runs.   *)
LEMMA StoreKeysStep ==
  ASSUME CacheSafe, NEW t \in Threads, StoreKeys(t)
  PROVE  CacheSafe'
<1> USE DEF CacheSafe, Goto, issuer, locals
<1>1. TypeOK'
  BY Types DEF Next, Proceed
<1>2. /\ pc[t] = "keys" /\ pc'[t] = "time" /\ keys' = got[t]
      /\ \A q \in Threads \ {t} : pc'[q] = pc[q]
  BY DEF StoreKeys, TypeOK
<1>3. AgeInv'
  BY <1>2 DEF StoreKeys, AgeInv, Active
<1>4. GotInv'
  BY <1>2 DEF StoreKeys, GotInv
<1>5. \A k \in keys' \ published : clock <= withdrawnAt[k] + Longest
  BY <1>2, Numbers DEF GotInv, AgeInv, Active
<1>6. CacheInv' /\ TrustInv'
  BY <1>5, Numbers DEF StoreKeys, CacheInv, TrustInv
<1>7. SeenInv'
  <2> SUFFICES ASSUME NEW q \in Threads, pc'[q] \in {"time", "get"},
                      kid[q] \in steady[q], q \notin late'
               PROVE  kid[q] \in got[t]
    BY <1>2 DEF StoreKeys, SeenInv
  <2>1. q \in Active
    BY <1>2 DEF Active
  <2>2. QED
    BY <2>1 DEF StoreKeys
<1>8. QED
  BY <1>1, <1>3, <1>4, <1>6, <1>7

LEMMA StoreTimeStep ==
  ASSUME CacheSafe, NEW t \in Threads, StoreTime(t)
  PROVE  CacheSafe'
<1> USE DEF CacheSafe, Goto, issuer, locals, history
<1>1. TypeOK'
  BY Types DEF Next, Proceed
<1>2. /\ pc[t] = "time" /\ pc'[t] = "get" /\ fetchedAt' = now[t]
      /\ \A q \in Threads \ {t} : pc'[q] = pc[q]
  BY DEF StoreTime, TypeOK
<1>3. AgeInv'
  BY <1>2 DEF StoreTime, AgeInv, Active
<1>4. GotInv' /\ CacheInv' /\ SeenInv'
  BY <1>2 DEF StoreTime, GotInv, CacheInv, SeenInv
<1>5. TrustInv'
  BY <1>2, Numbers DEF StoreTime, CacheInv, TrustInv, Trusts
<1>6. QED
  BY <1>1, <1>3, <1>4, <1>5

LEMMA GetStep ==
  ASSUME CacheSafe, NEW t \in Threads, Get(t)
  PROVE  CacheSafe'
<1> USE DEF CacheSafe, Goto, issuer, cache
<1>1. TypeOK'
  BY Types DEF Next, Proceed
<1>2. /\ pc'[t] = "idle"
      /\ \A q \in Threads \ {t} :
           /\ pc'[q] = pc[q] /\ now'[q] = now[q] /\ kid'[q] = kid[q]
           /\ stale'[q] = stale[q] /\ got'[q] = got[q] /\ failed'[q] = failed[q]
           /\ steady'[q] = steady[q]
           /\ q \notin late' => q \notin late
  BY DEF Get, TypeOK
<1>3. AgeInv'
  BY <1>2 DEF Get, AgeInv, Active
<1>4. GotInv' /\ CacheInv'
  BY <1>2 DEF Get, GotInv, CacheInv
<1>5. TrustInv'
  BY <1>2 DEF Get, TrustInv, Trusts
<1>6. SeenInv'
  BY <1>2 DEF Get, SeenInv
<1>7. QED
  BY <1>1, <1>3, <1>4, <1>5, <1>6

LEMMA InitSafe == Init => CacheSafe
<1> SUFFICES ASSUME Init PROVE CacheSafe
  OBVIOUS
<1>1. TypeOK
  BY InitType
<1>2. \A t \in Threads : pc[t] = "idle"
  BY DEF Init
<1>3. keys = {}
  BY DEF Init
<1>4. QED
  BY <1>1, <1>2, <1>3
     DEF CacheSafe, AgeInv, Active, GotInv, CacheInv, TrustInv, Trusts, SeenInv

LEMMA StepSafe == CacheSafe /\ [Next]_vars => CacheSafe'
<1> SUFFICES ASSUME CacheSafe, [Next]_vars
             PROVE  CacheSafe'
  OBVIOUS
<1>1. ASSUME NEW k \in Issued, Publish(k) \/ Withdraw(k) PROVE CacheSafe'
  BY <1>1, PublishStep, WithdrawStep
<1>2. CASE Tick
  BY <1>2, TickStep
<1>3. ASSUME NEW t \in Threads, NEW k \in Kids, Begin(t, k) PROVE CacheSafe'
  BY <1>3, BeginStep
<1>4. ASSUME NEW t \in Threads, Proceed(t) PROVE CacheSafe'
  BY <1>4, CheckAgeStep, CheckStep, FetchStep, FetchFailsStep, StoreKeysStep,
     StoreTimeStep, GetStep DEF Proceed
<1>5. CASE UNCHANGED vars
  <2>1. TypeOK'
    BY Types DEF CacheSafe
  <2>2. QED
    BY <1>5, <2>1 DEF vars, issuer, cache, locals, history, CacheSafe, AgeInv,
       Active, GotInv, CacheInv, TrustInv, Trusts, SeenInv
<1>6. QED
  BY <1>1, <1>2, <1>3, <1>4, <1>5 DEF Next

-------------------------------------------------------------------------------
(* The theorems.                                                           *)

(* In every run of the calls that share _jwks_cache, whatever is withdrawn *)
(* meanwhile: the types, and how old the keys in the cache can be, given   *)
(* the time it is said to be of.                                           *)
THEOREM Cached == Spec => []CacheSafe
<1>1. Init => CacheSafe
  BY InitSafe
<1>2. CacheSafe /\ [Next]_vars => CacheSafe'
  BY StepSafe
<1>3. QED
  BY <1>1, <1>2, PTL DEF Spec

(* Only Get ends a call.                                                   *)
LEMMA ReturnIsGet ==
  ASSUME TypeOK, [Next]_vars, NEW t \in Threads, Returns(t)
  PROVE  Get(t)
<1> USE DEF Returns, Active, Goto, TypeOK, cache, locals, history
<1>1. ASSUME NEW q \in Threads, NEW k \in Kids, Begin(q, k) PROVE FALSE
  BY <1>1 DEF Begin
<1>2. ASSUME NEW q \in Threads, Proceed(q), ~Get(q) PROVE FALSE
  BY <1>2 DEF Proceed, CheckAge, Check, Fetch, FetchFails, StoreKeys, StoreTime
<1>3. ASSUME NEW q \in Threads, Get(q) PROVE q = t
  BY <1>3 DEF Get
<1>4. ASSUME NEW k \in Issued, Publish(k) \/ Withdraw(k) PROVE FALSE
  BY <1>4 DEF Publish, Withdraw
<1>5. ~Tick /\ ~UNCHANGED vars
  BY DEF Tick, vars
<1>6. QED
  BY <1>1, <1>2, <1>3, <1>4, <1>5 DEF Next

(* A withdrawn key stops being accepted within Ttl + 2 * Longest of its    *)
(* withdrawal, unless a call cannot reach the issuer.                      *)
THEOREM WithdrawnKeysAreRefused == Spec => WithdrawnIsRefused
<1> DEFINE P == \A t \in Threads :
                  Returns(t) /\ answer'[t] = "key" =>
                    \/ kid[t] \in published
                    \/ clock <= withdrawnAt[kid[t]] + Ttl + 2 * Longest
                    \/ failed[t]
<1>1. CacheSafe /\ [Next]_vars => [P]_vars
  <2> SUFFICES ASSUME CacheSafe, [Next]_vars, NEW t \in Threads, Returns(t),
                      answer'[t] = "key", kid[t] \notin published, ~failed[t]
               PROVE  clock <= withdrawnAt[kid[t]] + Ttl + 2 * Longest
    OBVIOUS
  <2>1. TypeOK /\ Get(t)
    BY ReturnIsGet DEF CacheSafe
  <2>2. kid[t] \in keys /\ pc[t] = "get"
    BY <2>1 DEF Get, TypeOK
  <2>3. now[t] <= withdrawnAt[kid[t]] + Longest + Ttl
    BY <2>2 DEF CacheSafe, TrustInv, Trusts
  <2>4. clock <= now[t] + Longest
    BY <2>2 DEF CacheSafe, AgeInv, Active
  <2>5. withdrawnAt[kid[t]] \in Nat /\ now[t] \in Nat
    BY <2>1, <2>2, Numbers
  <2>6. QED
    BY <2>1, <2>3, <2>4, <2>5, Numbers
<1>2. QED
  BY <1>1, Cached, PTL DEF Spec, WithdrawnIsRefused

(* A call refuses a key that was published ever since the call began only  *)
(* when it could not reach the issuer, or when another one has overwritten *)
(* the cache meanwhile with an older answer.                               *)
THEOREM RotationsAreSeen == Spec => RotationIsSeen
<1> DEFINE P == \A t \in Threads :
                  Returns(t) /\ answer'[t] = "unknown" /\ kid[t] \in steady[t] =>
                    failed[t] \/ t \in late
<1>1. CacheSafe /\ [Next]_vars => [P]_vars
  <2> SUFFICES ASSUME CacheSafe, [Next]_vars, NEW t \in Threads, Returns(t),
                      answer'[t] = "unknown", kid[t] \in steady[t], ~failed[t]
               PROVE  t \in late
    OBVIOUS
  <2>1. TypeOK /\ Get(t)
    BY ReturnIsGet DEF CacheSafe
  <2>2. kid[t] \notin keys /\ pc[t] = "get"
    BY <2>1 DEF Get, TypeOK
  <2>3. QED
    BY <2>2 DEF CacheSafe, SeenInv
<1>2. QED
  BY <1>1, Cached, PTL DEF Spec, RotationIsSeen
===============================================================================
