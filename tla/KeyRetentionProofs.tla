-------------------------- MODULE KeyRetentionProofs --------------------------
(***************************************************************************)
(* Theorems of KeyRetention, for any number of applies, processes and      *)
(* ticks, any time zone, and any TTL.                                      *)
(***************************************************************************)
EXTENDS KeyRetention, TLAPS

(* An apply in its handler began at most Longest ticks ago, and the row it *)
(* stores expires no earlier than the TTL after that.                      *)
RunningInv ==
  \A a \in Running :
    /\ since[a] <= clock
    /\ clock <= since[a] + Longest
    /\ pc[a] = "stored" => since[a] + Ttl <= expires[a]

(* A committed row expires no earlier than Ttl - Longest after its commit, *)
(* and it is in the table unless it has become due.                        *)
RowInv ==
  /\ row # NoRow => row \in Applied
  /\ \A a \in Applied :
       /\ committedAt[a] <= clock
       /\ committedAt[a] + Ttl <= expires[a] + Longest
       /\ row = a \/ expires[a] < clock + offset

(* A loop is never later than Late, and a row it has left in the table was *)
(* not due, or not there, when it made its last pass.                      *)
LoopInv ==
  /\ \A p \in Cleaning : clock <= wakeAt[p] + Late
  /\ \A p \in Replicas : loop[p] = "asleep" =>
       /\ wakeAt[p] <= clock + Interval
       /\ \A b \in Applied : row = b =>
            \/ wakeAt[p] + offset <= expires[b] + Interval
            \/ wakeAt[p] <= committedAt[b] + Interval

KeyInv == TypeOK /\ RunningInv /\ RowInv /\ LoopInv /\ RetryIsReplayed /\ SpacedApplications

LEMMA InitInv ==
  ASSUME Init
  PROVE  KeyInv
BY KeyRetentionAssumption
DEF Init, KeyInv, TypeOK, RunningInv, RowInv, LoopInv, RetryIsReplayed, SpacedApplications,
    Running, Applied, Cleaning

-------------------------------------------------------------------------------
(* One lemma per step; what a step does not touch keeps its part.          *)

LEMMA ReplayInv ==
  ASSUME KeyInv, NEW a \in Applies, Replay(a)
  PROVE  KeyInv'
<1> USE DEF KeyInv, Replay, Goto, loopVars
<1>1. TypeOK'
  BY DEF TypeOK
<1>2. Running' = Running /\ Applied' = Applied /\ Cleaning' = Cleaning
  BY DEF Running, Applied, Cleaning, TypeOK
<1>3. \A b \in Running : pc'[b] = pc[b]
  BY DEF Running, TypeOK
<1>4. QED
  BY <1>1, <1>2, <1>3 DEF RunningInv, RowInv, LoopInv, RetryIsReplayed, SpacedApplications

LEMMA MissInv ==
  ASSUME KeyInv, NEW a \in Applies, Miss(a)
  PROVE  KeyInv'
<1> USE KeyRetentionAssumption DEF KeyInv, Miss, Goto, loopVars
<1>1. TypeOK'
  BY DEF TypeOK
<1>2. /\ Running' = Running \cup {a} /\ a \notin Running
      /\ Applied' = Applied /\ Cleaning' = Cleaning
  BY DEF Running, Applied, Cleaning, TypeOK
<1>3. /\ since'[a] = clock
      /\ \A b \in Running : since'[b] = since[b] /\ pc'[b] = pc[b]
      /\ pc'[a] = "missed"
  BY <1>2 DEF Running, TypeOK
<1>4. RunningInv'
  BY <1>2, <1>3 DEF RunningInv, TypeOK
<1>5. RowInv' /\ LoopInv' /\ SpacedApplications'
  BY <1>2 DEF RowInv, LoopInv, SpacedApplications
<1>6. RetryIsReplayed'
  <2>1. SUFFICES ASSUME NEW b \in Applied
                 PROVE  clock + (IF offset > 0 THEN offset ELSE 0) >= committedAt[b] + Ttl - Longest
    BY <1>2, <1>3 DEF RetryIsReplayed
  <2>2. b \in Applies /\ clock \in Nat /\ offset \in Int /\ expires[b] \in Nat /\ committedAt[b] \in Nat
    BY DEF Applied, TypeOK
  <2>3. committedAt[b] + Ttl <= expires[b] + Longest
    BY DEF RowInv
  <2>4. expires[b] <= clock \/ expires[b] < clock + offset
    BY <2>2 DEF RowInv, Live, TypeOK
  <2>5. QED
    BY <2>2, <2>3, <2>4
<1>7. QED
  BY <1>1, <1>4, <1>5, <1>6

LEMMA StoreInv ==
  ASSUME KeyInv, NEW a \in Applies, Store(a)
  PROVE  KeyInv'
<1> USE KeyRetentionAssumption DEF KeyInv, Store, Goto, loopVars
<1>1. TypeOK'
  BY DEF TypeOK
<1>2. Running' = Running /\ a \in Running /\ Applied' = Applied /\ a \notin Applied /\ Cleaning' = Cleaning
  BY DEF Running, Applied, Cleaning, TypeOK
<1>3. /\ expires'[a] = clock + Ttl
      /\ \A b \in Applies \ {a} : expires'[b] = expires[b] /\ pc'[b] = pc[b]
  BY DEF TypeOK
<1>4. \A b \in Applied : expires'[b] = expires[b]
  BY <1>2, <1>3 DEF Applied
<1>5. RunningInv'
  <2>1. since[a] \in Nat /\ clock \in Nat /\ since[a] <= clock
    BY <1>2 DEF TypeOK, RunningInv
  <2>2. QED
    BY <1>2, <1>3, <2>1 DEF RunningInv, Running
<1>6. RowInv' /\ LoopInv' /\ RetryIsReplayed' /\ SpacedApplications'
  BY <1>2, <1>4 DEF RowInv, LoopInv, RetryIsReplayed, SpacedApplications
<1>7. QED
  BY <1>1, <1>5, <1>6

LEMMA CommitInv ==
  ASSUME KeyInv, NEW a \in Applies, Commit(a)
  PROVE  KeyInv'
<1> USE KeyRetentionAssumption DEF KeyInv, Commit, Goto, loopVars, KeyTaken
<1>1. TypeOK'
  BY DEF TypeOK
<1>2. /\ a \in Running /\ Running' = Running \ {a}
      /\ a \notin Applied /\ Applied' = Applied \cup {a}
      /\ Cleaning' = Cleaning
  BY DEF Running, Applied, Cleaning, TypeOK
<1>3. /\ committedAt'[a] = clock
      /\ \A b \in Applied : committedAt'[b] = committedAt[b]
      /\ \A b \in Running' : since'[b] = since[b] /\ pc'[b] = pc[b]
  BY <1>2 DEF Applied, Running, TypeOK
<1>4. \A b \in Applied : /\ expires[b] \in Nat /\ committedAt[b] \in Nat
                         /\ committedAt[b] <= clock
                         /\ committedAt[b] + Ttl <= expires[b] + Longest
                         /\ expires[b] < clock + offset
  BY DEF RowInv, Applied, TypeOK
<1>5. clock \in Nat /\ offset \in Int /\ since[a] \in Nat /\ expires[a] \in Nat
  BY DEF TypeOK
<1>6. clock <= since[a] + Longest /\ since[a] + Ttl <= expires[a]
  BY <1>2 DEF RunningInv
<1>7. RunningInv'
  BY <1>2, <1>3 DEF RunningInv
<1>8. RowInv'
  BY <1>2, <1>3, <1>4, <1>5, <1>6 DEF RowInv
<1>9. LoopInv'
  BY <1>2, <1>3 DEF LoopInv
<1>10. RetryIsReplayed'
  <2>1. \A b \in Running' : since'[b] <= clock /\ since'[b] \in Nat
    BY <1>2, <1>3 DEF RunningInv, Running, TypeOK
  <2>2. QED
    BY <1>2, <1>3, <1>5, <2>1 DEF RetryIsReplayed
<1>11. SpacedApplications'
  BY <1>2, <1>3, <1>4, <1>5 DEF SpacedApplications
<1>12. QED
  BY <1>1, <1>7, <1>8, <1>9, <1>10, <1>11

LEMMA RollBackInv ==
  ASSUME KeyInv, NEW a \in Applies, RollBack(a)
  PROVE  KeyInv'
<1> USE DEF KeyInv, RollBack, Goto, loopVars
<1>1. TypeOK'
  BY DEF TypeOK
<1>2. /\ a \in Running /\ Running' = Running \ {a}
      /\ Applied' = Applied /\ a \notin Applied /\ Cleaning' = Cleaning
  BY DEF Running, Applied, Cleaning, TypeOK
<1>3. \A b \in Applies \ {a} : pc'[b] = pc[b] /\ since'[b] = since[b] /\ expires'[b] = expires[b]
  BY DEF TypeOK
<1>4. (\A b \in Running' : b \in Applies \ {a}) /\ (\A b \in Applied : b \in Applies \ {a})
  BY <1>2 DEF Running, Applied
<1>5. RunningInv'
  BY <1>2, <1>3, <1>4 DEF RunningInv
<1>6. RowInv' /\ LoopInv' /\ RetryIsReplayed' /\ SpacedApplications'
  BY <1>2, <1>3, <1>4 DEF RowInv, LoopInv, RetryIsReplayed, SpacedApplications
<1>7. QED
  BY <1>1, <1>5, <1>6

-------------------------------------------------------------------------------
(* The cleanup and the clock.                                              *)

LEMMA PurgeKeepsRows ==
  ASSUME TypeOK, RowInv, Purge, UNCHANGED << clock, offset, applyVars >>
  PROVE  RowInv' /\ row' \in {row, NoRow} /\ (row' # NoRow => expires[row] >= clock + offset)
<1>1. Applied' = Applied
  BY DEF applyVars, Applied
<1>2. row # NoRow => row \in Applied /\ expires[row] \in Nat /\ clock \in Nat /\ offset \in Int
  BY KeyRetentionAssumption DEF RowInv, Applied, TypeOK
<1>3. row' \in {row, NoRow} /\ (row' # NoRow => expires[row] >= clock + offset)
  BY <1>2 DEF Purge, Due
<1>4. \A a \in Applied : row' = a \/ expires[a] < clock + offset
  BY <1>2 DEF RowInv, Purge, Due
<1>5. QED
  BY <1>1, <1>3, <1>4 DEF RowInv, applyVars

(* A step of the cleanup leaves the applies alone.                         *)
LEMMA ApplyFrame ==
  ASSUME KeyInv, UNCHANGED << clock, offset, applyVars >>
  PROVE  /\ Running' = Running /\ Applied' = Applied
         /\ RunningInv' /\ RetryIsReplayed' /\ SpacedApplications'
BY DEF KeyInv, applyVars, Running, Applied, RunningInv, RetryIsReplayed, SpacedApplications

LEMMA StartInv ==
  ASSUME KeyInv, NEW p \in Replicas, Start(p)
  PROVE  KeyInv'
<1> USE KeyRetentionAssumption DEF KeyInv, Start
<1>1. TypeOK'
  BY DEF TypeOK, applyVars
<1>2. RowInv'
  BY ApplyFrame DEF RowInv, applyVars
<1>3. LoopInv'
  <2>1. /\ wakeAt'[p] = clock /\ loop'[p] = "started" /\ clock \in Nat
        /\ \A q \in Replicas \ {p} : wakeAt'[q] = wakeAt[q] /\ loop'[q] = loop[q]
    BY DEF TypeOK
  <2>2. Cleaning' = Cleaning \cup {p} /\ p \notin Cleaning
    BY <2>1 DEF Cleaning
  <2>3. QED
    BY <2>1, <2>2, ApplyFrame DEF LoopInv, Cleaning, applyVars
<1>4. QED
  BY <1>1, <1>2, <1>3, ApplyFrame

(* Neither a loop that is stopped nor one that has died counts any more.   *)
LEMMA EndOfLoopInv ==
  ASSUME KeyInv, NEW p \in Replicas, Stop(p) \/ PassFails(p)
  PROVE  KeyInv'
<1> USE DEF KeyInv
<1>1. /\ \E end \in {"down", "dead"} : loop' = [loop EXCEPT ![p] = end]
      /\ wakeAt' = [wakeAt EXCEPT ![p] = 0]
      /\ UNCHANGED << clock, offset, row, applyVars >>
  BY DEF Stop, PassFails
<1>2. TypeOK'
  BY <1>1 DEF TypeOK, applyVars
<1>3. RowInv'
  BY <1>1, ApplyFrame DEF RowInv, applyVars
<1>4. LoopInv'
  <2>1. /\ loop'[p] \in {"down", "dead"}
        /\ \A q \in Replicas \ {p} : wakeAt'[q] = wakeAt[q] /\ loop'[q] = loop[q]
    BY <1>1 DEF TypeOK
  <2>2. Cleaning' = Cleaning \ {p}
    BY <2>1 DEF Cleaning
  <2>3. QED
    BY <1>1, <2>1, <2>2, ApplyFrame DEF LoopInv, Cleaning, applyVars
<1>5. QED
  BY <1>1, <1>2, <1>3, <1>4, ApplyFrame

LEMMA PassInv ==
  ASSUME KeyInv, NEW p \in Replicas, Pass(p)
  PROVE  KeyInv'
<1> USE KeyRetentionAssumption DEF KeyInv, Pass, Sleep
<1>1. TypeOK'
  BY PurgeKeepsRows DEF TypeOK, applyVars
<1>2. RowInv'
  BY PurgeKeepsRows
<1>3. LoopInv'
  <2>1. /\ wakeAt'[p] = clock + Interval /\ loop'[p] = "asleep"
        /\ clock \in Nat /\ offset \in Int
        /\ \A q \in Replicas \ {p} : wakeAt'[q] = wakeAt[q] /\ loop'[q] = loop[q]
    BY DEF TypeOK
  <2>2. Cleaning' = Cleaning
    BY <2>1 DEF Cleaning
  <2>3. \A b \in Applied : row' = b => row = b /\ expires[b] >= clock + offset
    <3>1. NoRow \notin Applied
      BY DEF Applied
    <3>2. QED
      BY <3>1, PurgeKeepsRows
  <2>4. \A b \in Applied : expires[b] \in Nat
    BY DEF Applied, TypeOK
  <2>5. clock' = clock /\ offset' = offset /\ expires' = expires /\ committedAt' = committedAt /\ Applied' = Applied
    BY ApplyFrame DEF applyVars
  <2>6. \A q \in Cleaning' : clock' <= wakeAt'[q] + Late
    BY <2>1, <2>2, <2>5 DEF LoopInv, Cleaning
  <2>7. ASSUME NEW q \in Replicas, loop'[q] = "asleep"
        PROVE  /\ wakeAt'[q] <= clock + Interval
               /\ \A b \in Applied : row' = b =>
                    \/ wakeAt'[q] + offset <= expires[b] + Interval
                    \/ wakeAt'[q] <= committedAt[b] + Interval
    <3>1. CASE q = p
      BY <2>1, <2>3, <2>4, <3>1
    <3>2. CASE q # p
      BY <2>1, <2>3, <2>7, <3>2 DEF LoopInv
    <3>3. QED
      BY <3>1, <3>2
  <2>8. QED
    BY <2>5, <2>6, <2>7 DEF LoopInv
<1>4. QED
  BY <1>1, <1>2, <1>3, ApplyFrame

LEMMA CleanUpOnceInv ==
  ASSUME KeyInv, CleanUpOnce
  PROVE  KeyInv'
<1> USE DEF KeyInv, CleanUpOnce, loopVars
<1>1. TypeOK'
  BY PurgeKeepsRows DEF TypeOK, applyVars
<1>2. RowInv'
  BY PurgeKeepsRows
<1>3. LoopInv'
  <2>1. \A b \in Applied : row' = b => row = b
    BY KeyRetentionAssumption, PurgeKeepsRows DEF Applied
  <2>2. QED
    BY <2>1, ApplyFrame DEF LoopInv, Cleaning, applyVars
<1>4. QED
  BY <1>1, <1>2, <1>3, ApplyFrame

LEMMA TickInv ==
  ASSUME KeyInv, Tick
  PROVE  KeyInv'
<1> USE KeyRetentionAssumption DEF KeyInv, Tick
<1>1. TypeOK'
  BY DEF TypeOK, applyVars, loopVars
<1>2. Running' = Running /\ Applied' = Applied /\ Cleaning' = Cleaning
  BY DEF Running, Applied, Cleaning, applyVars, loopVars
<1>3. clock \in Nat /\ offset \in Int
  BY DEF TypeOK
<1>4. RunningInv'
  <2>1. \A a \in Running : since[a] \in Nat
    BY DEF Running, TypeOK
  <2>2. QED
    BY <1>2, <1>3, <2>1 DEF RunningInv, applyVars
<1>5. RowInv'
  <2>1. \A a \in Applied : committedAt[a] \in Nat /\ expires[a] \in Nat
    BY DEF Applied, TypeOK
  <2>2. QED
    BY <1>2, <1>3, <2>1 DEF RowInv, applyVars
<1>6. LoopInv'
  <2>1. \A p \in Replicas : wakeAt[p] \in Nat
    BY DEF TypeOK
  <2>2. QED
    BY <1>2, <1>3, <2>1 DEF LoopInv, Cleaning, applyVars, loopVars
<1>7. RetryIsReplayed' /\ SpacedApplications'
  BY <1>2 DEF RetryIsReplayed, SpacedApplications, applyVars
<1>8. QED
  BY <1>1, <1>4, <1>5, <1>6, <1>7

-------------------------------------------------------------------------------
(* The times of a row, of the transactions and of the loops agree, in      *)
(* every reachable state.                                                  *)
THEOREM Retention == Spec => []KeyInv
<1>1. KeyInv /\ [Next]_vars => KeyInv'
  <2> SUFFICES ASSUME KeyInv, [Next]_vars
               PROVE  KeyInv'
    OBVIOUS
  <2>1. ASSUME NEW a \in Applies, Request(a) PROVE KeyInv'
    BY <2>1, ReplayInv, MissInv, StoreInv, CommitInv, RollBackInv DEF Request
  <2>2. ASSUME NEW p \in Replicas, Cleanup(p) PROVE KeyInv'
    BY <2>2, StartInv, EndOfLoopInv, PassInv DEF Cleanup
  <2>3. CASE UNCHANGED vars
    BY <2>3 DEF vars, applyVars, loopVars, KeyInv, TypeOK, RunningInv, RowInv, LoopInv,
                RetryIsReplayed, SpacedApplications, Running, Applied, Cleaning
  <2>4. QED
    BY <2>1, <2>2, <2>3, CleanUpOnceInv, TickInv DEF Next
<1>2. QED
  BY <1>1, InitInv, PTL DEF Spec

(* A retry misses only if the TTL has passed, less what an apply can take  *)
(* and less the distance of the time zone if it lies east of UTC.          *)
THEOREM RetriesAreReplayed == Spec => []RetryIsReplayed
<1>1. KeyInv => RetryIsReplayed
  BY DEF KeyInv
<1>2. QED
  BY <1>1, Retention, PTL

(* Two committed applies of one key are the TTL and the distance of the    *)
(* time zone apart, less what an apply can take.                           *)
THEOREM ApplicationsAreSpaced == Spec => []SpacedApplications
<1>1. KeyInv => SpacedApplications
  BY DEF KeyInv
<1>2. QED
  BY <1>1, Retention, PTL

(* While one loop sleeps after a pass, an expired row does not block its   *)
(* key for longer than Interval + Late.                                    *)
THEOREM StaleRowsAreShort == Spec => []StaleRowIsShort
<1>1. KeyInv => StaleRowIsShort
  <2> SUFFICES ASSUME KeyInv, NEW p \in Replicas, NEW b \in Applied, loop[p] = "asleep", row = b
               PROVE  \/ clock + offset <= expires[b] + Interval + Late
                      \/ clock <= committedAt[b] + Interval + Late
    BY DEF StaleRowIsShort
  <2>1. clock <= wakeAt[p] + Late
    BY DEF KeyInv, LoopInv, Cleaning
  <2>2. \/ wakeAt[p] + offset <= expires[b] + Interval
        \/ wakeAt[p] <= committedAt[b] + Interval
    BY DEF KeyInv, LoopInv
  <2>3. /\ clock \in Nat /\ offset \in Int /\ wakeAt[p] \in Nat
        /\ expires[b] \in Nat /\ committedAt[b] \in Nat
    BY KeyRetentionAssumption DEF KeyInv, TypeOK, Applied
  <2>4. QED
    BY <2>1, <2>2, <2>3, KeyRetentionAssumption
<1>2. QED
  BY <1>1, Retention, PTL

-------------------------------------------------------------------------------
(* The refinement.                                                         *)

rowKey == IF row = NoRow THEN "none" ELSE IF Live THEN "live" ELSE "expired"

LEMMA SameRow ==
  ASSUME UNCHANGED << offset, row >>,
         row # NoRow => expires'[row] = expires[row] /\ clock' = clock
  PROVE  UNCHANGED << rowKey, offset > 0 >>
BY DEF rowKey, Live

(* The row Governance takes for granted: it is deleted only after it has   *)
(* expired, unless the session lies east of UTC.                           *)
THEOREM RowIsKeyRow == Spec => ImplementsKeyRow
<1>1. Init => Row!Init
  BY DEF Init, Row!Init
<1>2. KeyInv /\ [Next]_vars => [Row!Next]_<< rowKey, offset > 0 >>
  <2> SUFFICES ASSUME KeyInv, [Next]_vars
               PROVE  Row!Next \/ UNCHANGED << rowKey, offset > 0 >>
    OBVIOUS
  <2>0. /\ clock \in Nat /\ offset \in Int
        /\ row # NoRow => row \in Applied /\ expires[row] \in Nat
    BY KeyRetentionAssumption DEF KeyInv, TypeOK, RowInv, Applied
  <2>1. ASSUME NEW a \in Applies, Request(a)
        PROVE  Row!Next \/ UNCHANGED << rowKey, offset > 0 >>
    <3>1. CASE Replay(a) \/ Miss(a)
      BY <3>1, SameRow DEF Replay, Miss
    <3>2. CASE Store(a) \/ RollBack(a)
      <4>1. a # row
        BY <2>0, <3>2, KeyRetentionAssumption DEF Store, RollBack, Applied
      <4>2. row # NoRow => expires'[row] = expires[row]
        BY <2>0, <3>2, <4>1 DEF Store, RollBack, Applied, KeyInv, TypeOK
      <4>3. QED
        BY <3>2, <4>2, SameRow DEF Store, RollBack
    <3>3. CASE Commit(a)
      <4>1. rowKey = "none" /\ rowKey' \in {"live", "expired"} /\ offset' = offset
        BY <3>3, KeyRetentionAssumption DEF Commit, KeyTaken, rowKey, Live
      <4>2. QED
        BY <4>1 DEF Row!Next, Row!Insert, rowKey
    <3>4. QED
      BY <2>1, <3>1, <3>2, <3>3 DEF Request
  <2>2. ASSUME Purge, UNCHANGED << clock, offset, expires >>
        PROVE  Row!Next \/ UNCHANGED << rowKey, offset > 0 >>
    <3>1. CASE row' = row
      BY <2>2, <3>1, SameRow
    <3>2. CASE row' # row
      <4>1. Due /\ row' = NoRow
        BY <2>2, <3>2 DEF Purge
      <4>2. rowKey' = "none" /\ offset' = offset
        BY <2>2, <4>1 DEF rowKey
      <4>3. rowKey = "expired" \/ (offset > 0 /\ rowKey = "live")
        BY <2>0, <4>1 DEF rowKey, Due, Live
      <4>4. QED
        BY <4>2, <4>3 DEF Row!Next, Row!Delete, rowKey
    <3>3. QED
      BY <3>1, <3>2
  <2>3. ASSUME NEW p \in Replicas, Cleanup(p)
        PROVE  Row!Next \/ UNCHANGED << rowKey, offset > 0 >>
    <3>1. CASE Pass(p)
      BY <2>2, <3>1 DEF Pass, applyVars
    <3>2. CASE Start(p) \/ Stop(p) \/ PassFails(p)
      BY <3>2, SameRow DEF Start, Stop, PassFails, applyVars
    <3>3. QED
      BY <2>3, <3>1, <3>2 DEF Cleanup
  <2>4. CASE CleanUpOnce
    BY <2>2, <2>4 DEF CleanUpOnce, applyVars
  <2>5. CASE Tick
    <3>1. row' = row /\ offset' = offset /\ expires' = expires /\ clock' = clock + 1
      BY <2>5 DEF Tick, applyVars
    <3>2. rowKey' = rowKey \/ (rowKey = "live" /\ rowKey' = "expired")
      BY <2>0, <3>1 DEF rowKey, Live
    <3>3. QED
      BY <3>1, <3>2 DEF Row!Next, Row!Expire, rowKey
  <2>6. CASE UNCHANGED vars
    BY <2>6, SameRow DEF vars, applyVars
  <2>7. QED
    BY <2>1, <2>3, <2>4, <2>5, <2>6 DEF Next
<1>3. QED
  BY <1>1, <1>2, Retention, PTL DEF Spec, ImplementsKeyRow, Row!Spec, rowKey
===============================================================================
