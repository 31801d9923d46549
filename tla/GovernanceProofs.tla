--------------------------- MODULE GovernanceProofs ---------------------------
(***************************************************************************)
(* Theorems about Governance for every set of requests, change requests,   *)
(* users and keys, every bound on concurrency and every kind of failure:   *)
(* 1 types, 2 the inductive invariant and the safety properties, 3 the     *)
(* hash chain, 4 one worker at a time, 5 row locks and the rows of keys.   *)
(***************************************************************************)
EXTENDS GovernanceInvariant, AuditChainProofs, FiniteSetTheorems

-------------------------------------------------------------------------------
(* 1  Types                                                                *)

(* What the shared building blocks of the actions do to the types.         *)

LEMMA UnlockedType ==
  ASSUME TypeOK, NEW r \in Requests
  PROVE  Unlocked(r) \in [CRs -> Requests \cup {None}]
BY DEF TypeOK, Unlocked

LEMMA LeaveType ==
  ASSUME TypeOK, NEW r \in Requests, NEW code \in Codes, NEW body \in Body,
         Leave(r, code, body)
  PROVE  /\ pc' \in [Requests -> Labels]
         /\ answer' \in [Requests -> [code : Codes, body : Body]]
         /\ rowLock' \in [CRs -> Requests \cup {None}]
BY UnlockedType DEF TypeOK, Leave, Labels

LEMMA RowHashType ==
  ASSUME NEW S, NEW h \in Seq(S), NEW c \in S
  PROVE  RowHash(h, c) \in Seq(S)
BY DEF RowHash

LEMMA GenesisType ==
  ASSUME NEW S
  PROVE  Genesis \in Seq(S)
BY DEF Genesis

LEMMA NoBodyType == NoBody \in Body
BY DEF NoBody, Body

(* Leaving a handler that has begun and touching nothing committed.        *)
LEMMA RollbackType ==
  ASSUME TypeInv, NEW r \in Requests, NEW code \in Codes, pc[r] # "idle",
         Rollback(r, code)
  PROVE  TypeInv'
<1>1. /\ pc' \in [Requests -> Labels]
      /\ answer' \in [Requests -> [code : Codes, body : Body]]
      /\ rowLock' \in [CRs -> Requests \cup {None}]
  BY LeaveType, NoBodyType DEF Rollback, TypeInv
<1>2. \A q \in Requests : pc'[q] = pc[q] \/ (q = r /\ pc'[q] = "done")
  BY DEF Rollback, Leave, TypeInv, TypeOK
<1>3. TypeOK'
  BY <1>1, <1>2 DEF TypeInv, TypeOK, Rollback
<1>4. TailIsHash'
  BY <1>2 DEF TypeInv, TailIsHash, Rollback
<1>5. QED
  BY <1>3, <1>4 DEF TypeInv

(* A step that moves one running handler to a label and at most changes    *)
(* locals of that request and the locks, all of them well typed.           *)
LEMMA LocalStepType ==
  ASSUME TypeInv, NEW r \in Requests, NEW label \in Labels, pc[r] # "idle",
         Goto(r, label),
         label \in {"insert", "update", "commit", "raise"} /\ ChainEnabled
           => tail'[r] \in Seq(Content),
         tail' \in [Requests -> Hashes], \A q \in Requests : q # r => tail'[q] = tail[q],
         rowId' \in [Requests -> Nat], nextId' \in Nat,
         rowLock' \in [CRs -> Requests \cup {None}],
         unleash' \in [Requests -> {"none", "ok", "error"}],
         effects' \subseteq Requests,
         UNCHANGED << crs, audit, keys, call, answer >>
  PROVE  TypeInv'
<1>1. pc' \in [Requests -> Labels] /\ pc'[r] = label
  BY DEF Goto, TypeInv, TypeOK
<1>2. \A q \in Requests : q # r => pc'[q] = pc[q]
  BY DEF Goto, TypeInv, TypeOK
<1>3. TypeOK'
  BY <1>1, <1>2 DEF TypeInv, TypeOK
<1>4. TailIsHash'
  BY <1>1, <1>2 DEF TypeInv, TailIsHash
<1>5. QED
  BY <1>3, <1>4 DEF TypeInv

(* A handler begins: it gets its call and either goes on or leaves.        *)
LEMMA BeginType ==
  ASSUME TypeInv, NEW r \in Requests, NEW u \in Users, NEW c \in CRs,
         NEW k \in Keys \cup {NoKey}, NEW op \in {"create", "approve", "apply"},
         Receive(r, op, u, c, k),
         \/ \E label \in {"tail", "load"} :
              Goto(r, label) /\ UNCHANGED << answer, rowLock >>
         \/ \E code \in Codes, body \in Body : Leave(r, code, body),
         UNCHANGED << crs, audit, keys, nextId, tail, rowId, unleash, effects >>
  PROVE  TypeInv'
<1>1. call' \in [Requests -> Call \cup {None}] /\ call'[r] \in Call
  BY DEF Receive, TypeInv, TypeOK, Call
<1>2. \A q \in Requests : q # r => call'[q] = call[q]
  BY DEF Receive, TypeInv, TypeOK
<1>3. /\ pc' \in [Requests -> Labels]
      /\ pc'[r] \in {"tail", "load", "done"}
      /\ \A q \in Requests : q # r => pc'[q] = pc[q]
      /\ answer' \in [Requests -> [code : Codes, body : Body]]
      /\ rowLock' \in [CRs -> Requests \cup {None}]
  <2>1. CASE \E label \in {"tail", "load"} :
               Goto(r, label) /\ UNCHANGED << answer, rowLock >>
    BY <2>1 DEF Goto, TypeInv, TypeOK, Labels
  <2>2. CASE \E code \in Codes, body \in Body : Leave(r, code, body)
    <3>1. PICK code \in Codes, body \in Body : Leave(r, code, body)
      BY <2>2
    <3>2. /\ pc' \in [Requests -> Labels]
          /\ answer' \in [Requests -> [code : Codes, body : Body]]
          /\ rowLock' \in [CRs -> Requests \cup {None}]
      BY <3>1, LeaveType DEF TypeInv
    <3>3. pc' = [pc EXCEPT ![r] = "done"]
      BY <3>1 DEF Leave
    <3>4. QED
      BY <3>2, <3>3 DEF TypeInv, TypeOK
  <2>3. QED
    BY <2>1, <2>2
<1>4. TypeOK'
  BY <1>1, <1>2, <1>3 DEF TypeInv, TypeOK
<1>5. TailIsHash'
  BY <1>3 DEF TypeInv, TailIsHash
<1>6. QED
  BY <1>4, <1>5 DEF TypeInv

(* What COMMIT installs is well typed.                                     *)
LEMMA InstallType ==
  ASSUME TypeInv, NEW r \in Requests, pc[r] = "commit", Install(r),
         NEW code \in Codes, NEW body \in Body, Leave(r, code, body)
  PROVE  TypeInv'
<1>1. call[r] \in Call
  BY DEF TypeInv, TypeOK
<1>2. NewCR(r) \in ChangeRequest
  BY <1>1 DEF NewCR, NewStatus, ChangeRequest, Statuses, TypeInv, TypeOK, Call
<1>3. crs' \in [CRs -> ChangeRequest]
  BY <1>2 DEF Install, TypeInv, TypeOK
<1>4. AuditRow(r) \in AuditRows
  <2> DEFINE action == IF unleash[r] = "error" THEN "apply_failed"
                       ELSE CASE call[r].op = "create"  -> "created"
                              [] call[r].op = "approve" -> "approved"
                              [] call[r].op = "apply"   -> "applied"
             content == [action |-> action, user |-> call[r].user, cr |-> call[r].cr]
             hash == IF ChainEnabled THEN RowHash(tail[r], content) ELSE NoHash
  <2>1. action \in {"created", "approved", "applied", "apply_failed"}
    BY <1>1 DEF Call
  <2>2. content \in Content
    BY <1>1, <2>1 DEF Content, Call
  <2>3. hash \in Hashes
    <3> HIDE DEF content
    <3>1. ChainEnabled => tail[r] \in Seq(Content)
      BY DEF TypeInv, TailIsHash
    <3>2. ChainEnabled => RowHash(tail[r], content) \in Seq(Content)
      BY <2>2, <3>1, RowHashType
    <3>3. QED
      BY <3>2 DEF Hashes
  <2>4. tail[r] \in Hashes /\ rowId[r] \in Nat
    BY DEF TypeInv, TypeOK
  <2>5. AuditRow(r) = [id |-> rowId[r], content |-> content, by |-> r,
                       prev |-> tail[r], hash |-> hash]
    BY DEF AuditRow
  <2> HIDE DEF content, hash
  <2>6. QED
    BY <2>2, <2>3, <2>4, <2>5 DEF AuditRows
<1>5. audit' \subseteq AuditRows
  BY <1>4 DEF Install, TypeInv, TypeOK
<1>6. FreshBody(r) \in Body
  BY <1>1, NoBodyType DEF FreshBody, Body, Call
<1>7. keys' \in [Keys -> KeyRow]
  BY <1>6 DEF Install, TypeInv, TypeOK, KeyRow
<1>8. /\ pc' \in [Requests -> Labels]
      /\ answer' \in [Requests -> [code : Codes, body : Body]]
      /\ rowLock' \in [CRs -> Requests \cup {None}]
  BY LeaveType DEF TypeInv
<1>9. \A q \in Requests : pc'[q] = pc[q] \/ (q = r /\ pc'[q] = "done")
  BY DEF Leave, TypeInv, TypeOK
<1>10. TypeOK'
  BY <1>3, <1>5, <1>7, <1>8, <1>9 DEF TypeInv, TypeOK, Install
<1>11. TailIsHash'
  BY <1>9 DEF TypeInv, TailIsHash, Install
<1>12. QED
  BY <1>10, <1>11 DEF TypeInv

-------------------------------------------------------------------------------
(* The type invariant.                                                     *)

LEMMA InitType == Init => TypeInv
<1> SUFFICES ASSUME Init PROVE TypeInv
  OBVIOUS
<1>1. NoBody \in Body /\ NoAnswer \in [code : Codes, body : Body] /\ NoKeyRow \in KeyRow
  BY NoBodyType DEF NoAnswer, NoKeyRow, KeyRow, Codes
<1>2. audit \subseteq AuditRows
  BY DEF Init, LegacyRow, AuditRows, Content, Hashes
<1>3. TypeOK
  BY <1>1, <1>2, GovernanceAssumption
  DEF Init, TypeOK, ChangeRequest, Statuses, Labels, Hashes
<1>4. TailIsHash
  BY DEF Init, TailIsHash
<1>5. QED
  BY <1>3, <1>4 DEF TypeInv

LEMMA RefusalCode ==
  ASSUME NEW u, NEW c, NEW required
  PROVE  Refusal(u, c, required) \in {0, 400, 403, 404}
BY DEF Refusal

LEMMA NextType == TypeInv /\ [Next]_vars => TypeInv'
<1> SUFFICES ASSUME TypeInv, [Next]_vars PROVE TypeInv'
  OBVIOUS
<1> USE NoBodyType
<1>1. CASE UNCHANGED vars
  BY <1>1 DEF vars, TypeInv, TypeOK, TailIsHash
<1>2. ASSUME NEW r \in Requests, NEW u \in Users, NEW c \in CRs, BeginCreate(r, u, c)
      PROVE  TypeInv'
  BY <1>2, BeginType DEF BeginCreate, Codes
<1>3. ASSUME NEW r \in Requests, NEW u \in Users, NEW c \in CRs, BeginApprove(r, u, c)
      PROVE  TypeInv'
  BY <1>3, BeginType, RefusalCode DEF BeginApprove, Codes
<1>4. ASSUME NEW r \in Requests, NEW u \in Users, NEW c \in CRs,
             NEW k \in Keys \cup {NoKey}, BeginApply(r, u, c, k)
      PROVE  TypeInv'
  <2>1. k # NoKey => keys[k].body \in Body
    BY DEF TypeInv, TypeOK, KeyRow
  <2>2. QED
    BY <1>4, <2>1, BeginType DEF BeginApply, Codes
<1>5. ASSUME NEW r \in Requests, LoadForApply(r) PROVE TypeInv'
  <2>1. CASE Refusal(call[r].user, call[r].cr, "approved") = 0
    <3>1. Goto(r, "unleash") /\ UNCHANGED << answer, rowLock >>
      BY <1>5, <2>1 DEF LoadForApply
    <3>2. QED
      BY <1>5, <3>1, LocalStepType DEF LoadForApply, TypeInv, TypeOK, Labels
  <2>2. CASE Refusal(call[r].user, call[r].cr, "approved") # 0
    <3>1. Rollback(r, Refusal(call[r].user, call[r].cr, "approved"))
      BY <1>5, <2>2 DEF LoadForApply, Rollback
    <3>2. QED
      BY <1>5, <3>1, RollbackType, RefusalCode DEF LoadForApply, Codes
  <2>3. QED
    BY <2>1, <2>2
<1>6. ASSUME NEW r \in Requests, CallUnleash(r) PROVE TypeInv'
  <2>1. /\ unleash' \in [Requests -> {"none", "ok", "error"}]
        /\ effects' \subseteq Requests
    BY <1>6 DEF CallUnleash, TypeInv, TypeOK
  <2>2. /\ pc[r] # "idle" /\ Goto(r, "tail") /\ "tail" \in Labels
        /\ UNCHANGED << crs, audit, keys, nextId, rowLock, call, tail, rowId, answer >>
    BY <1>6 DEF CallUnleash, Labels
  <2>3. QED
    BY <2>1, <2>2, LocalStepType DEF TypeInv, TypeOK
<1>7. ASSUME NEW r \in Requests, ReadTail(r) PROVE TypeInv'
  <2>1. CASE ChainEnabled
    <3>1. PICK h \in {Genesis} \cup {row.hash : row \in VisibleRows} :
            IsLatestHash(VisibleRows, h) /\ tail' = [tail EXCEPT ![r] = h]
      BY <1>7, <2>1 DEF ReadTail
    <3>2. h \in Seq(Content)
      <4>1. h = Genesis \/ \E row \in audit : row.hash # NoHash /\ row.hash = h
        BY <3>1 DEF IsLatestHash, VisibleRows
      <4>2. \A row \in audit : row.hash \in Hashes
        BY DEF TypeInv, TypeOK, AuditRows
      <4>3. CASE h = Genesis
        BY <4>3, GenesisType
      <4>4. CASE \E row \in audit : row.hash # NoHash /\ row.hash = h
        BY <4>4, <4>2 DEF Hashes
      <4>5. QED
        BY <4>1, <4>3, <4>4
    <3>3. QED
      BY <1>7, <3>1, <3>2, LocalStepType DEF ReadTail, TypeInv, TypeOK, Labels, Hashes
  <2>2. CASE ~ChainEnabled
    BY <1>7, <2>2, LocalStepType DEF ReadTail, TypeInv, TypeOK, Labels
  <2>3. QED
    BY <2>1, <2>2
<1>8. ASSUME NEW r \in Requests, InsertAudit(r) PROVE TypeInv'
  <2>1. ChainEnabled => tail[r] \in Seq(Content)
    BY <1>8 DEF InsertAudit, TypeInv, TailIsHash
  <2>2. nextId' \in Nat /\ rowId' \in [Requests -> Nat]
    BY <1>8 DEF InsertAudit, TypeInv, TypeOK
  <2>3. PICK label \in {"raise", "commit", "update"} : Goto(r, label)
    BY <1>8 DEF InsertAudit
  <2>4. /\ label \in Labels /\ pc[r] # "idle"
        /\ UNCHANGED << crs, audit, keys, rowLock, call, tail, unleash, answer, effects >>
    BY <1>8 DEF InsertAudit, Labels
  <2>5. QED
    BY <2>1, <2>2, <2>3, <2>4, LocalStepType DEF TypeInv, TypeOK
<1>9. ASSUME NEW r \in Requests, UpdateCR(r) PROVE TypeInv'
  <2>1. ChainEnabled => tail[r] \in Seq(Content)
    BY <1>9 DEF UpdateCR, TypeInv, TailIsHash
  <2>2. QED
    BY <1>9, <2>1, LocalStepType DEF UpdateCR, TypeInv, TypeOK, Labels
<1>10. ASSUME NEW r \in Requests,
              RaiseBadGateway(r) \/ CommitConflict(r) \/ Abort(r)
       PROVE  TypeInv'
  BY <1>10, RollbackType DEF RaiseBadGateway, CommitConflict, Abort, Running, Codes
<1>11. ASSUME NEW r \in Requests, Commit(r) \/ CommitUnacknowledged(r)
       PROVE  TypeInv'
  <2>1. pc[r] = "commit" /\ Install(r)
    BY <1>11 DEF Commit, CommitUnacknowledged
  <2>2. FreshBody(r) \in Body
    BY <2>1 DEF FreshBody, Body, Call, TypeInv, TypeOK
  <2>3. \E code \in Codes, body \in Body : Leave(r, code, body)
    BY <1>11, <2>2 DEF Commit, CommitUnacknowledged, SuccessCode, Codes
  <2>4. QED
    BY <2>1, <2>3, InstallType
<1>12. ASSUME NEW k \in Keys, Expire(k) PROVE TypeInv'
  BY <1>12 DEF Expire, TypeInv, TypeOK, TailIsHash, KeyRow
<1>13. CASE Cleanup
  BY <1>13 DEF Cleanup, TypeInv, TypeOK, TailIsHash, KeyRow, NoKeyRow
<1>14. QED
  BY <1>1, <1>2, <1>3, <1>4, <1>5, <1>6, <1>7, <1>8, <1>9, <1>10, <1>11, <1>12, <1>13
  DEF Next, Begin, SentKeys, Proceed

(* Every variable keeps its type, in every behaviour of the write path.    *)
THEOREM TypeCorrect == Spec => []TypeOK
<1>1. Spec => []TypeInv
  BY InitType, NextType, PTL DEF Spec
<1>2. TypeInv => TypeOK
  BY DEF TypeInv
<1>3. QED
  BY <1>1, <1>2, PTL

-------------------------------------------------------------------------------
(***************************************************************************)
(* 2  Safety                                                               *)
(*                                                                         *)
(* The safety theorems of Governance.  Every step of Next is a step of one *)
(* request, which leaves all other requests alone, or a step of the        *)
(* environment, which touches the idempotency rows only.                   *)
(***************************************************************************)

Same(q) ==
  /\ pc'[q] = pc[q]
  /\ call'[q] = call[q]
  /\ tail'[q] = tail[q]
  /\ rowId'[q] = rowId[q]
  /\ unleash'[q] = unleash[q]
  /\ answer'[q] = answer[q]
  /\ q \in effects' <=> q \in effects

StepOf(r) == Begin(r) \/ Proceed(r) \/ Abort(r)

EnvironmentStep == UNCHANGED vars \/ (\E k \in Keys : Expire(k)) \/ Cleanup

(* The commits: the only steps that change crs or audit.                   *)
Commits(r) == Commit(r) \/ CommitUnacknowledged(r)

LEMMA StepCases ==
  ASSUME [Next]_vars
  PROVE  EnvironmentStep \/ \E r \in Requests : StepOf(r)
BY DEF Next, EnvironmentStep, StepOf

LEMMA EnvironmentFrame ==
  ASSUME TypeInv, EnvironmentStep
  PROVE  /\ \A q \in Requests : Same(q)
         /\ UNCHANGED << crs, audit, nextId, rowLock, call, tail, rowId, unleash, effects, pc, answer >>
BY DEF EnvironmentStep, Expire, Cleanup, vars, Same

LEMMA OthersFrame ==
  ASSUME TypeInv, NEW r \in Requests, StepOf(r)
  PROVE  \A q \in Requests : q # r => Same(q)
<1> USE DEF TypeInv, TypeOK, Same, Goto, Leave, Rollback
<1>1. CASE \E u \in Users, c \in CRs : BeginCreate(r, u, c)
  BY <1>1 DEF BeginCreate, Receive
<1>2. CASE \E u \in Users, c \in CRs : BeginApprove(r, u, c)
  BY <1>2 DEF BeginApprove, Receive
<1>3. CASE \E u \in Users, c \in CRs, k \in Keys \cup {NoKey} : BeginApply(r, u, c, k)
  BY <1>3 DEF BeginApply, Receive
<1>4. CASE LoadForApply(r)
  BY <1>4 DEF LoadForApply
<1>5. CASE CallUnleash(r)
  BY <1>5 DEF CallUnleash
<1>6. CASE ReadTail(r)
  BY <1>6 DEF ReadTail
<1>7. CASE InsertAudit(r)
  BY <1>7 DEF InsertAudit
<1>8. CASE UpdateCR(r)
  BY <1>8 DEF UpdateCR
<1>9. CASE RaiseBadGateway(r) \/ CommitConflict(r) \/ Abort(r)
  BY <1>9 DEF RaiseBadGateway, CommitConflict, Abort
<1>10. CASE Commits(r)
  BY <1>10 DEF Commits, Commit, CommitUnacknowledged, Install
<1>11. QED
  BY <1>1, <1>2, <1>3, <1>4, <1>5, <1>6, <1>7, <1>8, <1>9, <1>10
  DEF StepOf, Begin, SentKeys, Proceed, Commits

(* What a step does to its own request: a call is fixed once it is         *)
(* received, nothing of a finished request changes, and a step that is no  *)
(* commit leaves the change requests and the audit log alone.              *)
LEMMA OwnFrame ==
  ASSUME TypeInv, NEW r \in Requests, StepOf(r)
  PROVE  /\ pc[r] # "done" /\ pc'[r] # "idle"
         /\ pc[r] # "idle" => call'[r] = call[r]
         /\ nextId <= nextId'
         /\ ~Commits(r) => UNCHANGED << crs, audit, keys >>
<1> USE DEF TypeInv, TypeOK, Goto, Leave, Rollback
<1>1. CASE \E u \in Users, c \in CRs : BeginCreate(r, u, c)
  BY <1>1 DEF BeginCreate, Receive
<1>2. CASE \E u \in Users, c \in CRs : BeginApprove(r, u, c)
  BY <1>2 DEF BeginApprove, Receive
<1>3. CASE \E u \in Users, c \in CRs, k \in Keys \cup {NoKey} : BeginApply(r, u, c, k)
  BY <1>3 DEF BeginApply, Receive
<1>4. CASE LoadForApply(r)
  BY <1>4 DEF LoadForApply
<1>5. CASE CallUnleash(r)
  BY <1>5 DEF CallUnleash
<1>6. CASE ReadTail(r)
  BY <1>6 DEF ReadTail
<1>7. CASE InsertAudit(r)
  BY <1>7 DEF InsertAudit
<1>8. CASE UpdateCR(r)
  BY <1>8 DEF UpdateCR
<1>9. CASE RaiseBadGateway(r) \/ CommitConflict(r) \/ Abort(r)
  BY <1>9 DEF RaiseBadGateway, CommitConflict, Abort, Running
<1>10. CASE Commits(r)
  BY <1>10 DEF Commits, Commit, CommitUnacknowledged, Install
<1>11. QED
  BY <1>1, <1>2, <1>3, <1>4, <1>5, <1>6, <1>7, <1>8, <1>9, <1>10
  DEF StepOf, Begin, SentKeys, Proceed, Commits

LEMMA CommitFrame ==
  ASSUME TypeInv, NEW r \in Requests, Commits(r)
  PROVE  /\ pc[r] = "commit" /\ pc'[r] = "done" /\ ~KeyTaken(r)
         /\ UNCHANGED << nextId, call, tail, rowId, unleash, effects >>
BY DEF Commits, Commit, CommitUnacknowledged, Install, Leave, TypeInv, TypeOK

LEMMA CommitAudit ==
  ASSUME NEW r \in Requests, Commits(r)
  PROVE  audit' = audit \cup {AuditRow(r)}
BY DEF Commits, Commit, CommitUnacknowledged, Install

LEMMA CommitCR ==
  ASSUME NEW r \in Requests, Commits(r)
  PROVE  crs' = [crs EXCEPT ![call[r].cr] = NewCR(r)]
BY DEF Commits, Commit, CommitUnacknowledged, Install

LEMMA CommitKey ==
  ASSUME NEW r \in Requests, Commits(r)
  PROVE  keys' = IF call[r].op = "apply"
                 THEN [keys EXCEPT ![call[r].key] =
                         [state |-> "live", body |-> FreshBody(r)]]
                 ELSE keys
BY DEF Commits, Commit, CommitUnacknowledged, Install

LEMMA CommitAnswer ==
  ASSUME TypeInv, NEW r \in Requests, Commits(r)
  PROVE  \/ answer'[r].code = SuccessCode(call[r].op) /\ answer'[r].body = FreshBody(r)
         \/ answer'[r].code = 0
         \/ answer'[r].code = 500
BY DEF Commits, Commit, CommitUnacknowledged, Leave, TypeInv, TypeOK

(* The row a request has built depends on nothing but that request.        *)
LEMMA RowFrame ==
  ASSUME NEW q \in Requests, Same(q)
  PROVE  AuditRow(q)' = AuditRow(q)
BY DEF Same, AuditRow

LEMMA RowOfCommit ==
  ASSUME TypeInv, NEW r \in Requests, Commits(r)
  PROVE  AuditRow(r)' = AuditRow(r)
<1>1. call' = call /\ tail' = tail /\ rowId' = rowId /\ unleash' = unleash
  BY CommitFrame
<1>2. QED
  BY <1>1 DEF AuditRow

(* The fields of a row, one by one.                                        *)
LEMMA RowFields ==
  ASSUME NEW r \in Requests
  PROVE  /\ AuditRow(r).id = rowId[r]
         /\ AuditRow(r).by = r
         /\ AuditRow(r).prev = tail[r]
         /\ AuditRow(r).content.user = call[r].user
         /\ AuditRow(r).content.cr = call[r].cr
         /\ unleash[r] # "error" =>
              /\ call[r].op = "create" => AuditRow(r).content.action = "created"
              /\ call[r].op = "approve" => AuditRow(r).content.action = "approved"
              /\ call[r].op = "apply" => AuditRow(r).content.action = "applied"
         /\ ~ChainEnabled => AuditRow(r).hash = NoHash
         /\ ChainEnabled =>
              AuditRow(r).hash = RowHash(tail[r], AuditRow(r).content)
BY DEF AuditRow

LEMMA AuditGrows ==
  ASSUME TypeInv, [Next]_vars
  PROVE  audit \subseteq audit'
<1>1. CASE EnvironmentStep
  BY <1>1, EnvironmentFrame
<1>2. ASSUME NEW r \in Requests, StepOf(r) PROVE audit \subseteq audit'
  <2>1. CASE Commits(r)
    BY <2>1, CommitAudit
  <2>2. CASE ~Commits(r)
    BY <1>2, <2>2, OwnFrame
  <2>3. QED
    BY <2>1, <2>2
<1>3. QED
  BY <1>1, <1>2, StepCases

-------------------------------------------------------------------------------
(* Ids grow, and rows belong to finished requests.                         *)

LEMMA IdsStep ==
  ASSUME TypeInv, IdsInv, [Next]_vars
  PROVE  IdsInv'
<1> USE DEF IdsInv, Numbered
<1>1. CASE EnvironmentStep
  BY <1>1, EnvironmentFrame DEF Same
<1>2. ASSUME NEW r \in Requests, StepOf(r) PROVE IdsInv'
  <2>1. nextId \in Nat /\ nextId' \in Nat /\ nextId <= nextId'
    BY <1>2, OwnFrame, NextType DEF TypeInv, TypeOK
  <2>2. \A row \in audit' : row.id < nextId'
    <3>1. \A row \in audit : row.id \in Nat
      BY DEF TypeInv, TypeOK, AuditRows
    <3>2. CASE Commits(r)
      <4>1. AuditRow(r).id = rowId[r] /\ rowId[r] < nextId
        <5>1. pc[r] = "commit"
          BY <3>2, CommitFrame
        <5>2. AuditRow(r).id = rowId[r]
          BY RowFields
        <5>3. QED
          BY <5>1, <5>2
      <4>2. audit' = audit \cup {AuditRow(r)} /\ nextId' = nextId
        BY <3>2, CommitFrame, CommitAudit
      <4>3. QED
        BY <4>1, <4>2
    <3>3. CASE ~Commits(r)
      BY <1>2, <2>1, <3>1, <3>3, OwnFrame
    <3>4. QED
      BY <3>2, <3>3
  <2>3. \A q \in Requests : q # r /\ Numbered(q)' => rowId'[q] < nextId'
    BY <1>2, <2>1, OthersFrame DEF Same, TypeInv, TypeOK
  <2>4. Numbered(r)' => rowId'[r] < nextId'
    <3> USE DEF TypeInv, TypeOK, Goto, Leave, Rollback
    <3>1. CASE Begin(r)
      BY <3>1 DEF Begin, SentKeys, BeginCreate, BeginApprove, BeginApply
    <3>2. CASE LoadForApply(r) \/ CallUnleash(r) \/ ReadTail(r)
      BY <3>2 DEF LoadForApply, CallUnleash, ReadTail
    <3>3. CASE InsertAudit(r)
      BY <3>3 DEF InsertAudit
    <3>4. CASE UpdateCR(r)
      BY <3>4 DEF UpdateCR
    <3>5. CASE RaiseBadGateway(r) \/ CommitConflict(r) \/ Abort(r)
      BY <3>5 DEF RaiseBadGateway, CommitConflict, Abort
    <3>6. CASE Commits(r)
      BY <3>6, CommitFrame
    <3>7. QED
      BY <1>2, <3>1, <3>2, <3>3, <3>4, <3>5, <3>6 DEF StepOf, Proceed, Commits
  <2>5. QED
    BY <2>2, <2>3, <2>4
<1>3. QED
  BY <1>1, <1>2, StepCases

LEMMA OwnerStep ==
  ASSUME TypeInv, ControlInv, OwnerInv, [Next]_vars
  PROVE  OwnerInv'
<1> USE DEF OwnerInv
<1>1. CASE EnvironmentStep
  BY <1>1, EnvironmentFrame, RowFrame DEF Same, LegacyRow
<1>2. ASSUME NEW r \in Requests, StepOf(r) PROVE OwnerInv'
  <2>1. ASSUME NEW row \in audit
        PROVE  \/ row.by = None /\ row = LegacyRow(row.id)
               \/ /\ row.by \in Requests
                  /\ pc'[row.by] = "done"
                  /\ unleash'[row.by] = IF call'[row.by].op = "apply" THEN "ok" ELSE "none"
                  /\ row = AuditRow(row.by)'
    <3>1. CASE row.by = None /\ row = LegacyRow(row.id)
      BY <3>1
    <3>2. CASE /\ row.by \in Requests
               /\ pc[row.by] = "done"
               /\ unleash[row.by] = IF call[row.by].op = "apply" THEN "ok" ELSE "none"
               /\ row = AuditRow(row.by)
      <4>1. row.by # r
        BY <1>2, <3>2, OwnFrame
      <4>2. Same(row.by)
        BY <1>2, <3>2, <4>1, OthersFrame
      <4>3. QED
        BY <3>2, <4>2, RowFrame DEF Same
    <3>3. QED
      BY <3>1, <3>2
  <2>2. CASE ~Commits(r)
    BY <1>2, <2>1, <2>2, OwnFrame DEF LegacyRow
  <2>3. CASE Commits(r)
    <3>1. /\ AuditRow(r).by = r /\ pc'[r] = "done"
          /\ unleash'[r] = IF call'[r].op = "apply" THEN "ok" ELSE "none"
          /\ AuditRow(r) = AuditRow(r)'
      <4>1. pc[r] = "commit" /\ pc'[r] = "done" /\ unleash' = unleash /\ call' = call
        BY <2>3, CommitFrame
      <4>2. unleash[r] = IF call[r].op = "apply" THEN "ok" ELSE "none"
        BY <4>1 DEF ControlInv, Control, Writing, TypeInv, TypeOK
      <4>3. AuditRow(r) = AuditRow(r)'
        BY <2>3, RowOfCommit
      <4>4. AuditRow(r).by = r
        BY RowFields
      <4>5. QED
        BY <4>1, <4>2, <4>3, <4>4
    <3>2. audit' = audit \cup {AuditRow(r)}
      BY <2>3, CommitAudit
    <3>3. QED
      BY <2>1, <3>1, <3>2 DEF LegacyRow
  <2>4. QED
    BY <2>2, <2>3
<1>3. QED
  BY <1>1, <1>2, StepCases

-------------------------------------------------------------------------------
(* The control invariant.                                                  *)

LEMMA ControlStep ==
  ASSUME TypeInv, ControlInv, [Next]_vars
  PROVE  ControlInv'
<1>1. ASSUME NEW q \in Requests, Same(q) PROVE Control(q)'
  <2>1. Control(q)
    BY DEF ControlInv
  <2>2. QED
    BY <1>1, <2>1 DEF Control, Same, Writing
<1>2. CASE EnvironmentStep
  BY <1>1, <1>2, EnvironmentFrame DEF ControlInv
<1>3. ASSUME NEW r \in Requests, StepOf(r) PROVE ControlInv'
  <2>1. \A q \in Requests : q # r => Control(q)'
    BY <1>1, <1>3, OthersFrame
  <2>2. Control(r)'
    <3>0. Control(r)
      BY DEF ControlInv
    <3> USE <3>0 DEF Control, TypeInv, TypeOK, Writing, Goto, Leave, Rollback
    <3>1. CASE \E u \in Users, c \in CRs : BeginCreate(r, u, c)
      BY <3>1 DEF BeginCreate, Receive
    <3>2. CASE \E u \in Users, c \in CRs : BeginApprove(r, u, c)
      BY <3>2 DEF BeginApprove, Receive
    <3>3. CASE \E u \in Users, c \in CRs, k \in Keys \cup {NoKey} : BeginApply(r, u, c, k)
      BY <3>3 DEF BeginApply, Receive
    <3>4. CASE LoadForApply(r)
      BY <3>4 DEF LoadForApply
    <3>5. CASE CallUnleash(r)
      BY <3>5 DEF CallUnleash
    <3>6. CASE ReadTail(r)
      BY <3>6 DEF ReadTail
    <3>7. CASE InsertAudit(r)
      BY <3>7 DEF InsertAudit
    <3>8. CASE UpdateCR(r)
      BY <3>8 DEF UpdateCR
    <3>9. CASE RaiseBadGateway(r) \/ CommitConflict(r) \/ Abort(r)
      BY <3>9 DEF RaiseBadGateway, CommitConflict, Abort, Running
    <3>10. CASE Commits(r)
      BY <3>10, CommitFrame
    <3>11. QED
      BY <1>3, <3>1, <3>2, <3>3, <3>4, <3>5, <3>6, <3>7, <3>8, <3>9, <3>10
      DEF StepOf, Begin, SentKeys, Proceed, Commits
  <2>3. QED
    BY <2>1, <2>2 DEF ControlInv
<1>4. QED
  BY <1>2, <1>3, StepCases

-------------------------------------------------------------------------------
(* Grants: the rows a request relies on are committed before it goes on.   *)

LEMMA PassedChecks ==
  ASSUME NEW u, NEW c, NEW required, Refusal(u, c, required) = 0
  PROVE  crs[c].status # "absent" /\ MayEdit(u, c) /\ crs[c].status = required
BY DEF Refusal

LEMMA GrantStep ==
  ASSUME TypeInv, IdsInv, ControlInv, GrantInv, StatusIsAudited, [Next]_vars
  PROVE  GrantInv'
<1>0. audit \subseteq audit'
  BY AuditGrows
<1>1. ASSUME NEW q \in Requests, Same(q) PROVE Grant(q)'
  <2>1. Grant(q)
    BY DEF GrantInv
  <2>2. QED
    BY <1>0, <1>1, <2>1 DEF Grant, Same, Writing, Numbered, Rows, MayEdit
<1>2. CASE EnvironmentStep
  BY <1>1, <1>2, EnvironmentFrame DEF GrantInv
<1>3. ASSUME NEW r \in Requests, StepOf(r) PROVE GrantInv'
  <2>1. \A q \in Requests : q # r => Grant(q)'
    BY <1>1, <1>3, OthersFrame
  <2>2. Grant(r)'
    <3>0. Grant(r) /\ Control(r)
      BY DEF GrantInv, ControlInv
    <3> USE <1>0, <3>0 DEF Writing, Numbered, Goto, Leave, Rollback, TypeInv, TypeOK
    <3>1. CASE \E u \in Users, c \in CRs : BeginCreate(r, u, c)
      BY <3>1 DEF BeginCreate, Receive, Grant, Control, MayEdit
    <3>2. CASE \E u \in Users, c \in CRs : BeginApprove(r, u, c)
      <4>1. PICK u \in Users, c \in CRs : BeginApprove(r, u, c)
        BY <3>2
      <4>2. CASE Refusal(u, c, "pending") = 0
        <5>1. MayEdit(u, c) /\ Rows("created", c) # {}
          BY <4>2, PassedChecks DEF StatusIsAudited
        <5>2. /\ pc'[r] = "tail" /\ r \notin effects'
              /\ call'[r].op = "approve" /\ call'[r].user = u /\ call'[r].cr = c
          BY <4>1, <4>2 DEF BeginApprove, Receive, Control
        <5>3. Rows("created", c)' # {}
          BY <5>1 DEF Rows
        <5>4. QED
          BY <5>1, <5>2, <5>3 DEF Grant, MayEdit
      <4>3. CASE Refusal(u, c, "pending") # 0
        BY <4>1, <4>3 DEF BeginApprove, Receive, Grant, Control
      <4>4. QED
        BY <4>2, <4>3
    <3>3. CASE \E u \in Users, c \in CRs, k \in Keys \cup {NoKey} : BeginApply(r, u, c, k)
      BY <3>3 DEF BeginApply, Receive, Grant, Control
    <3>4. CASE LoadForApply(r)
      <4>1. CASE Refusal(call[r].user, call[r].cr, "approved") = 0
        <5>1. call[r].cr \in CRs
          BY <3>4 DEF LoadForApply, Call
        <5>2. MayEdit(call[r].user, call[r].cr) /\ Rows("approved", call[r].cr) # {}
          BY <4>1, <5>1, PassedChecks DEF StatusIsAudited
        <5>3. pc'[r] = "unleash" /\ r \notin effects' /\ call' = call
          BY <3>4, <4>1 DEF LoadForApply, Control
        <5>4. Rows("approved", call[r].cr)' # {}
          BY <5>2, <5>3 DEF Rows
        <5>5. QED
          BY <5>2, <5>3, <5>4 DEF Grant, MayEdit
      <4>2. CASE Refusal(call[r].user, call[r].cr, "approved") # 0
        BY <3>4, <4>2 DEF LoadForApply, Grant, Control
      <4>3. QED
        BY <4>1, <4>2
    <3>5. CASE CallUnleash(r)
      BY <3>5 DEF CallUnleash, Grant, Control, Rows, MayEdit
    <3>6. CASE ReadTail(r)
      BY <3>6 DEF ReadTail, Grant, Rows, MayEdit
    <3>7. CASE InsertAudit(r)
      <4>1. rowId'[r] = nextId /\ call' = call /\ audit' = audit /\ effects' = effects
        BY <3>7 DEF InsertAudit
      <4>2. \A row \in audit : row.id < rowId'[r]
        BY <4>1 DEF IdsInv
      <4>3. pc[r] = "insert"
        BY <3>7 DEF InsertAudit
      <4>4. Writing(r) /\ MayEdit(call[r].user, call[r].cr)
        BY <4>3 DEF Grant
      <4>5. call[r].op = "apply" => \E q \in Rows("approved", call[r].cr) : q.id < rowId'[r]
        BY <4>2, <4>3 DEF Grant, Rows
      <4>6. call[r].op = "approve" => \E q \in Rows("created", call[r].cr) : q.id < rowId'[r]
        BY <4>2, <4>3 DEF Grant, Rows
      <4>7. r \in effects => Rows("approved", call[r].cr) # {}
        BY DEF Grant
      <4>8. \A a, c : Rows(a, c)' = Rows(a, c)
        BY <4>1 DEF Rows
      <4> HIDE <3>0 DEF Writing, Numbered, Goto, Leave, Rollback, TypeInv, TypeOK
      <4>9. pc'[r] # "unleash"
        BY <3>7 DEF InsertAudit, Goto, TypeInv, TypeOK
      <4>10. QED
        BY <4>1, <4>4, <4>5, <4>6, <4>7, <4>8, <4>9 DEF Grant, MayEdit
    <3>8. CASE UpdateCR(r)
      <4>1. /\ pc[r] = "update" /\ pc'[r] = "commit"
            /\ UNCHANGED << call, audit, effects, rowId >>
        BY <3>8 DEF UpdateCR
      <4>2. QED
        BY <4>1 DEF Grant, Rows, MayEdit
    <3>9. CASE RaiseBadGateway(r) \/ CommitConflict(r) \/ Abort(r)
      <4>1. pc'[r] = "done" /\ UNCHANGED << call, audit, effects >>
        BY <3>9 DEF RaiseBadGateway, CommitConflict, Abort
      <4>2. QED
        BY <4>1 DEF Grant, Rows, MayEdit
    <3>10. CASE Commits(r)
      <4>1. pc'[r] = "done" /\ call' = call /\ effects' = effects
        BY <3>10, CommitFrame
      <4>2. QED
        BY <4>1 DEF Grant, Rows, MayEdit
    <3>11. QED
      BY <1>3, <3>1, <3>2, <3>3, <3>4, <3>5, <3>6, <3>7, <3>8, <3>9, <3>10
      DEF StepOf, Begin, SentKeys, Proceed, Commits
  <2>3. QED
    BY <2>1, <2>2 DEF GrantInv
<1>4. QED
  BY <1>2, <1>3, StepCases

(* Approvals are by users who may edit: the row an approve commits.        *)
LEMMA ApproverStep ==
  ASSUME TypeInv, ControlInv, GrantInv, ApproverInv, [Next]_vars
  PROVE  ApproverInv'
<1>1. CASE EnvironmentStep
  BY <1>1, EnvironmentFrame DEF ApproverInv, Rows, MayEdit
<1>2. ASSUME NEW r \in Requests, StepOf(r) PROVE ApproverInv'
  <2>1. CASE ~Commits(r)
    BY <1>2, <2>1, OwnFrame DEF ApproverInv, Rows, MayEdit
  <2>2. CASE Commits(r)
    <3>1. audit' = audit \cup {AuditRow(r)}
      BY <2>2, CommitAudit
    <3>2. MayEdit(call[r].user, call[r].cr)
      BY <2>2, CommitFrame DEF GrantInv, Grant, Writing
    <3>3. MayEdit(AuditRow(r).content.user, AuditRow(r).content.cr)
      BY <3>2, RowFields
    <3>4. QED
      BY <3>1, <3>3 DEF ApproverInv, Rows, MayEdit
  <2>3. QED
    BY <2>1, <2>2
<1>3. QED
  BY <1>1, <1>2, StepCases

-------------------------------------------------------------------------------
(* Creation: a change request that is being created is nobody else's.      *)

LEMMA CreateStep ==
  ASSUME TypeInv, ControlInv, CreateInv, GrantInv, StatusIsAudited,
         AuditIsCausal, [Next]_vars
  PROVE  CreateInv'
<1> DEFINE Creating(r) == Writing(r) /\ call[r].op = "create"
<1>1. ASSUME NEW q \in Requests, Same(q)
      PROVE  (Creating(q)' <=> Creating(q)) /\ call'[q] = call[q]
  BY <1>1 DEF Same, Writing
<1>2. CASE EnvironmentStep
  BY <1>1, <1>2, EnvironmentFrame DEF CreateInv
<1>3. ASSUME NEW r \in Requests, StepOf(r) PROVE CreateInv'
  <2>1. \A q \in Requests : q # r => (Creating(q)' <=> Creating(q)) /\ call'[q] = call[q]
    BY <1>1, <1>3, OthersFrame
  <2>2. CASE \E u \in Users, c \in CRs : BeginCreate(r, u, c)
    <3>1. PICK u \in Users, c \in CRs : BeginCreate(r, u, c)
      BY <2>2
    <3>2. /\ crs' = crs /\ crs[c].status = "absent" /\ call'[r].cr = c
          /\ \A q \in Requests : Creating(q) => call[q].cr # c
      BY <3>1 DEF BeginCreate, FreshCR, Receive, Running, Writing, TypeInv, TypeOK
    <3>3. QED
      BY <2>1, <3>2 DEF CreateInv
  <2>3. CASE ~(\E u \in Users, c \in CRs : BeginCreate(r, u, c)) /\ ~Commits(r)
    <3>1. crs' = crs
      BY <1>3, <2>3, OwnFrame
    <3>2. Creating(r)' => Creating(r) /\ call'[r] = call[r]
      <4> USE DEF TypeInv, TypeOK, Writing, Goto, Leave, Rollback, ControlInv, Control
      <4>1. CASE \E u \in Users, c \in CRs : BeginApprove(r, u, c)
        BY <4>1 DEF BeginApprove, Receive
      <4>2. CASE \E u \in Users, c \in CRs, k \in Keys \cup {NoKey} : BeginApply(r, u, c, k)
        BY <4>2 DEF BeginApply, Receive
      <4>3. CASE LoadForApply(r)
        BY <4>3 DEF LoadForApply
      <4>4. CASE CallUnleash(r)
        BY <4>4 DEF CallUnleash
      <4>5. CASE ReadTail(r)
        BY <4>5 DEF ReadTail
      <4>6. CASE InsertAudit(r)
        BY <4>6 DEF InsertAudit
      <4>7. CASE UpdateCR(r)
        BY <4>7 DEF UpdateCR
      <4>8. CASE RaiseBadGateway(r) \/ CommitConflict(r) \/ Abort(r)
        BY <4>8 DEF RaiseBadGateway, CommitConflict, Abort
      <4>9. QED
        BY <1>3, <2>3, <4>1, <4>2, <4>3, <4>4, <4>5, <4>6, <4>7, <4>8
        DEF StepOf, Begin, SentKeys, Proceed, Commits
    <3>3. QED
      BY <2>1, <3>1, <3>2 DEF CreateInv
  <2>4. CASE Commits(r)
    <3>1. pc[r] = "commit" /\ pc'[r] = "done" /\ call' = call
      BY <2>4, CommitFrame
    <3>2. ~Creating(r)'
      BY <3>1 DEF Writing
    <3>3. Writing(r) /\ call[r] \in Call
      BY <3>1 DEF Writing, TypeInv, TypeOK
    <3>4. ASSUME NEW q \in Requests, q # r, Creating(q) PROVE call[q].cr # call[r].cr
      <4>1. CASE call[r].op = "create"
        BY <3>3, <3>4, <4>1 DEF CreateInv
      <4>2. CASE call[r].op \in {"approve", "apply"}
        <5>1. Rows("created", call[r].cr) # {}
          BY <3>3, <4>2 DEF GrantInv, Grant, AuditIsCausal, Rows, Call
        <5>2. QED
          BY <3>3, <3>4, <5>1 DEF CreateInv, StatusIsAudited, Call
      <4>3. QED
        BY <3>3, <4>1, <4>2 DEF Call
    <3>5. \A c \in CRs : c # call[r].cr => crs'[c] = crs[c]
      BY <2>4, CommitCR DEF TypeInv, TypeOK
    <3>6. \A q \in Requests : Creating(q) => call[q].cr \in CRs
      BY DEF Writing, TypeInv, TypeOK, Call
    <3>7. QED
      BY <2>1, <3>2, <3>4, <3>5, <3>6 DEF CreateInv
  <2>5. QED
    BY <2>2, <2>3, <2>4
<1>4. QED
  BY <1>2, <1>3, StepCases

-------------------------------------------------------------------------------
(* Status and audit log.                                                   *)

(* What the commit of r adds to the log, seen per change request.          *)
LEMMA CommitRows ==
  ASSUME TypeInv, ControlInv, NEW r \in Requests, Commits(r), NEW c0, c0 = call[r].cr
  PROVE  /\ \A a, c : c # c0 => Rows(a, c)' = Rows(a, c)
         /\ \A a, c : Rows(a, c) \subseteq Rows(a, c)'
         /\ call[r].op = "create" => AuditRow(r) \in Rows("created", c0)'
         /\ call[r].op = "approve" => AuditRow(r) \in Rows("approved", c0)'
         /\ call[r].op = "apply" => AuditRow(r) \in Rows("applied", c0)'
<1> DEFINE new == AuditRow(r)
<1>1. audit' = audit \cup {new}
  BY CommitAudit
<1>2. unleash[r] # "error"
  BY CommitFrame DEF ControlInv, Control
<1>3. /\ new.content.cr = c0
      /\ call[r].op = "create" => new.content.action = "created"
      /\ call[r].op = "approve" => new.content.action = "approved"
      /\ call[r].op = "apply" => new.content.action = "applied"
  BY <1>2, RowFields
<1> HIDE DEF new
<1>4. \A a, c : c # c0 => Rows(a, c)' = Rows(a, c)
  BY <1>1, <1>3 DEF Rows
<1>5. \A a, c : Rows(a, c) \subseteq Rows(a, c)'
  BY <1>1 DEF Rows
<1>6. /\ call[r].op = "create" => new \in Rows("created", c0)'
      /\ call[r].op = "approve" => new \in Rows("approved", c0)'
      /\ call[r].op = "apply" => new \in Rows("applied", c0)'
  BY <1>1, <1>3 DEF Rows
<1>7. QED
  BY <1>4, <1>5, <1>6 DEF new

LEMMA StatusStep ==
  ASSUME TypeInv, ControlInv, GrantInv, StatusIsAudited, AuditIsCausal, [Next]_vars
  PROVE  StatusIsAudited'
<1>1. CASE EnvironmentStep
  BY <1>1, EnvironmentFrame DEF StatusIsAudited, Rows
<1>2. ASSUME NEW r \in Requests, StepOf(r) PROVE StatusIsAudited'
  <2>1. CASE ~Commits(r)
    BY <1>2, <2>1, OwnFrame DEF StatusIsAudited, Rows
  <2>2. CASE Commits(r)
    <3>0. PICK c0 \in CRs : c0 = call[r].cr
      BY <2>2, CommitFrame DEF TypeInv, TypeOK, Call
    <3> USE <3>0
    <3>1. pc[r] = "commit" /\ call[r] \in Call
      BY <2>2, CommitFrame DEF TypeInv, TypeOK
    <3>2. crs' = [crs EXCEPT ![c0] = NewCR(r)] /\ crs \in [CRs -> ChangeRequest]
      BY <2>2, CommitCR DEF TypeInv, TypeOK
    <3>3. ASSUME NEW c \in CRs, c # c0
          PROVE  crs'[c] = crs[c] /\ \A a : Rows(a, c)' = Rows(a, c)
      BY <2>2, <3>2, <3>3, CommitRows
    <3>4. crs'[c0].status # "absent" /\ Rows("created", c0)' # {}
      <4>1. crs'[c0].status # "absent"
        BY <3>1, <3>2 DEF NewCR, NewStatus, Call
      <4>2. CASE call[r].op = "create"
        BY <2>2, <4>1, <4>2, CommitRows
      <4>3. CASE call[r].op \in {"approve", "apply"}
        <5>1. Rows("created", c0) # {}
          BY <3>1, <4>3 DEF GrantInv, Grant, AuditIsCausal, Rows, Call, Writing
        <5>2. QED
          BY <2>2, <4>1, <5>1, CommitRows
      <4>4. QED
        BY <3>1, <4>1, <4>2, <4>3 DEF Call
    <3>5. crs'[c0].status = "approved" =>
            \E row \in Rows("approved", c0)' : row.content.user = crs'[c0].approved_by
      <4>1. SUFFICES ASSUME crs'[c0].status = "approved"
                     PROVE  \E row \in Rows("approved", c0)' :
                              row.content.user = crs'[c0].approved_by
        OBVIOUS
      <4>2. call[r].op = "approve"
        BY <3>1, <3>2, <4>1 DEF NewCR, NewStatus, Call
      <4>3. crs'[c0].approved_by = call[r].user
        BY <3>1, <3>2, <4>2 DEF NewCR
      <4>4. AuditRow(r) \in Rows("approved", c0)' /\ AuditRow(r).content.user = call[r].user
        BY <2>2, <4>2, CommitRows, RowFields
      <4>5. QED
        BY <4>3, <4>4
    <3>6. crs'[c0].status = "applied" => Rows("applied", c0)' # {}
      <4>1. crs'[c0].status = "applied" => call[r].op = "apply"
        BY <3>1, <3>2 DEF NewCR, NewStatus, Call
      <4>2. QED
        BY <2>2, <4>1, CommitRows
    <3>7. QED
      <4>1. ASSUME NEW c \in CRs
            PROVE  /\ crs'[c].status = "absent" <=> Rows("created", c)' = {}
                   /\ crs'[c].status = "approved" =>
                        \E row \in Rows("approved", c)' :
                          row.content.user = crs'[c].approved_by
                   /\ crs'[c].status = "applied" => Rows("applied", c)' # {}
        <5>1. CASE c = c0
          BY <3>4, <3>5, <3>6, <5>1
        <5>2. CASE c # c0
          BY <3>3, <5>2 DEF StatusIsAudited
        <5>3. QED
          BY <5>1, <5>2
      <4>2. QED
        BY <4>1 DEF StatusIsAudited
  <2>3. QED
    BY <2>1, <2>2
<1>3. QED
  BY <1>1, <1>2, StepCases

LEMMA CausalStep ==
  ASSUME TypeInv, ControlInv, GrantInv, ApproverInv, AuditIsCausal, [Next]_vars
  PROVE  AuditIsCausal'
<1>1. CASE EnvironmentStep
  BY <1>1, EnvironmentFrame DEF AuditIsCausal, Rows, MayEdit
<1>2. ASSUME NEW r \in Requests, StepOf(r) PROVE AuditIsCausal'
  <2>1. CASE ~Commits(r)
    BY <1>2, <2>1, OwnFrame DEF AuditIsCausal, Rows, MayEdit
  <2>2. CASE Commits(r)
    <3>1. pc[r] = "commit" /\ call[r] \in Call
      BY <2>2, CommitFrame DEF TypeInv, TypeOK
    <3>2. AuditRow(r).id = rowId[r]
      BY RowFields
    <3>3. AuditRow(r).content.action = "applied" =>
            \E q \in Rows("approved", call[r].cr) :
              q.id < AuditRow(r).id /\ MayEdit(q.content.user, call[r].cr)
      <4>1. AuditRow(r).content.action = "applied" => call[r].op = "apply"
        BY <3>1, RowFields DEF ControlInv, Control, Call
      <4>2. QED
        BY <3>1, <3>2, <4>1 DEF GrantInv, Grant, Numbered, ApproverInv, Call
    <3>4. AuditRow(r).content.action = "approved" =>
            \E q \in Rows("created", call[r].cr) : q.id < AuditRow(r).id
      <4>1. AuditRow(r).content.action = "approved" => call[r].op = "approve"
        BY <3>1, RowFields DEF ControlInv, Control, Call
      <4>2. QED
        BY <3>1, <3>2, <4>1 DEF GrantInv, Grant, Numbered
    <3>5. AuditRow(r).content.cr = call[r].cr /\ audit' = audit \cup {AuditRow(r)}
      BY <2>2, RowFields, CommitAudit
    <3>6. ASSUME NEW c \in CRs, NEW row \in Rows("applied", c)'
          PROVE  \E q \in Rows("approved", c)' :
                   q.id < row.id /\ MayEdit(q.content.user, c)
      <4>1. CASE row \in audit
        BY <3>5, <3>6, <4>1 DEF AuditIsCausal, Rows
      <4>2. CASE row = AuditRow(r)
        BY <3>3, <3>5, <3>6, <4>2 DEF Rows
      <4>3. QED
        BY <3>5, <3>6, <4>1, <4>2 DEF Rows
    <3>7. ASSUME NEW c \in CRs, NEW row \in Rows("approved", c)'
          PROVE  \E q \in Rows("created", c)' : q.id < row.id
      <4>1. CASE row \in audit
        BY <3>5, <3>7, <4>1 DEF AuditIsCausal, Rows
      <4>2. CASE row = AuditRow(r)
        BY <3>4, <3>5, <3>7, <4>2 DEF Rows
      <4>3. QED
        BY <3>5, <3>7, <4>1, <4>2 DEF Rows
    <3>8. QED
      BY <3>6, <3>7 DEF AuditIsCausal, MayEdit
  <2>3. QED
    BY <2>1, <2>2
<1>3. QED
  BY <1>1, <1>2, StepCases

-------------------------------------------------------------------------------
(* The chain: every tail is the hash of a row committed below.             *)

LEMMA LinkStep ==
  ASSUME TypeInv, IdsInv, LinkInv, [Next]_vars
  PROVE  LinkInv'
<1>0. audit \subseteq audit'
  BY AuditGrows
<1>1. ASSUME NEW q \in Requests, Same(q) PROVE Link(q)'
  <2>1. Link(q)
    BY DEF LinkInv
  <2>2. QED
    BY <1>0, <1>1, <2>1 DEF Link, Same, Numbered
<1>2. CASE EnvironmentStep
  BY <1>1, <1>2, EnvironmentFrame DEF LinkInv
<1>3. ASSUME NEW r \in Requests, StepOf(r) PROVE LinkInv'
  <2>1. \A q \in Requests : q # r => Link(q)'
    BY <1>1, <1>3, OthersFrame
  <2>2. Link(r)'
    <3>0. Link(r)
      BY DEF LinkInv
    <3> USE <3>0 DEF Link, Numbered, TypeInv, TypeOK, Goto, Leave, Rollback
    <3>1. CASE Begin(r)
      BY <3>1 DEF Begin, SentKeys, BeginCreate, BeginApprove, BeginApply
    <3>2. CASE LoadForApply(r) \/ CallUnleash(r)
      BY <3>2 DEF LoadForApply, CallUnleash
    <3>3. CASE ReadTail(r)
      <4>1. ChainEnabled => tail'[r] = Genesis \/ \E q \in audit : q.hash = tail'[r]
        BY <3>3 DEF ReadTail, VisibleRows
      <4>2. QED
        BY <3>3, <4>1 DEF ReadTail
    <3>4. CASE InsertAudit(r)
      <4>1. /\ pc[r] = "insert" /\ rowId'[r] = nextId
            /\ audit' = audit /\ tail' = tail /\ pc'[r] # "insert"
        BY <3>4 DEF InsertAudit
      <4>2. QED
        BY <4>1 DEF IdsInv
    <3>5. CASE UpdateCR(r)
      BY <3>5 DEF UpdateCR
    <3>6. CASE RaiseBadGateway(r) \/ CommitConflict(r) \/ Abort(r)
      BY <3>6 DEF RaiseBadGateway, CommitConflict, Abort
    <3>7. CASE Commits(r)
      BY <3>7, CommitFrame
    <3>8. QED
      BY <1>3, <3>1, <3>2, <3>3, <3>4, <3>5, <3>6, <3>7 DEF StepOf, Proceed, Commits
  <2>3. QED
    BY <2>1, <2>2 DEF LinkInv
<1>4. QED
  BY <1>2, <1>3, StepCases

LEMMA LinksStep ==
  ASSUME TypeInv, LinkInv, LinksAreCommitted, [Next]_vars
  PROVE  LinksAreCommitted'
<1>1. CASE EnvironmentStep
  BY <1>1, EnvironmentFrame DEF LinksAreCommitted
<1>2. ASSUME NEW r \in Requests, StepOf(r) PROVE LinksAreCommitted'
  <2>1. CASE ~Commits(r)
    BY <1>2, <2>1, OwnFrame DEF LinksAreCommitted
  <2>2. CASE Commits(r)
    <3> DEFINE new == AuditRow(r)
    <3>1. audit' = audit \cup {new} /\ pc[r] = "commit"
      BY <2>2, CommitAudit, CommitFrame
    <3>2. \/ Legacy(new)
          \/ new.prev = Genesis
          \/ \E q \in audit : q.id < new.id /\ q.hash = new.prev
      <4>1. new.id = rowId[r] /\ new.prev = tail[r]
        BY RowFields
      <4>2. CASE ChainEnabled
        BY <3>1, <4>1, <4>2 DEF LinkInv, Link, Numbered
      <4>3. CASE ~ChainEnabled
        <5>1. new.hash = NoHash
          BY <4>3, RowFields
        <5>2. tail[r] = NoHash
          BY <4>3 DEF LinkInv, Link
        <5>3. QED
          BY <4>1, <5>1, <5>2 DEF Legacy
      <4>4. QED
        BY <4>2, <4>3
    <3> HIDE DEF new
    <3>3. QED
      BY <3>1, <3>2 DEF LinksAreCommitted
  <2>3. QED
    BY <2>1, <2>2
<1>3. QED
  BY <1>1, <1>2, StepCases

-------------------------------------------------------------------------------
(* Idempotency rows.                                                       *)

(* Rows of finished requests keep their meaning: their call is fixed.      *)
LEMMA OwnersAreFixed ==
  ASSUME TypeInv, OwnerInv, [Next]_vars, NEW row \in audit,
         row.content.action # "legacy"
  PROVE  row.by \in Requests /\ Same(row.by)
<1>1. row.by \in Requests /\ pc[row.by] = "done"
  BY DEF OwnerInv, LegacyRow
<1>2. CASE EnvironmentStep
  BY <1>1, <1>2, EnvironmentFrame
<1>3. ASSUME NEW r \in Requests, StepOf(r) PROVE Same(row.by)
  BY <1>1, <1>3, OwnFrame, OthersFrame
<1>4. QED
  BY <1>1, <1>2, <1>3, StepCases

LEMMA NoneIsNobody == None \notin Requests /\ None \notin CRs /\ None \notin Users
BY GovernanceAssumption

(* What can happen to the row of one key.                                  *)
Expires(k) ==
  /\ k \in ExpiringKeys
  /\ keys[k].state = "live" /\ keys'[k].state = "expired"
  /\ keys'[k].body = keys[k].body

Purged(k) == k \in ExpiringKeys /\ keys'[k] = NoKeyRow

Stored(r, k) ==
  /\ Commits(r)
  /\ call[r].op = "apply" /\ call[r].key = k
  /\ keys[k].state = "none"
  /\ keys'[k] = [state |-> "live", body |-> FreshBody(r)]

LEMMA KeyMoves ==
  ASSUME TypeInv, ControlInv, KeyInv, [Next]_vars, NEW k \in Keys
  PROVE  keys'[k] = keys[k] \/ Expires(k) \/ Purged(k) \/ \E r \in Requests : Stored(r, k)
<1> USE DEF TypeInv, TypeOK
<1>1. CASE UNCHANGED vars
  BY <1>1 DEF vars
<1>2. CASE \E j \in Keys : Expire(j)
  BY <1>2 DEF Expire, Expires, KeyRow
<1>3. CASE Cleanup
  BY <1>3 DEF Cleanup, KeyInv, Purged
<1>4. ASSUME NEW r \in Requests, StepOf(r), ~Commits(r) PROVE keys'[k] = keys[k]
  BY <1>4, OwnFrame
<1>5. ASSUME NEW r \in Requests, Commits(r), keys'[k] # keys[k]
      PROVE  Stored(r, k)
  <2>1. call[r].op = "apply" /\ call[r].key = k
    BY <1>5, CommitKey
  <2>2. keys[k].state = "none"
    BY <1>5, <2>1, CommitFrame DEF KeyTaken
  <2>3. keys'[k] = [state |-> "live", body |-> FreshBody(r)]
    BY <1>5, <2>1, CommitKey
  <2>4. QED
    BY <1>5, <2>1, <2>2, <2>3 DEF Stored
<1> HIDE DEF TypeInv, TypeOK
<1>6. QED
  BY <1>1, <1>2, <1>3, <1>4, <1>5, StepCases DEF EnvironmentStep

LEMMA StoredFacts ==
  ASSUME NEW r \in Requests, NEW k, Stored(r, k)
  PROVE  /\ keys'[k].state = "live"
         /\ keys'[k].body.by = r
         /\ keys'[k].body.cr = call[r].cr
         /\ Commits(r) /\ call[r].op = "apply" /\ call[r].key = k
         /\ keys[k].state = "none"
BY DEF Stored, FreshBody

LEMMA PurgedFacts ==
  ASSUME NEW k, Purged(k)
  PROVE  /\ k \in ExpiringKeys
         /\ keys'[k].state = "none" /\ keys'[k].body = NoBody
BY DEF Purged, NoKeyRow

LEMMA KeyStep ==
  ASSUME TypeInv, ControlInv, OwnerInv, KeyInv, [Next]_vars
  PROVE  KeyInv'
<1>0. audit \subseteq audit'
  BY AuditGrows
<1>2. ASSUME NEW k \in Keys
      PROVE  /\ keys'[k].state = "none" => keys'[k].body = NoBody
             /\ keys'[k].state # "none" =>
                  \E row \in audit' : /\ row.content.action = "applied"
                                      /\ row.content.cr = keys'[k].body.cr
                                      /\ row.by = keys'[k].body.by
  <2>0. /\ keys[k].state = "none" => keys[k].body = NoBody
        /\ keys[k].state # "none" =>
             \E row \in audit : /\ row.content.action = "applied"
                                /\ row.content.cr = keys[k].body.cr
                                /\ row.by = keys[k].body.by
    BY DEF KeyInv, Rows
  <2>1. CASE keys'[k] = keys[k]
    BY <1>0, <2>0, <2>1
  <2>2. CASE Expires(k)
    <3>1. /\ keys'[k].body = keys[k].body
          /\ keys'[k].state # "none" /\ keys[k].state # "none"
      BY <2>2 DEF Expires
    <3>2. QED
      BY <1>0, <2>0, <3>1
  <2>3. CASE Purged(k)
    <3>1. keys'[k].state = "none" /\ keys'[k].body = NoBody
      BY <2>3, PurgedFacts
    <3>2. QED
      BY <3>1
  <2>4. ASSUME NEW r \in Requests, Stored(r, k)
        PROVE  /\ keys'[k].state # "none"
               /\ \E row \in audit' : /\ row.content.action = "applied"
                                      /\ row.content.cr = keys'[k].body.cr
                                      /\ row.by = keys'[k].body.by
    <3>1. PICK c0 : c0 = call[r].cr
      OBVIOUS
    <3>2. keys'[k].body.by = r /\ keys'[k].body.cr = c0 /\ keys'[k].state = "live"
      BY <2>4, <3>1, StoredFacts
    <3>3. AuditRow(r) \in Rows("applied", c0)' /\ AuditRow(r).by = r
      BY <2>4, <3>1, StoredFacts, CommitRows, RowFields
    <3>4. QED
      BY <3>2, <3>3 DEF Rows
  <2>5. QED
    BY <2>1, <2>2, <2>3, <2>4, KeyMoves
<1>3. ASSUME NEW k \in Keys, k \notin ExpiringKeys
      PROVE  /\ keys'[k].state # "expired"
             /\ \A row \in AppliedRowsOf(k)' :
                  keys'[k].state = "live" /\ keys'[k].body.by = row.by
  <2>0. /\ keys[k].state # "expired"
        /\ \A row \in AppliedRowsOf(k) :
             keys[k].state = "live" /\ keys[k].body.by = row.by
    BY <1>3 DEF KeyInv
  <2>1. ASSUME NEW row \in AppliedRowsOf(k)', row \in audit
        PROVE  row \in AppliedRowsOf(k)
    <3>1. row.content.action = "applied" /\ call'[row.by].key = k
      BY <2>1 DEF AppliedRowsOf
    <3>2. call'[row.by] = call[row.by]
      BY <2>1, <3>1, OwnersAreFixed DEF Same
    <3>3. QED
      BY <2>1, <3>1, <3>2 DEF AppliedRowsOf
  <2>2. ASSUME NEW row \in AppliedRowsOf(k)', row \notin audit
        PROVE  \E r \in Requests :
                 /\ Commits(r) /\ call[r].op = "apply" /\ call[r].key = k /\ row.by = r
    <3>1. row \in audit' /\ row.content.action = "applied" /\ call'[row.by].key = k
      BY <2>2 DEF AppliedRowsOf
    <3>2. PICK r \in Requests : Commits(r)
      BY <2>2, <3>1, StepCases, EnvironmentFrame, OwnFrame
    <3>3. row = AuditRow(r) /\ call' = call /\ pc[r] = "commit"
      BY <2>2, <3>1, <3>2, CommitAudit, CommitFrame
    <3>4. row.by = r
      BY <3>3, RowFields
    <3>5. call[r].op = "apply"
      BY <3>1, <3>3, RowFields DEF ControlInv, Control, TypeInv, TypeOK, Call
    <3>6. QED
      BY <3>1, <3>2, <3>3, <3>4, <3>5
  <2>3. CASE keys'[k] = keys[k]
    <3>1. ASSUME NEW row \in AppliedRowsOf(k)', row \notin audit PROVE FALSE
      <4>1. PICK r \in Requests : Commits(r) /\ call[r].op = "apply" /\ call[r].key = k
        BY <2>2, <3>1
      <4>2. keys[k].state = "none"
        BY <4>1, CommitFrame DEF KeyTaken
      <4>3. keys' = [keys EXCEPT ![k] = [state |-> "live", body |-> FreshBody(r)]]
        BY <4>1, CommitKey
      <4>4. keys'[k].state = "live"
        BY <4>3 DEF TypeInv, TypeOK
      <4>5. QED
        BY <2>3, <4>2, <4>4
    <3>2. QED
      BY <2>0, <2>1, <2>3, <3>1
  <2>4. ASSUME NEW r \in Requests, Stored(r, k)
        PROVE  /\ keys'[k].state # "expired"
               /\ \A row \in AppliedRowsOf(k)' :
                    keys'[k].state = "live" /\ keys'[k].body.by = row.by
    <3>1. keys'[k].state = "live" /\ keys'[k].body.by = r /\ keys[k].state = "none"
      BY <2>4, StoredFacts
    <3>2. ASSUME NEW row \in AppliedRowsOf(k)' PROVE row.by = r
      <4>1. row \notin audit
        BY <2>0, <2>1, <3>1, <3>2
      <4>2. row \in audit'
        BY <3>2 DEF AppliedRowsOf
      <4>3. row = AuditRow(r)
        BY <2>4, <4>1, <4>2, CommitAudit, StoredFacts
      <4>4. QED
        BY <4>3, RowFields
    <3>3. QED
      BY <3>1, <3>2
  <2>5. ~Expires(k) /\ ~Purged(k)
    BY <1>3 DEF Expires, Purged
  <2>6. QED
    BY <2>3, <2>4, <2>5, KeyMoves
<1>4. QED
  BY <1>2, <1>3 DEF KeyInv, Rows

-------------------------------------------------------------------------------
(* Answers.                                                                *)

(* A 200 that get_existing_response has found.                             *)
Replay(r) ==
  /\ pc[r] = "idle" /\ call'[r].op = "apply" /\ effects' = effects
  /\ \E k \in Keys :
       /\ call'[r].key = k
       /\ keys[k].state = "live"
       /\ answer'[r].code = 200 /\ answer'[r].body = keys[k].body

Refused(r, codes, labels) ==
  /\ pc[r] \in labels /\ effects' = effects
  /\ answer'[r].code \in codes

(* A step answers its request with a refusal, a failure, the body of a     *)
(* commit or a stored body, or leaves it without an answer.                *)
LEMMA AnswerCases ==
  ASSUME TypeInv, NEW r \in Requests, StepOf(r)
  PROVE  \/ pc[r] # "done" /\ answer'[r] = answer[r]
         \/ answer'[r].code = 0 \/ answer'[r].code = 500
         \/ Refused(r, {400, 403, 404}, {"idle", "load"})
         \/ Refused(r, {502}, {"raise"})
         \/ /\ Commits(r)
            /\ answer'[r].code = SuccessCode(call[r].op) /\ answer'[r].body = FreshBody(r)
         \/ Replay(r)
<1> USE DEF TypeInv, TypeOK, Goto, Leave, Rollback
<1>1. CASE \E u \in Users, c \in CRs : BeginCreate(r, u, c)
  BY <1>1 DEF BeginCreate, Receive, Refused
<1>2. CASE \E u \in Users, c \in CRs : BeginApprove(r, u, c)
  BY <1>2, RefusalCode DEF BeginApprove, Receive, Refused
<1>3. ASSUME NEW u \in Users, NEW c \in CRs, NEW k \in Keys \cup {NoKey}, BeginApply(r, u, c, k)
      PROVE  \/ answer'[r] = answer[r]
             \/ Refused(r, {400, 403, 404}, {"idle", "load"})
             \/ Replay(r)
  <2>1. pc[r] = "idle" /\ call'[r].op = "apply" /\ call'[r].key = k /\ effects' = effects
    BY <1>3 DEF BeginApply, Receive
  <2>2. \/ answer'[r].code = 400
        \/ /\ k # NoKey /\ keys[k].state = "live"
           /\ answer'[r].code = 200 /\ answer'[r].body = keys[k].body
        \/ answer' = answer
    BY <1>3 DEF BeginApply, Receive
  <2>3. QED
    BY <2>1, <2>2 DEF Refused, Replay
<1>4. CASE LoadForApply(r)
  BY <1>4, RefusalCode DEF LoadForApply, Refused
<1>5. CASE CallUnleash(r) \/ ReadTail(r) \/ InsertAudit(r) \/ UpdateCR(r)
  BY <1>5 DEF CallUnleash, ReadTail, InsertAudit, UpdateCR
<1>6. CASE RaiseBadGateway(r)
  BY <1>6 DEF RaiseBadGateway, Refused
<1>7. CASE CommitConflict(r) \/ Abort(r)
  BY <1>7 DEF CommitConflict, Abort
<1>8. CASE Commits(r)
  BY <1>8, CommitAnswer
<1> HIDE DEF TypeInv, TypeOK, Goto, Leave, Rollback
<1>9. QED
  BY <1>1, <1>2, <1>3, <1>4, <1>5, <1>6, <1>7, <1>8, OwnFrame
  DEF StepOf, Begin, SentKeys, Proceed, Commits

LEMMA LiveStays ==
  ASSUME TypeInv, ControlInv, KeyInv, [Next]_vars,
         NEW k \in Keys \ ExpiringKeys, keys[k].state = "live"
  PROVE  keys'[k] = keys[k]
BY KeyMoves, StoredFacts DEF Expires, Purged

LEMMA AnswerStep ==
  ASSUME TypeInv, ControlInv, KeyInv, AnswerInv, [Next]_vars
  PROVE  AnswerInv'
<1>1. ASSUME NEW q \in Requests, answer'[q].code = 200, call'[q].op = "apply",
             call'[q].key \notin ExpiringKeys
      PROVE  /\ call'[q].key \in Keys
             /\ keys'[call'[q].key].state = "live"
             /\ answer'[q].body = keys'[call'[q].key].body
  <2>1. CASE Same(q)
    <3>1. /\ call[q].key \in Keys
          /\ keys[call[q].key].state = "live"
          /\ answer[q].body = keys[call[q].key].body
      BY <1>1, <2>1 DEF Same, AnswerInv
    <3>2. keys'[call[q].key] = keys[call[q].key]
      BY <1>1, <2>1, <3>1, LiveStays DEF Same
    <3>3. QED
      BY <2>1, <3>1, <3>2 DEF Same
  <2>2. CASE StepOf(q)
    <3>1. CASE pc[q] # "done" /\ answer'[q] = answer[q]
      BY <1>1, <3>1 DEF ControlInv, Control, NoAnswer
    <3>2. CASE Commits(q)
      <4>1. call' = call /\ call[q].op = "apply" /\ call[q].key \in Keys
        BY <1>1, <3>2, CommitFrame DEF ControlInv, Control
      <4>2. keys'[call[q].key] = [state |-> "live", body |-> FreshBody(q)]
        BY <3>2, <4>1, CommitKey DEF TypeInv, TypeOK
      <4>3. answer'[q].body = FreshBody(q)
        BY <1>1, <3>2, CommitAnswer
      <4>4. QED
        BY <4>1, <4>2, <4>3
    <3>3. CASE Replay(q)
      <4>1. ~Commits(q)
        BY <3>3, CommitFrame DEF Replay
      <4>2. keys' = keys
        BY <2>2, <4>1, OwnFrame
      <4>3. QED
        BY <3>3, <4>2 DEF Replay
    <3>4. \/ pc[q] # "done" /\ answer'[q] = answer[q]
          \/ Commits(q) \/ Replay(q)
      BY <1>1, <2>2, AnswerCases DEF Refused
    <3>5. QED
      BY <3>1, <3>2, <3>3, <3>4
  <2>3. QED
    BY <2>1, <2>2, StepCases, EnvironmentFrame, OthersFrame
<1>2. QED
  BY <1>1 DEF AnswerInv

LEMMA SuccessStep ==
  ASSUME TypeInv, ControlInv, KeyInv, SuccessIsDurable, [Next]_vars
  PROVE  SuccessIsDurable'
<1>0. audit \subseteq audit'
  BY AuditGrows
<1> DEFINE Logged(action, c, q) ==
      \E row \in audit' : row.content.action = action /\ row.content.cr = c /\ row.by = q
<1>1. ASSUME NEW q \in Requests
      PROVE  /\ answer'[q].code = 201 => \E row \in audit' : row.by = q
             /\ answer'[q].code = 200 /\ call'[q].op = "approve" =>
                  Logged("approved", call'[q].cr, q)
             /\ answer'[q].code = 200 /\ call'[q].op = "apply" =>
                  Logged("applied", answer'[q].body.cr, answer'[q].body.by)
  <2>1. CASE Same(q)
    BY <1>0, <2>1 DEF Same, SuccessIsDurable, Rows
  <2>2. CASE StepOf(q)
    <3>1. CASE pc[q] # "done" /\ answer'[q] = answer[q]
      BY <3>1 DEF ControlInv, Control, NoAnswer
    <3>2. CASE /\ Commits(q)
               /\ answer'[q].code = SuccessCode(call[q].op) /\ answer'[q].body = FreshBody(q)
      <4>1. call' = call /\ pc[q] = "commit"
        BY <3>2, CommitFrame
      <4>2. /\ AuditRow(q) \in audit' /\ AuditRow(q).by = q
            /\ AuditRow(q).content.cr = call[q].cr
        BY <3>2, CommitAudit, RowFields
      <4>3. /\ call[q].op = "approve" => AuditRow(q).content.action = "approved"
            /\ call[q].op = "apply" => AuditRow(q).content.action = "applied"
        BY <4>1, RowFields DEF ControlInv, Control
      <4>4. call[q].op = "apply" => answer'[q].body.cr = call[q].cr /\ answer'[q].body.by = q
        BY <3>2 DEF FreshBody
      <4>5. QED
        BY <4>1, <4>2, <4>3, <4>4
    <3>3. CASE Replay(q)
      <4>1. PICK k \in Keys : /\ keys[k].state = "live" /\ answer'[q].code = 200
                             /\ answer'[q].body = keys[k].body
        BY <3>3 DEF Replay
      <4>2. \E row \in audit : /\ row.content.action = "applied"
                               /\ row.content.cr = keys[k].body.cr
                               /\ row.by = keys[k].body.by
        BY <4>1 DEF KeyInv, Rows
      <4>3. call'[q].op = "apply"
        BY <3>3 DEF Replay
      <4>4. QED
        BY <1>0, <4>1, <4>2, <4>3
    <3>4. QED
      BY <2>2, <3>1, <3>2, <3>3, AnswerCases DEF Refused
  <2>3. QED
    BY <2>1, <2>2, StepCases, EnvironmentFrame, OthersFrame
<1>2. QED
  BY <1>1 DEF SuccessIsDurable, Rows

(* Until a request is over it is not told anything; then it has either     *)
(* committed its own row, or failed, or it never came to its call.         *)
LEMMA EffectStep ==
  ASSUME TypeInv, ControlInv, UnloggedEffectsAreErrors, [Next]_vars
  PROVE  UnloggedEffectsAreErrors'
<1>0. audit \subseteq audit'
  BY AuditGrows
<1>1. ASSUME NEW q \in Requests, q \in effects', answer'[q].code \notin {0, 500, 502}
      PROVE  \E row \in Rows("applied", call[q].cr)' : row.by = q
  <2>1. CASE Same(q)
    BY <1>0, <1>1, <2>1 DEF Same, UnloggedEffectsAreErrors, Rows
  <2>2. CASE StepOf(q)
    <3>1. CASE pc[q] # "done" /\ answer'[q] = answer[q]
      BY <1>1, <3>1 DEF ControlInv, Control, NoAnswer
    <3>2. CASE Commits(q)
      <4>1. q \in effects /\ pc[q] = "commit" /\ call' = call
        BY <1>1, <3>2, CommitFrame
      <4>2. call[q].op = "apply" /\ unleash[q] # "error"
        BY <4>1 DEF ControlInv, Control
      <4>3. /\ AuditRow(q) \in audit' /\ AuditRow(q).by = q
            /\ AuditRow(q).content.cr = call'[q].cr
            /\ AuditRow(q).content.action = "applied"
        BY <3>2, <4>1, <4>2, CommitAudit, RowFields
      <4>4. QED
        BY <4>3 DEF Rows
    <3>3. CASE Refused(q, {400, 403, 404}, {"idle", "load"}) \/ Replay(q)
      BY <1>1, <3>3 DEF Refused, Replay, ControlInv, Control
    <3>4. QED
      BY <1>1, <2>2, <3>1, <3>2, <3>3, AnswerCases DEF Refused
  <2>3. QED
    BY <2>1, <2>2, StepCases, EnvironmentFrame, OthersFrame
<1>2. effects' \subseteq Requests
  BY NextType DEF TypeInv, TypeOK
<1>3. QED
  BY <1>1, <1>2 DEF UnloggedEffectsAreErrors

-------------------------------------------------------------------------------
(* The theorems.                                                           *)

LEMMA InitInv ==
  ASSUME Init
  PROVE  IInv
<1>1. TypeInv
  BY InitType
<1>2. \A row \in audit : /\ row = LegacyRow(row.id) /\ row.by = None
                         /\ row.id <= LegacyRows /\ row.content.action = "legacy"
                         /\ Legacy(row)
  BY GovernanceAssumption DEF Init, LegacyRow, Legacy
<1>3. \A c : \A a \in {"created", "approved", "applied"} : Rows(a, c) = {}
  BY <1>2 DEF Rows
<1>4. \A k : AppliedRowsOf(k) = {}
  BY <1>2 DEF AppliedRowsOf
<1>5. IdsInv
  BY <1>2, GovernanceAssumption DEF Init, IdsInv, Numbered, LegacyRow
<1>6. OwnerInv
  BY <1>2 DEF OwnerInv
<1>7. ControlInv /\ GrantInv /\ ApproverInv /\ CreateInv
  BY <1>3 DEF Init, ControlInv, Control, GrantInv, Grant, Numbered, ApproverInv,
              CreateInv, Writing
<1>8. StatusIsAudited /\ AuditIsCausal
  BY <1>3 DEF Init, StatusIsAudited, AuditIsCausal
<1>9. KeyInv
  BY <1>4 DEF Init, KeyInv, NoKeyRow
<1>10. SuccessIsDurable /\ AnswerInv /\ UnloggedEffectsAreErrors
  BY DEF Init, SuccessIsDurable, AnswerInv, UnloggedEffectsAreErrors, NoAnswer
<1>11. LinkInv /\ LinksAreCommitted
  BY <1>2 DEF Init, LinkInv, Link, Numbered, LinksAreCommitted
<1>12. QED
  BY <1>1, <1>5, <1>6, <1>7, <1>8, <1>9, <1>10, <1>11 DEF IInv

LEMMA NextInv ==
  ASSUME IInv, [Next]_vars
  PROVE  IInv'
<1>1. TypeInv' /\ IdsInv' /\ OwnerInv' /\ ControlInv'
  BY NextType, IdsStep, OwnerStep, ControlStep DEF IInv
<1>2. GrantInv' /\ ApproverInv' /\ CreateInv'
  BY GrantStep, ApproverStep, CreateStep DEF IInv
<1>3. StatusIsAudited' /\ AuditIsCausal'
  BY StatusStep, CausalStep DEF IInv
<1>4. KeyInv' /\ SuccessIsDurable' /\ AnswerInv' /\ UnloggedEffectsAreErrors'
  BY KeyStep, SuccessStep, AnswerStep, EffectStep DEF IInv
<1>5. LinkInv' /\ LinksAreCommitted'
  BY LinkStep, LinksStep DEF IInv
<1>6. QED
  BY <1>1, <1>2, <1>3, <1>4, <1>5 DEF IInv

(* Every reachable state of the write path satisfies the inductive         *)
(* invariant, for any number of requests, replicas, keys and users.        *)
THEOREM Invariance == Spec => []IInv
<1>1. Init => IInv
  BY InitInv
<1>2. IInv /\ [Next]_vars => IInv'
  BY NextInv
<1>3. QED
  BY <1>1, <1>2, PTL DEF Spec

(* Status and audit log of a change request never tell different stories:  *)
(* approve and apply write both or, on any failure, neither.               *)
THEOREM StatusAudited == Spec => []StatusIsAudited
<1>1. IInv => StatusIsAudited
  BY DEF IInv
<1>2. QED
  BY <1>1, Invariance, PTL

(* The ids of write_audit are in causal order.                             *)
THEOREM AuditCausal == Spec => []AuditIsCausal
<1>1. IInv => AuditIsCausal
  BY DEF IInv
<1>2. QED
  BY <1>1, Invariance, PTL

(* A 2xx answer of create, approve or apply is always backed by a          *)
(* committed row.                                                          *)
THEOREM SuccessDurable == Spec => []SuccessIsDurable
<1>1. IInv => SuccessIsDurable
  BY DEF IInv
<1>2. QED
  BY <1>1, Invariance, PTL

(* What an apply has done to Unleash is in the log, or its client has not  *)
(* been told that it was refused or that it succeeded.                     *)
THEOREM NoSilentEffect == Spec => []UnloggedEffectsAreErrors
<1>1. IInv => UnloggedEffectsAreErrors
  BY DEF IInv
<1>2. QED
  BY <1>1, Invariance, PTL

(* No prev_hash that write_audit stores points to a row that was rolled    *)
(* back or that has a higher id.                                           *)
THEOREM ChainLinksCommitted == Spec => []LinksAreCommitted
<1>1. IInv => LinksAreCommitted
  BY DEF IInv
<1>2. QED
  BY <1>1, Invariance, PTL

(* An applied row in the log: the request that wrote it, and what Unleash  *)
(* told that request.                                                      *)
LEMMA AppliedRowOwner ==
  ASSUME TypeInv, OwnerInv, NEW row \in audit, row.content.action = "applied"
  PROVE  /\ row.by \in Requests /\ row = AuditRow(row.by)
         /\ call[row.by].op = "apply" /\ unleash[row.by] = "ok"
<1>1. /\ row.by \in Requests /\ row = AuditRow(row.by) /\ pc[row.by] = "done"
      /\ unleash[row.by] = IF call[row.by].op = "apply" THEN "ok" ELSE "none"
  BY DEF OwnerInv, LegacyRow
<1>2. call[row.by] \in Call
  BY <1>1 DEF TypeInv, TypeOK
<1>3. call[row.by].op = "apply"
  BY <1>1, <1>2, RowFields DEF Call
<1>4. QED
  BY <1>1, <1>3

(* No change_request_applied row is committed before its change has        *)
(* reached Unleash.                                                        *)
THEOREM NoOverclaim == Spec => []AuditNeverOverclaims
<1>1. IInv => AuditNeverOverclaims
  BY AppliedRowOwner DEF IInv, AuditNeverOverclaims, Rows, ControlInv, Control
<1>2. QED
  BY <1>1, Invariance, PTL

(* Nothing reaches Unleash without a committed approval and a permission.  *)
THEOREM OnlyApprovedEffects == Spec => []EffectsAreApproved
<1>1. IInv => EffectsAreApproved
  <2>1. ASSUME IInv PROVE EffectsAreApproved
    BY <2>1 DEF IInv, TypeInv, TypeOK, GrantInv, Grant, EffectsAreApproved
  <2>2. QED
    BY <2>1
<1>2. QED
  BY <1>1, Invariance, PTL

(* One committed application per live key, however many clients retry.     *)
THEOREM OneApplication == Spec => []OneApplicationPerKey
<1>1. ASSUME IInv, NEW k \in Keys \ ExpiringKeys,
             NEW p \in AppliedRowsOf(k), NEW q \in AppliedRowsOf(k)
      PROVE  p = q
  <2>1. p.by = q.by
    BY <1>1 DEF IInv, KeyInv
  <2>2. p = AuditRow(p.by) /\ q = AuditRow(q.by)
    BY <1>1, AppliedRowOwner DEF IInv, AppliedRowsOf
  <2>3. QED
    BY <2>1, <2>2
<1>2. IInv => OneApplicationPerKey
  BY <1>1 DEF OneApplicationPerKey
<1>3. QED
  BY <1>2, Invariance, PTL

(* All 200 answers of apply under one live key carry the same body.        *)
THEOREM SameBody == Spec => []SameKeySameBody
<1>1. IInv => SameKeySameBody
  BY DEF IInv, AnswerInv, SameKeySameBody
<1>2. QED
  BY <1>1, Invariance, PTL

-------------------------------------------------------------------------------
(***************************************************************************)
(* 3  The hash chain                                                       *)
(*                                                                         *)
(* What concurrent handlers do to the hash chain of the audit log: when a  *)
(* commit breaks it, and that nothing mends it.                            *)
(***************************************************************************)

(* InsertAudit is the only step that draws an id, and it numbers its own   *)
(* request.                                                                *)
LEMMA Numbering ==
  ASSUME TypeInv, NEW r \in Requests, StepOf(r)
  PROVE  \/ InsertAudit(r)
         \/ UNCHANGED << rowId, nextId >> /\ (Numbered(r)' => Numbered(r))
<1> USE DEF TypeInv, TypeOK, Numbered, Goto, Leave, Rollback
<1>1. CASE \E u \in Users, c \in CRs : BeginCreate(r, u, c)
  BY <1>1 DEF BeginCreate, Receive
<1>2. CASE \E u \in Users, c \in CRs : BeginApprove(r, u, c)
  BY <1>2 DEF BeginApprove, Receive
<1>3. CASE \E u \in Users, c \in CRs, k \in Keys \cup {NoKey} : BeginApply(r, u, c, k)
  BY <1>3 DEF BeginApply, Receive
<1>4. CASE LoadForApply(r)
  BY <1>4 DEF LoadForApply
<1>5. CASE CallUnleash(r)
  BY <1>5 DEF CallUnleash
<1>6. CASE ReadTail(r)
  BY <1>6 DEF ReadTail
<1>7. CASE UpdateCR(r)
  BY <1>7 DEF UpdateCR
<1>8. CASE RaiseBadGateway(r) \/ CommitConflict(r) \/ Abort(r)
  BY <1>8 DEF RaiseBadGateway, CommitConflict, Abort
<1>9. CASE Commits(r)
  BY <1>9 DEF Commits, Commit, CommitUnacknowledged, Install
<1>10. QED
  BY <1>1, <1>2, <1>3, <1>4, <1>5, <1>6, <1>7, <1>8, <1>9
  DEF StepOf, Begin, SentKeys, Proceed, Commits

(* NumberInv says two things: about the requests, and about the rows.      *)
RequestNumbers ==
  /\ LegacyRows < nextId
  /\ \A r \in Requests :
       /\ rowId[r] # 0 => LegacyRows < rowId[r] /\ rowId[r] < nextId
       /\ Numbered(r) => rowId[r] # 0
  /\ \A p, q \in Requests : rowId[p] = rowId[q] /\ rowId[p] # 0 => p = q

RowNumber(row) ==
  /\ row.by = None => row.id \in 1..LegacyRows
  /\ row.by # None => rowId[row.by] # 0
  /\ row.by # None /\ ChainEnabled => row.prev \in Seq(Content)

LEMMA NumberParts == NumberInv <=> RequestNumbers /\ \A row \in audit : RowNumber(row)
BY DEF NumberInv, RequestNumbers, RowNumber

LEMMA RequestNumberStep ==
  ASSUME TypeInv, RequestNumbers, NEW r \in Requests, StepOf(r)
  PROVE  RequestNumbers' /\ \A q \in Requests : rowId[q] # 0 => rowId'[q] # 0
<1>0. /\ nextId \in Nat /\ LegacyRows \in Nat /\ rowId \in [Requests -> Nat]
      /\ \A q \in Requests : q # r => (Numbered(q)' <=> Numbered(q))
  BY OthersFrame, GovernanceAssumption DEF Same, Numbered, TypeInv, TypeOK
<1>1. CASE InsertAudit(r)
  <2>1. rowId' = [rowId EXCEPT ![r] = nextId] /\ nextId' = nextId + 1
    BY <1>1 DEF InsertAudit
  <2>2. rowId'[r] = nextId /\ \A q \in Requests : q # r => rowId'[q] = rowId[q]
    BY <1>0, <2>1
  <2>3. QED
    BY <1>0, <2>1, <2>2 DEF RequestNumbers
<1>2. CASE UNCHANGED << rowId, nextId >> /\ (Numbered(r)' => Numbered(r))
  BY <1>0, <1>2 DEF RequestNumbers
<1>3. QED
  BY <1>1, <1>2, Numbering

LEMMA NumberStep ==
  ASSUME TypeInv, NumberInv, [Next]_vars
  PROVE  NumberInv'
<1>1. CASE EnvironmentStep
  <2>1. UNCHANGED << audit, nextId, rowId, pc >>
    BY <1>1, EnvironmentFrame
  <2>2. QED
    BY <2>1 DEF NumberInv, Numbered
<1>2. ASSUME NEW r \in Requests, StepOf(r) PROVE NumberInv'
  <2>1. RequestNumbers' /\ \A q \in Requests : rowId[q] # 0 => rowId'[q] # 0
    BY <1>2, RequestNumberStep, NumberParts
  <2>2. \A row \in audit : row.by \in Requests \cup {None}
    BY DEF TypeInv, TypeOK, AuditRows
  <2>3. \A row \in audit : RowNumber(row)'
    BY <2>1, <2>2, NumberParts DEF RowNumber
  <2>4. CASE Commits(r)
    <3>1. pc[r] = "commit" /\ rowId' = rowId /\ audit' = audit \cup {AuditRow(r)}
      BY <2>4, CommitFrame, CommitAudit
    <3>2. rowId[r] # 0
      BY <3>1, NumberParts DEF RequestNumbers, Numbered
    <3>3. ChainEnabled => tail[r] \in Seq(Content)
      BY <3>1 DEF TypeInv, TailIsHash
    <3>4. AuditRow(r).by = r /\ AuditRow(r).prev = tail[r] /\ r # None
      BY RowFields, GovernanceAssumption
    <3> DEFINE new == AuditRow(r)
    <3>5. new.by = r /\ new.prev = tail[r]
      BY <3>4
    <3>6. audit' = audit \cup {new}
      BY <3>1
    <3> HIDE DEF new
    <3>7. \A row \in audit' : RowNumber(row)'
      BY <2>3, <3>1, <3>2, <3>3, <3>4, <3>5, <3>6 DEF RowNumber
    <3>8. QED
      BY <2>1, <3>7 DEF NumberInv, RequestNumbers, RowNumber
  <2>5. CASE ~Commits(r)
    <3>1. audit' = audit
      BY <1>2, <2>5, OwnFrame
    <3>2. QED
      BY <2>1, <2>3, <3>1 DEF NumberInv, RequestNumbers, RowNumber
  <2>6. QED
    BY <2>4, <2>5
<1>3. QED
  BY <1>1, <1>2, StepCases

(* The ids write_audit gets from the sequence, in any order of inserts and *)
(* commits, are different from each other and from those of older rows.    *)
THEOREM IdsAreUnique == Spec => []NumberInv
<1>1. Init => NumberInv
  <2>1. ASSUME Init PROVE NumberInv
    <3>1. LegacyRows \in Nat /\ nextId = LegacyRows + 1
      BY <2>1, GovernanceAssumption DEF Init
    <3>2. \A row \in audit : row.by = None /\ row.id \in 1..LegacyRows
      BY <2>1 DEF Init, LegacyRow
    <3>3. \A r \in Requests : rowId[r] = 0 /\ ~Numbered(r)
      BY <2>1 DEF Init, Numbered
    <3>4. QED
      BY <3>1, <3>2, <3>3 DEF NumberInv
  <2>2. QED
    BY <2>1
<1>2. TypeInv /\ NumberInv /\ [Next]_vars => NumberInv'
  BY NumberStep
<1>3. IInv => TypeInv
  BY DEF IInv
<1>4. QED
  BY <1>1, <1>2, <1>3, Invariance, PTL DEF Spec
-------------------------------------------------------------------------------
(* The committed rows as a log in the sense of AuditChainProofs.           *)

LEMMA RowOrigin ==
  ASSUME IInv, NumberInv, NEW row \in audit
  PROVE  /\ row.id \in Nat /\ row.content \in Content
         /\ \/ /\ row.by = None /\ row = LegacyRow(row.id) /\ Legacy(row)
               /\ row.id \in 1..LegacyRows
            \/ /\ row.by \in Requests /\ row.by # None /\ pc[row.by] = "done"
               /\ row = AuditRow(row.by)
               /\ row.id = rowId[row.by] /\ LegacyRows < row.id
<1>1. row.id \in Nat /\ row.content \in Content
  BY DEF IInv, TypeInv, TypeOK, AuditRows
<1>2. CASE row.by = None /\ row = LegacyRow(row.id)
  BY <1>1, <1>2 DEF NumberInv, Legacy, LegacyRow
<1>3. CASE row.by \in Requests /\ pc[row.by] = "done" /\ row = AuditRow(row.by)
  <2>1. row.by # None
    BY <1>3, GovernanceAssumption
  <2>2. row.id = rowId[row.by]
    BY <1>3, RowFields
  <2>3. LegacyRows < rowId[row.by]
    BY <1>3, <2>1 DEF NumberInv
  <2>4. QED
    BY <1>1, <1>3, <2>1, <2>2, <2>3
<1>4. QED
  BY <1>2, <1>3 DEF IInv, OwnerInv

LEMMA AuditIsLog ==
  ASSUME IInv, NumberInv
  PROVE  IsLog(audit)
<1>1. SUFFICES ASSUME NEW p \in audit, NEW q \in audit, p.id = q.id PROVE p = q
  BY RowOrigin DEF IsLog
<1>2. LegacyRows \in Nat /\ p.id \in Nat
  BY RowOrigin, GovernanceAssumption
<1>3. CASE p.by = None
  <2>1. p = LegacyRow(p.id) /\ p.id \in 1..LegacyRows
    BY <1>3, RowOrigin
  <2>2. ~(LegacyRows < q.id)
    BY <1>1, <1>2, <2>1
  <2>3. q = LegacyRow(q.id)
    BY <2>2, RowOrigin
  <2>4. QED
    BY <1>1, <2>1, <2>3
<1>4. CASE p.by # None
  <2>1. p.by \in Requests /\ p = AuditRow(p.by) /\ p.id = rowId[p.by] /\ LegacyRows < p.id
    BY <1>4, RowOrigin
  <2>2. q.by \in Requests /\ q = AuditRow(q.by) /\ q.id = rowId[q.by]
    <3>1. q.id \notin 1..LegacyRows
      BY <1>1, <1>2, <2>1
    <3>2. QED
      BY <3>1, RowOrigin
  <2>3. rowId[p.by] # 0
    BY <1>2, <2>1
  <2>4. p.by = q.by
    BY <1>1, <2>1, <2>2, <2>3 DEF NumberInv
  <2>5. QED
    BY <2>1, <2>2, <2>4
<1>5. QED
  BY <1>3, <1>4

LEMMA AuditIsHashed ==
  ASSUME IInv, NumberInv, ChainEnabled
  PROVE  /\ Hashed(audit, Content)
         /\ \A q \in audit : q.hash = NoHash => q.prev = NoHash /\ q.id \in 1..LegacyRows
<1>1. ASSUME NEW q \in audit, q.by # None
      PROVE  /\ q.prev \in Seq(Content) /\ q.content \in Content
             /\ q.hash = RowHash(q.prev, q.content) /\ q.hash # NoHash
  <2>1. q.prev \in Seq(Content)
    BY <1>1 DEF NumberInv
  <2>2. q.by \in Requests /\ q = AuditRow(q.by) /\ q.content \in Content
    BY <1>1, RowOrigin
  <2>3. q.hash = RowHash(tail[q.by], q.content) /\ q.prev = tail[q.by]
    BY <2>2, RowFields
  <2>4. QED
    BY <2>1, <2>2, <2>3, HashDeterminesPrev, HashAssumption
<1>2. QED
  BY <1>1, RowOrigin, HashAssumption DEF Hashed, Legacy

LEMMA ChainedLog ==
  IInv /\ NumberInv => IsLog(audit) /\ (ChainEnabled => Hashed(audit, Content))
BY AuditIsLog, AuditIsHashed

(* With the chain switched off there is nothing to verify.                 *)
LEMMA UnchainedIsOk ==
  ASSUME IInv, NumberInv, ~ChainEnabled
  PROVE  ChainOk(audit)
<1>1. ASSUME NEW q \in audit PROVE Legacy(q)
  <2>1. CASE q.by = None
    BY <2>1, RowOrigin, GovernanceAssumption
  <2>2. CASE q.by # None
    <3>1. q.by \in Requests /\ q = AuditRow(q.by)
      BY <2>2, RowOrigin
    <3>2. q.hash = NoHash /\ q.prev = tail[q.by]
      BY <3>1, RowFields
    <3>3. tail[q.by] = NoHash
      BY <3>1 DEF IInv, LinkInv, Link
    <3>4. QED
      BY <3>2, <3>3 DEF Legacy
  <2>3. QED
    BY <2>1, <2>2
<1>2. QED
  BY <1>1 DEF ChainOk, Broken, Intact

(* A commit of any request, however late its transaction read the tail.    *)
LEMMA CommitChain ==
  ASSUME IInv, NumberInv, IInv', NumberInv', ChainEnabled,
         NEW r \in Requests, Commits(r)
  PROVE  /\ AuditRow(r) \notin audit
         /\ audit' = audit \cup {AuditRow(r)}
         /\ ChainOk(audit') <=>
              ChainOk(audit) /\ IsLatestHash(audit, AuditRow(r).prev)
<1> DEFINE row == AuditRow(r)
<1>1. /\ row.by = r /\ row.id = rowId[r] /\ row.prev = tail[r]
      /\ row.hash = RowHash(row.prev, row.content)
  BY RowFields
<1>2. pc[r] = "commit" /\ audit' = audit \cup {row}
  BY CommitFrame, CommitAudit DEF IInv
<1> HIDE DEF row
<1>3. row \notin audit
  BY <1>1, <1>2, RowOrigin, GovernanceAssumption
<1>4. IsLog(audit \cup {row}) /\ Hashed(audit \cup {row}, Content)
  <2>1. IsLog(audit)' /\ Hashed(audit, Content)'
    BY ChainedLog, PTL
  <2>2. QED
    BY <1>2, <2>1 DEF IsLog, Hashed, Legacy
<1>5. row.id \in Nat /\ LegacyRows < row.id
  <2>1. Numbered(r)
    BY <1>2 DEF Numbered
  <2>2. QED
    BY <1>1, <2>1 DEF NumberInv, IInv, TypeInv, TypeOK
<1>6. \A q \in audit : q.hash = NoHash => q.prev = NoHash /\ q.id < row.id
  BY <1>5, AuditIsHashed, GovernanceAssumption
<1>7. row.prev \in Seq(Content) /\ row.content \in Content
  <2>1. row.prev \in Seq(Content)
    BY <1>1, <1>2 DEF IInv, TypeInv, TailIsHash
  <2>2. ~Legacy(row)
    BY <2>1, HashAssumption DEF Legacy
  <2>3. QED
    BY <1>4, <2>1, <2>2 DEF Hashed
<1>8. ASSUME NEW s \in audit \cup {row}
      PROVE  \/ Legacy(s)
             \/ s.prev = Genesis
             \/ \E q \in audit : q.id < s.id /\ q.hash = s.prev
  <2>1. CASE s \in audit
    BY <2>1 DEF IInv, LinksAreCommitted
  <2>2. CASE s = row
    BY <1>1, <1>2, <2>2 DEF IInv, LinkInv, Link, Numbered
  <2>3. QED
    BY <2>1, <2>2
<1>9. ChainOk(audit \cup {row}) <=> ChainOk(audit) /\ IsLatestHash(audit, row.prev)
  BY <1>1, <1>3, <1>4, <1>6, <1>7, <1>8, ChainSurvives
<1>10. QED
  BY <1>2, <1>3, <1>9 DEF row

LEMMA ChainStep ==
  ASSUME IInv, NumberInv, IInv', NumberInv', [Next]_vars
  PROVE  /\ ~ChainOk(audit) => ~ChainOk(audit')
         /\ ChainEnabled /\ ChainOk(audit) =>
              \A row \in audit' \ audit :
                ChainOk(audit') <=> IsLatestHash(audit, row.prev)
<1>1. CASE audit' = audit
  BY <1>1
<1>2. CASE ~ChainEnabled
  BY <1>2, UnchainedIsOk
<1>3. ASSUME NEW r \in Requests, Commits(r), ChainEnabled
      PROVE  /\ ~ChainOk(audit) => ~ChainOk(audit')
             /\ ChainOk(audit) =>
                  \A row \in audit' \ audit :
                    ChainOk(audit') <=> IsLatestHash(audit, row.prev)
  BY <1>3, CommitChain
<1>4. audit' = audit \/ \E r \in Requests : Commits(r)
  <2>1. CASE EnvironmentStep
    BY <2>1, EnvironmentFrame DEF IInv
  <2>2. ASSUME NEW r \in Requests, StepOf(r) PROVE audit' = audit \/ Commits(r)
    BY <2>2, OwnFrame DEF IInv
  <2>3. QED
    BY <2>1, <2>2, StepCases
<1>5. QED
  BY <1>1, <1>2, <1>3, <1>4

(* A commit breaks the chain exactly when another one has come between its *)
(* read of the tail and itself: no other order of ids, inserts and commits *)
(* matters, whatever the number of requests and whatever fails.            *)
THEOREM OnlyStaleTailsBreak == Spec => StaleTailBreaksChain
<1>1. IInv /\ NumberInv /\ IInv' /\ NumberInv' /\ [Next]_vars
        => [ChainEnabled /\ ChainOk(audit) =>
              \A row \in audit' \ audit :
                ChainOk(audit') <=> IsLatestHash(audit, row.prev)]_vars
  BY ChainStep
<1>2. QED
  BY <1>1, Invariance, IdsAreUnique, PTL DEF Spec, StaleTailBreaksChain

(* Once forked, the log never verifies again.                              *)
THEOREM ForksAreForever == Spec => BrokenStaysBroken
<1>1. IInv /\ NumberInv /\ IInv' /\ NumberInv' /\ [Next]_vars
        => [~ChainOk(audit) => ~ChainOk(audit')]_vars
  BY ChainStep
<1>2. QED
  BY <1>1, Invariance, IdsAreUnique, PTL DEF Spec, BrokenStaysBroken

-------------------------------------------------------------------------------
(***************************************************************************)
(* 4  One worker at a time                                                 *)
(*                                                                         *)
(* What the documents say of the write path is true of one worker: when    *)
(* handlers run one at a time, whatever fails, what a handler has read is  *)
(* still so when it commits.                                               *)
(***************************************************************************)

AtMostOne == \A p, q \in Running : p = q

(* What the handler of r has read of the database is still so.             *)
StillTrue(r) ==
  /\ pc[r] \in {"load", "unleash"} \/ Writing(r) =>
       (call[r].op = "apply" => keys[call[r].key].state # "live")
  /\ Writing(r) /\ call[r].op = "approve" => crs[call[r].cr].status = "pending"
  /\ pc[r] = "unleash" \/ (Writing(r) /\ call[r].op = "apply") =>
       crs[call[r].cr].status = "approved"
  /\ ChainEnabled /\ pc[r] \in {"insert", "update", "commit", "raise"} =>
       IsLatestHash(audit, tail[r])

SerialInv ==
  /\ AtMostOne
  /\ \A r \in Requests : StillTrue(r)
  /\ ChainOk(audit)

LEMMA NobodyRuns ==
  ASSUME Workers = 1, AtMostOne, Cardinality(Running) < Workers
  PROVE  Running = {}
<1>1. SUFFICES ASSUME NEW r \in Running PROVE FALSE
  OBVIOUS
<1>2. Running = {r}
  BY DEF AtMostOne
<1>3. Cardinality({r}) = 1
  BY FS_Singleton
<1>4. Cardinality(Running) = 1
  BY <1>2, <1>3
<1>5. QED
  BY <1>4

(* The first step of a handler is taken when no other one runs, every      *)
(* other step by the one that runs.                                        *)
LEMMA RunsAlone ==
  ASSUME TypeInv, Workers = 1, AtMostOne, NEW r \in Requests, StepOf(r)
  PROVE  /\ \A q \in Requests : q # r => q \notin Running /\ q \notin Running'
         /\ AtMostOne'
<1>1. ASSUME Begin(r) PROVE Running = {}
  BY <1>1, NobodyRuns DEF Begin, BeginCreate, BeginApprove, BeginApply, Receive
<1>2. ASSUME ~Begin(r) PROVE r \in Running
  <2>1. pc[r] # "done" /\ pc[r] # "idle"
    BY <1>2 DEF StepOf, Proceed, Abort, Running, LoadForApply, CallUnleash, ReadTail,
       InsertAudit, UpdateCR, RaiseBadGateway, Commit, CommitConflict, CommitUnacknowledged
  <2>2. QED
    BY <2>1 DEF Running
<1>3. \A q \in Requests : q # r => q \notin Running
  BY <1>1, <1>2 DEF AtMostOne
<1>4. \A q \in Requests : q # r => q \notin Running'
  BY <1>3, OthersFrame DEF Same, Running
<1>5. Running' \subseteq {r}
  BY <1>4 DEF Running
<1>6. QED
  BY <1>3, <1>4, <1>5 DEF AtMostOne

LEMMA StillTrueStep ==
  ASSUME IInv, SerialInv, Workers = 1, NEW r \in Requests, StepOf(r)
  PROVE  StillTrue(r)'
<1>0. StillTrue(r) /\ TypeInv /\ Control(r)
  BY DEF SerialInv, IInv, ControlInv
<1> USE <1>0 DEF Writing, Goto, Leave, Rollback, TypeInv, TypeOK
<1>1. CASE \E u \in Users, c \in CRs : BeginCreate(r, u, c)
  BY <1>1 DEF BeginCreate, Receive, StillTrue
<1>2. CASE \E u \in Users, c \in CRs : BeginApprove(r, u, c)
  <2>1. PICK u \in Users, c \in CRs : BeginApprove(r, u, c)
    BY <1>2
  <2>2. CASE Refusal(u, c, "pending") = 0
    <3>1. crs[c].status = "pending"
      BY <2>2, PassedChecks
    <3>2. QED
      BY <2>1, <2>2, <3>1 DEF BeginApprove, Receive, StillTrue
  <2>3. CASE Refusal(u, c, "pending") # 0
    BY <2>1, <2>3 DEF BeginApprove, Receive, StillTrue
  <2>4. QED
    BY <2>2, <2>3
<1>3. CASE \E u \in Users, c \in CRs, k \in Keys \cup {NoKey} : BeginApply(r, u, c, k)
  BY <1>3 DEF BeginApply, Receive, StillTrue
<1>4. CASE LoadForApply(r)
  <2>1. CASE Refusal(call[r].user, call[r].cr, "approved") = 0
    <3>1. crs[call[r].cr].status = "approved"
      BY <2>1, PassedChecks
    <3>2. QED
      BY <1>4, <2>1, <3>1 DEF LoadForApply, StillTrue
  <2>2. CASE Refusal(call[r].user, call[r].cr, "approved") # 0
    BY <1>4, <2>2 DEF LoadForApply, StillTrue
  <2>3. QED
    BY <2>1, <2>2
<1>5. CASE CallUnleash(r)
  BY <1>5 DEF CallUnleash, StillTrue, Control
<1>6. CASE ReadTail(r)
  <2>1. ChainEnabled => IsLatestHash(audit, tail'[r])
    BY <1>6 DEF ReadTail, VisibleRows
  <2>2. QED
    BY <1>6, <2>1 DEF ReadTail, StillTrue, IsLatestHash, IsLast
<1>7. CASE InsertAudit(r)
  BY <1>7 DEF InsertAudit, StillTrue, IsLatestHash, IsLast
<1>8. CASE UpdateCR(r)
  BY <1>8 DEF UpdateCR, StillTrue, IsLatestHash, IsLast
<1>9. CASE RaiseBadGateway(r) \/ CommitConflict(r) \/ Abort(r)
  BY <1>9 DEF RaiseBadGateway, CommitConflict, Abort, StillTrue
<1>10. CASE Commits(r)
  BY <1>10, CommitFrame DEF StillTrue
<1>11. QED
  BY <1>1, <1>2, <1>3, <1>4, <1>5, <1>6, <1>7, <1>8, <1>9, <1>10
  DEF StepOf, Begin, SentKeys, Proceed, Commits
LEMMA UnchainedLog ==
  IInv /\ NumberInv => (~ChainEnabled => ChainOk(audit))
BY UnchainedIsOk

LEMMA SerialStep ==
  ASSUME IInv, NumberInv, IInv', NumberInv', SerialInv, Workers = 1, [Next]_vars
  PROVE  SerialInv'
<1>0. TypeInv /\ AtMostOne
  BY DEF IInv, SerialInv
<1>1. CASE EnvironmentStep
  <2>1. UNCHANGED << crs, audit, call, tail, pc >>
    BY <1>0, <1>1, EnvironmentFrame
  <2>2. \A k \in Keys : keys[k].state # "live" => keys'[k].state # "live"
    BY <1>0, <1>1 DEF EnvironmentStep, Expire, Cleanup, NoKeyRow, vars, TypeInv, TypeOK, KeyRow
  <2>3. AtMostOne' /\ ChainOk(audit')
    BY <2>1 DEF AtMostOne, Running, SerialInv
  <2>4. ASSUME NEW r \in Requests PROVE StillTrue(r)'
    <3>1. StillTrue(r) /\ Control(r)
      BY DEF SerialInv, IInv, ControlInv
    <3>2. IsLatestHash(audit, tail[r]) => IsLatestHash(audit, tail[r])'
      BY <2>1 DEF IsLatestHash, IsLast
    <3>3. QED
      BY <2>1, <2>2, <3>1, <3>2 DEF StillTrue, Writing, Control
  <2>5. QED
    BY <2>3, <2>4 DEF SerialInv
<1>2. ASSUME NEW r \in Requests, StepOf(r) PROVE SerialInv'
  <2>1. AtMostOne'
    BY <1>0, <1>2, RunsAlone
  <2>2. ASSUME NEW q \in Requests, q # r PROVE StillTrue(q)'
    <3>1. q \notin Running'
      BY <1>0, <1>2, <2>2, RunsAlone
    <3>2. pc'[q] \in {"idle", "done"}
      BY <3>1 DEF Running
    <3>3. QED
      BY <3>2 DEF StillTrue, Writing
  <2>3. StillTrue(r)'
    BY <1>2, StillTrueStep
  <2>4. ChainOk(audit')
    <3>1. CASE ~Commits(r)
      BY <1>0, <1>2, <3>1, OwnFrame DEF SerialInv
    <3>2. CASE Commits(r) /\ ChainEnabled
      <4>1. pc[r] = "commit"
        BY <1>0, <3>2, CommitFrame
      <4>2. IsLatestHash(audit, tail[r])
        BY <3>2, <4>1 DEF SerialInv, StillTrue
      <4>3. AuditRow(r).prev = tail[r]
        BY RowFields
      <4>4. QED
        BY <3>2, <4>2, <4>3, CommitChain DEF SerialInv
    <3>3. CASE ~ChainEnabled
      <4>1. (~ChainEnabled => ChainOk(audit))'
        BY UnchainedLog, PTL
      <4>2. QED
        BY <3>3, <4>1 DEF ChainOk, Broken, Intact, Carries, Legacy, IsLast
    <3>4. QED
      BY <3>1, <3>2, <3>3
  <2>5. QED
    BY <2>1, <2>2, <2>3, <2>4 DEF SerialInv
<1>3. QED
  BY <1>1, <1>2, StepCases

LEMMA InitRows ==
  ASSUME Init
  PROVE  /\ Running = {}
         /\ \A row \in audit : Legacy(row) /\ row.content.action = "legacy"
BY DEF Init, Running, LegacyRow, Legacy

(* One handler at a time: nothing a handler has read is stale when it      *)
(* commits, and verify_chain answers ok (app/audit.py:63), whatever fails. *)
THEOREM OneWorkerIsSerial ==
  ASSUME Workers = 1
  PROVE  Spec => [](SerialInv /\ ChainExtendedAtomically)
<1>1. Init => SerialInv
  <2>1. ASSUME Init PROVE SerialInv
    <3>1. AtMostOne /\ ChainOk(audit)
      BY <2>1, InitRows DEF AtMostOne, ChainOk, Broken, Intact
    <3>2. \A r \in Requests : pc[r] = "idle"
      BY <2>1 DEF Init
    <3>3. QED
      BY <3>1, <3>2 DEF SerialInv, StillTrue, Writing
  <2>2. QED
    BY <2>1
<1>2. IInv /\ NumberInv /\ IInv' /\ NumberInv' /\ SerialInv /\ [Next]_vars => SerialInv'
  BY SerialStep
<1>3. SerialInv => ChainExtendedAtomically
  BY DEF SerialInv, ChainExtendedAtomically
<1>4. QED
  BY <1>1, <1>2, <1>3, Invariance, IdsAreUnique, PTL DEF Spec
-------------------------------------------------------------------------------
(* tests/test_concurrency.py:3.  A request whose change has reached Unleash *)
(* is about to store its key, or has stored it.                            *)
StoresKey(r) ==
  /\ unleash[r] # "error"
  /\ r \in effects => call[r].key \in Keys
  /\ r \in effects /\ call[r].key \notin ExpiringKeys =>
       \/ Writing(r)
       \/ keys[call[r].key].state = "live" /\ keys[call[r].key].body.by = r

LEMMA CommittingKey ==
  ASSUME IInv, SerialInv, NEW r \in Requests, pc[r] = "commit", call[r].op = "apply",
         call[r].key \notin ExpiringKeys
  PROVE  call[r].key \in Keys /\ keys[call[r].key].state = "none"
<1>1. call[r].key \in Keys
  BY DEF IInv, ControlInv, Control
<1>2. keys[call[r].key].state # "live"
  BY DEF SerialInv, StillTrue, Writing
<1>3. keys[call[r].key].state # "expired"
  BY <1>1 DEF IInv, KeyInv
<1>4. QED
  BY <1>1, <1>2, <1>3 DEF IInv, TypeInv, TypeOK, KeyRow

LEMMA StoresKeyStep ==
  ASSUME IInv, SerialInv, Workers = 1, Failures \subseteq {"commit"},
         \A q \in Requests : StoresKey(q), [Next]_vars
  PROVE  \A q \in Requests : StoresKey(q)'
<1>0. TypeInv /\ AtMostOne
  BY DEF IInv, SerialInv
<1>1. CASE EnvironmentStep
  <2>1. \A q \in Requests : Same(q)
    BY <1>0, <1>1, EnvironmentFrame
  <2>2. \A k \in Keys \ ExpiringKeys : keys[k].state = "live" => keys'[k] = keys[k]
    BY <1>0, <1>1 DEF EnvironmentStep, Expire, Cleanup, vars, TypeInv, TypeOK
  <2>3. QED
    BY <2>1, <2>2 DEF StoresKey, Same, Writing
<1>2. ASSUME NEW r \in Requests, StepOf(r) PROVE \A q \in Requests : StoresKey(q)'
  <2>0. StoresKey(r) /\ Control(r)
    BY DEF IInv, ControlInv
  <2>1. CASE Commits(r)
    <3>1. /\ pc[r] = "commit" /\ ~KeyTaken(r)
          /\ UNCHANGED << call, unleash, effects >>
      BY <1>0, <2>1, CommitFrame
    <3>2. /\ call[r].op # "apply" => keys' = keys
          /\ call[r].op = "apply" =>
               keys' = [keys EXCEPT ![call[r].key] = [state |-> "live", body |-> FreshBody(r)]]
      BY <2>1, CommitKey
    <3>3. StoresKey(r)'
      <4>1. CASE r \in effects /\ call[r].key \notin ExpiringKeys
        <5>1. call[r].op = "apply" /\ call[r].key \in Keys
          BY <2>0, <3>1, <4>1, CommittingKey DEF Control
        <5>2. keys'[call[r].key] = [state |-> "live", body |-> FreshBody(r)]
          BY <1>0, <3>2, <5>1 DEF TypeInv, TypeOK
        <5>3. FreshBody(r).by = r
          BY <5>1 DEF FreshBody
        <5>4. QED
          BY <2>0, <3>1, <5>2, <5>3 DEF StoresKey
      <4>2. CASE ~(r \in effects /\ call[r].key \notin ExpiringKeys)
        BY <2>0, <3>1, <4>2 DEF StoresKey
      <4>3. QED
        BY <4>1, <4>2
    <3>4. ASSUME NEW q \in Requests, q # r PROVE StoresKey(q)'
      <4>1. q \notin Running /\ Same(q)
        BY <1>0, <1>2, <3>4, RunsAlone, OthersFrame
      <4>2. ~Writing(q)
        BY <4>1 DEF Running, Writing
      <4>3. ASSUME q \in effects, call[q].key \notin ExpiringKeys
            PROVE  keys[call[q].key].state = "live" /\ keys[call[q].key].body.by = q
                   /\ keys'[call[q].key] = keys[call[q].key]
        <5>1. keys[call[q].key].state = "live" /\ keys[call[q].key].body.by = q
          BY <4>2, <4>3 DEF StoresKey
        <5>2. call[r].op = "apply" => call[q].key # call[r].key
          BY <3>1, <5>1 DEF KeyTaken
        <5>3. call[q].key \in Keys
          BY <4>3 DEF StoresKey
        <5>4. keys'[call[q].key] = keys[call[q].key]
          BY <1>0, <3>2, <5>2, <5>3 DEF TypeInv, TypeOK
        <5>5. QED
          BY <5>1, <5>4
      <4>4. QED
        BY <4>1, <4>3 DEF StoresKey, Same
    <3>5. QED
      BY <3>3, <3>4
  <2>2. CASE ~Commits(r)
    <3>1. keys' = keys
      BY <1>0, <1>2, <2>2, OwnFrame
    <3>2. ASSUME NEW q \in Requests, q # r PROVE StoresKey(q)'
      <4>1. Same(q)
        BY <1>0, <1>2, <3>2, OthersFrame
      <4>2. QED
        BY <3>1, <4>1 DEF StoresKey, Same, Writing
    <3>3. StoresKey(r)'
      <4> USE <1>0, <2>0, <3>1 DEF StoresKey, Control, Writing, Goto, Leave, Rollback,
              TypeInv, TypeOK
      <4>1. CASE Begin(r)
        BY <4>1 DEF Begin, SentKeys, BeginCreate, BeginApprove, BeginApply, Receive
      <4>2. CASE LoadForApply(r)
        BY <4>2 DEF LoadForApply
      <4>3. CASE CallUnleash(r)
        BY <4>3 DEF CallUnleash
      <4>4. CASE ReadTail(r) \/ InsertAudit(r) \/ UpdateCR(r)
        BY <4>4 DEF ReadTail, InsertAudit, UpdateCR
      <4>5. CASE RaiseBadGateway(r) \/ Abort(r)
        BY <4>5 DEF RaiseBadGateway, Abort
      <4>6. CASE CommitConflict(r)
        BY <4>6, CommittingKey DEF CommitConflict, KeyTaken
      <4>7. QED
        BY <1>2, <2>2, <4>1, <4>2, <4>3, <4>4, <4>5, <4>6 DEF StepOf, Proceed, Commits
    <3>4. QED
      BY <3>2, <3>3
  <2>3. QED
    BY <2>1, <2>2
<1>3. QED
  BY <1>1, <1>2, StepCases

(* One handler at a time, and no failure but a lost acknowledgement of a   *)
(* COMMIT: the applies that carry one key reach Unleash once.              *)
THEOREM OneWorkerAppliesOnce ==
  ASSUME Workers = 1, Failures \subseteq {"commit"}
  PROVE  Spec => []OneUnleashApplyPerKey
<1>1. Init => \A q \in Requests : StoresKey(q)
  BY DEF Init, StoresKey
<1>2. IInv /\ SerialInv /\ (\A q \in Requests : StoresKey(q)) /\ [Next]_vars
        => (\A q \in Requests : StoresKey(q))'
  BY StoresKeyStep
<1>3. IInv /\ SerialInv /\ (\A q \in Requests : StoresKey(q)) => OneUnleashApplyPerKey
  <2>1. ASSUME IInv, SerialInv, \A q \in Requests : StoresKey(q),
               NEW k \in Keys \ ExpiringKeys, NEW p \in effects, NEW q \in effects,
               call[p].key = k, call[q].key = k
        PROVE  p = q
    <3>1. p \in Requests /\ q \in Requests
      BY <2>1 DEF IInv, TypeInv, TypeOK
    <3>2. call[p].op = "apply" /\ call[q].op = "apply"
      BY <2>1, <3>1 DEF IInv, ControlInv, Control
    <3>3. \A r \in {p, q} : Writing(r) => keys[k].state # "live" /\ r \in Running
      BY <2>1, <3>1, <3>2 DEF SerialInv, StillTrue, Writing, Running
    <3>4. \A r \in {p, q} : Writing(r) \/ (keys[k].state = "live" /\ keys[k].body.by = r)
      BY <2>1, <3>1 DEF StoresKey
    <3>5. QED
      BY <2>1, <3>3, <3>4 DEF SerialInv, AtMostOne
  <2>2. QED
    BY <2>1 DEF OneUnleashApplyPerKey
<1>4. QED
  BY <1>1, <1>2, <1>3, Invariance, OneWorkerIsSerial, PTL DEF Spec
-------------------------------------------------------------------------------
(* app/db/models.py:23.  The commit of one worker is one step of the       *)
(* lifecycle of its change request; no other step changes a status.        *)

(* There are never more rows than ids that have been drawn.                *)
LEMMA AuditIsFinite ==
  ASSUME IInv, NumberInv
  PROVE  IsFiniteSet(audit)
<1> DEFINE f == [row \in audit |-> row.id]
<1>1. nextId \in Nat /\ IsFiniteSet(0..nextId)
  BY FS_Interval DEF IInv, TypeInv, TypeOK
<1>2. \A row \in audit : row.id \in 0..nextId
  BY <1>1, RowOrigin DEF IInv, IdsInv
<1>3. f \in Injection(audit, 0..nextId)
  BY <1>2, AuditIsLog DEF Injection, IsLog, IsInjective
<1>4. QED
  BY <1>1, <1>3, FS_Injection

LEMMA CommittingCR ==
  ASSUME IInv, SerialInv, NEW r \in Requests, Commits(r)
  PROVE  /\ call[r] \in Call /\ unleash[r] # "error"
         /\ call[r].op = "create" => crs[call[r].cr].status = "absent"
         /\ call[r].op = "approve" => crs[call[r].cr].status = "pending"
         /\ call[r].op = "apply" => crs[call[r].cr].status = "approved"
<1>1. pc[r] = "commit"
  BY CommitFrame DEF IInv
<1>2. call[r] \in Call
  BY <1>1 DEF IInv, TypeInv, TypeOK
<1>3. unleash[r] # "error"
  BY <1>1 DEF IInv, ControlInv, Control
<1>4. call[r].op = "create" => crs[call[r].cr].status = "absent"
  BY <1>1 DEF IInv, CreateInv, Writing
<1>5. QED
  BY <1>1, <1>2, <1>3, <1>4 DEF SerialInv, StillTrue, Writing

Status == [c \in CRs |-> crs[c].status]
Approver == [c \in CRs |-> crs[c].approved_by]
Applied == [c \in CRs |-> Cardinality(Rows("applied", c))]

LEMMA CommitStatus ==
  ASSUME IInv, SerialInv, NEW r \in Requests, Commits(r)
  PROVE  /\ Status' = [Status EXCEPT ![call[r].cr] = NewStatus(call[r].op)]
         /\ Approver' = IF call[r].op = "approve"
                        THEN [Approver EXCEPT ![call[r].cr] = call[r].user]
                        ELSE Approver
<1> DEFINE c == call[r].cr
           new == NewCR(r)
<1>1. c \in CRs
  BY CommittingCR DEF Call
<1>2. crs \in [CRs -> ChangeRequest] /\ crs' = [crs EXCEPT ![c] = new]
  BY CommitCR DEF IInv, TypeInv, TypeOK
<1>3. new.status = NewStatus(call[r].op)
  BY DEF NewCR
<1>4. new.approved_by = IF call[r].op = "approve" THEN call[r].user ELSE crs[c].approved_by
  BY DEF NewCR
<1> HIDE DEF c, new
<1>5. Status' = [Status EXCEPT ![c] = NewStatus(call[r].op)]
  BY <1>1, <1>2, <1>3 DEF Status
<1>6. Approver' = [Approver EXCEPT ![c] = new.approved_by]
  BY <1>1, <1>2 DEF Approver
<1>7. CASE call[r].op # "approve"
  <2>1. new.approved_by = Approver[c]
    BY <1>1, <1>4, <1>7 DEF Approver
  <2>2. [Approver EXCEPT ![c] = Approver[c]] = Approver
    BY DEF Approver
  <2>3. QED
    BY <1>5, <1>6, <1>7, <2>1, <2>2 DEF c
<1>8. QED
  BY <1>4, <1>5, <1>6, <1>7 DEF c

LEMMA CommitApplied ==
  ASSUME IInv, NumberInv, SerialInv, NEW r \in Requests, Commits(r)
  PROVE  Applied' = IF call[r].op = "apply"
                    THEN [Applied EXCEPT ![call[r].cr] = @ + 1]
                    ELSE Applied
<1> DEFINE row == AuditRow(r)
<1>1. /\ call[r].op \in {"create", "approve", "apply"} /\ call[r].cr \in CRs
      /\ unleash[r] # "error"
  BY CommittingCR DEF Call
<1>2. /\ row.by = r /\ row.content.cr = call[r].cr
      /\ row.content.action = "applied" <=> call[r].op = "apply"
  BY <1>1, RowFields
<1>3. audit' = audit \cup {row} /\ pc[r] = "commit"
  BY CommitAudit, CommitFrame DEF IInv
<1> HIDE DEF row
<1>4. row \notin audit
  BY <1>2, <1>3, RowOrigin, GovernanceAssumption
<1>5. ASSUME NEW c \in CRs
      PROVE  Rows("applied", c)' = IF call[r].op = "apply" /\ c = call[r].cr
                                   THEN Rows("applied", c) \cup {row}
                                   ELSE Rows("applied", c)
  BY <1>2, <1>3 DEF Rows
<1>6. CASE call[r].op = "apply"
  <2>1. IsFiniteSet(Rows("applied", call[r].cr))
    BY AuditIsFinite, FS_Subset DEF Rows
  <2>2. row \notin Rows("applied", call[r].cr)
    BY <1>4 DEF Rows
  <2>3. Cardinality(Rows("applied", call[r].cr) \cup {row}) =
          Cardinality(Rows("applied", call[r].cr)) + 1
    BY <2>1, <2>2, FS_AddElement
  <2>4. QED
    BY <1>1, <1>5, <1>6, <2>3 DEF Applied
<1>7. CASE call[r].op # "apply"
  BY <1>5, <1>7 DEF Applied
<1>8. QED
  BY <1>6, <1>7

LEMMA LifecycleStep ==
  ASSUME IInv, NumberInv, SerialInv, [Next]_vars
  PROVE  \/ UNCHANGED << Status, Approver, Applied >>
         \/ \E c \in CRs :
              \/ /\ Status[c] = "absent" /\ Status' = [Status EXCEPT ![c] = "pending"]
                 /\ UNCHANGED << Approver, Applied >>
              \/ /\ Status[c] = "pending" /\ Status' = [Status EXCEPT ![c] = "approved"]
                 /\ \E u \in Users : Approver' = [Approver EXCEPT ![c] = u]
                 /\ UNCHANGED Applied
              \/ /\ Status[c] = "approved" /\ Status' = [Status EXCEPT ![c] = "applied"]
                 /\ Applied' = [Applied EXCEPT ![c] = @ + 1]
                 /\ UNCHANGED Approver
<1>1. CASE UNCHANGED << crs, audit >>
  BY <1>1 DEF Status, Approver, Applied, Rows
<1>2. ASSUME NEW r \in Requests, Commits(r)
      PROVE  \E c \in CRs :
              \/ /\ Status[c] = "absent" /\ Status' = [Status EXCEPT ![c] = "pending"]
                 /\ UNCHANGED << Approver, Applied >>
              \/ /\ Status[c] = "pending" /\ Status' = [Status EXCEPT ![c] = "approved"]
                 /\ \E u \in Users : Approver' = [Approver EXCEPT ![c] = u]
                 /\ UNCHANGED Applied
              \/ /\ Status[c] = "approved" /\ Status' = [Status EXCEPT ![c] = "applied"]
                 /\ Applied' = [Applied EXCEPT ![c] = @ + 1]
                 /\ UNCHANGED Approver
  <2>1. /\ call[r].cr \in CRs /\ call[r].user \in Users
        /\ call[r].op \in {"create", "approve", "apply"}
    BY <1>2, CommittingCR DEF Call
  <2>2. Status[call[r].cr] = crs[call[r].cr].status
    BY <2>1 DEF Status
  <2>3. CASE call[r].op = "create"
    BY <1>2, <2>1, <2>2, <2>3, CommittingCR, CommitStatus, CommitApplied DEF NewStatus
  <2>4. CASE call[r].op = "approve"
    BY <1>2, <2>1, <2>2, <2>4, CommittingCR, CommitStatus, CommitApplied DEF NewStatus
  <2>5. CASE call[r].op = "apply"
    BY <1>2, <2>1, <2>2, <2>5, CommittingCR, CommitStatus, CommitApplied DEF NewStatus
  <2>6. QED
    BY <2>1, <2>3, <2>4, <2>5
<1>3. UNCHANGED << crs, audit >> \/ \E r \in Requests : Commits(r)
  <2>1. CASE EnvironmentStep
    BY <2>1, EnvironmentFrame DEF IInv
  <2>2. ASSUME NEW r \in Requests, StepOf(r) PROVE UNCHANGED << crs, audit >> \/ Commits(r)
    BY <2>2, OwnFrame DEF IInv
  <2>3. QED
    BY <2>1, <2>2, StepCases
<1>4. QED
  BY <1>1, <1>2, <1>3

(* One handler at a time, whatever fails: a change request is created,     *)
(* approved by one user and applied, once and in that order.               *)
THEOREM OneWorkerFollowsLifecycle ==
  ASSUME Workers = 1
  PROVE  Spec => FollowsLifecycle
<1>1. Init => Lifecycle!Init
  <2>1. ASSUME Init PROVE Lifecycle!Init
    <3>1. \A c \in CRs : Rows("applied", c) = {}
      BY <2>1, InitRows DEF Rows
    <3>2. \A c \in CRs : crs[c].status = "absent" /\ crs[c].approved_by = None
      BY <2>1 DEF Init
    <3>3. QED
      BY <3>1, <3>2, FS_EmptySet DEF Lifecycle!Init
  <2>2. QED
    BY <2>1
<1>2. IInv /\ NumberInv /\ SerialInv /\ [Next]_vars => [Lifecycle!Next]_(Lifecycle!vars)
  <2>1. ASSUME IInv, NumberInv, SerialInv, [Next]_vars
        PROVE  [Lifecycle!Next]_(Lifecycle!vars)
    BY <2>1, LifecycleStep
    DEF Status, Approver, Applied, Lifecycle!Next, Lifecycle!vars, Lifecycle!Create,
        Lifecycle!Approve, Lifecycle!Apply, Lifecycle!Advance
  <2>2. QED
    BY <2>1
<1>3. QED
  BY <1>1, <1>2, Invariance, IdsAreUnique, OneWorkerIsSerial, PTL
  DEF Spec, FollowsLifecycle, Lifecycle!Spec

-------------------------------------------------------------------------------
(***************************************************************************)
(* 5  Row locks and rows of keys                                           *)
(***************************************************************************)

(* A step that is no UPDATE takes no lock, and lets go of its own at the   *)
(* end only.                                                               *)
LEMMA LockFrame ==
  ASSUME TypeInv, LockInv, NEW r \in Requests, StepOf(r)
  PROVE  \/ UpdateCR(r)
         \/ pc'[r] = "done" /\ rowLock' = Unlocked(r)
         \/ /\ rowLock' = rowLock
            /\ pc[r] # "commit"
            /\ pc'[r] = "commit" => call'[r].op = "create"
<1> USE DEF TypeInv, TypeOK, Goto, Leave, Rollback
<1>1. CASE \E u \in Users, c \in CRs : BeginCreate(r, u, c)
  BY <1>1 DEF BeginCreate, Receive
<1>2. CASE \E u \in Users, c \in CRs : BeginApprove(r, u, c)
  BY <1>2 DEF BeginApprove, Receive
<1>3. CASE \E u \in Users, c \in CRs, k \in Keys \cup {NoKey} : BeginApply(r, u, c, k)
  BY <1>3 DEF BeginApply, Receive
<1>4. CASE LoadForApply(r)
  BY <1>4 DEF LoadForApply
<1>5. CASE CallUnleash(r)
  BY <1>5 DEF CallUnleash
<1>6. CASE ReadTail(r)
  BY <1>6 DEF ReadTail
<1>7. CASE InsertAudit(r)
  BY <1>7 DEF InsertAudit
<1>8. CASE UpdateCR(r)
  BY <1>8
<1>9. CASE RaiseBadGateway(r) \/ CommitConflict(r) \/ Abort(r)
  BY <1>9 DEF RaiseBadGateway, CommitConflict, Abort
<1>10. CASE Commits(r)
  BY <1>10 DEF Commits, Commit, CommitUnacknowledged
<1>11. QED
  BY <1>1, <1>2, <1>3, <1>4, <1>5, <1>6, <1>7, <1>8, <1>9, <1>10
  DEF StepOf, Begin, SentKeys, Proceed, Commits

LEMMA LockStep ==
  ASSUME TypeInv, ControlInv, LockInv, NEW r \in Requests, StepOf(r)
  PROVE  LockInv'
<1>1. \A q \in Requests : q # r => pc'[q] = pc[q] /\ call'[q] = call[q]
  BY OthersFrame DEF Same
<1>2. pc[r] # "idle" => call'[r] = call[r]
  BY OwnFrame
<1>3. \A c \in CRs : rowLock[c] \in Requests \cup {None}
  BY DEF TypeInv, TypeOK
<1>4. CASE UpdateCR(r)
  <2>1. /\ pc[r] = "update" /\ pc'[r] = "commit" /\ call' = call
        /\ rowLock[call[r].cr] = None
        /\ call[r].cr \in CRs
        /\ \A c \in CRs : rowLock'[c] = IF c = call[r].cr THEN r ELSE rowLock[c]
    BY <1>4 DEF UpdateCR, Goto, TypeInv, TypeOK, Call
  <2>2. \A c \in CRs : rowLock'[c] # None =>
          pc'[rowLock'[c]] = "commit" /\ call'[rowLock'[c]].cr = c
    BY <1>1, <1>3, <2>1 DEF LockInv
  <2>3. \A q \in Requests : pc[q] # "idle" => call[q].cr \in CRs
    BY DEF TypeInv, TypeOK, Call
  <2>4. \A q \in Requests :
          pc'[q] = "commit" /\ call'[q].op # "create" => rowLock'[call'[q].cr] = q
    BY <1>1, <1>3, <2>1, <2>3, GovernanceAssumption DEF LockInv
  <2>5. QED
    BY <2>2, <2>4 DEF LockInv
<1>5. CASE pc'[r] = "done" /\ rowLock' = Unlocked(r)
  <2>1. \A c \in CRs : rowLock'[c] = IF rowLock[c] = r THEN None ELSE rowLock[c]
    BY <1>5 DEF Unlocked
  <2>2. \A q \in Requests : pc[q] # "idle" => call[q].cr \in CRs
    BY DEF TypeInv, TypeOK, Call
  <2>3. \A c \in CRs : rowLock'[c] # None =>
          pc'[rowLock'[c]] = "commit" /\ call'[rowLock'[c]].cr = c
    BY <1>1, <1>3, <2>1 DEF LockInv
  <2>4. \A q \in Requests :
          pc'[q] = "commit" /\ call'[q].op # "create" => rowLock'[call'[q].cr] = q
    BY <1>1, <1>5, <2>1, <2>2 DEF LockInv
  <2>5. QED
    BY <2>3, <2>4 DEF LockInv
<1>6. CASE /\ rowLock' = rowLock
           /\ pc[r] # "commit"
           /\ pc'[r] = "commit" => call'[r].op = "create"
  BY <1>1, <1>3, <1>6 DEF LockInv
<1>7. QED
  BY <1>4, <1>5, <1>6, LockFrame

(* Whoever holds a row lock has only its commit left, so no two requests   *)
(* wait for each other; and of the transactions that write one change      *)
(* request at most one is past its UPDATE.                                 *)
THEOREM LocksAreShort == Spec => []LockInv
<1>1. Init => LockInv
  BY DEF Init, LockInv
<1>2. IInv /\ LockInv /\ [Next]_vars => LockInv'
  <2> SUFFICES ASSUME IInv, LockInv, [Next]_vars PROVE LockInv'
    OBVIOUS
  <2>1. TypeInv /\ ControlInv
    BY DEF IInv
  <2>2. CASE EnvironmentStep
    <3>1. UNCHANGED << rowLock, call, pc >>
      BY <2>1, <2>2, EnvironmentFrame
    <3>2. QED
      BY <3>1 DEF LockInv
  <2>3. ASSUME NEW r \in Requests, StepOf(r) PROVE LockInv'
    BY <2>1, <2>3, LockStep
  <2>4. QED
    BY <2>2, <2>3, StepCases
<1>3. QED
  BY <1>1, <1>2, Invariance, PTL DEF Spec

(* A row of idempotency_keys, as KeyRow sees it.                           *)
Row(k) == INSTANCE KeyRow WITH key <- keys[k].state, early <- FALSE

LEMMA CommitInserts ==
  ASSUME TypeInv, NEW r \in Requests, Commits(r), NEW k \in Keys
  PROVE  \/ keys'[k] = keys[k]
         \/ keys[k].state = "none" /\ keys'[k].state = "live"
<1>1. ~KeyTaken(r) /\ keys' = IF call[r].op = "apply"
                              THEN [keys EXCEPT ![call[r].key] =
                                      [state |-> "live", body |-> FreshBody(r)]]
                              ELSE keys
  BY DEF Commits, Commit, CommitUnacknowledged, Install
<1>2. CASE call[r].op = "apply" /\ call[r].key = k
  <2>1. keys'[k] = [state |-> "live", body |-> FreshBody(r)]
    BY <1>1, <1>2 DEF TypeInv, TypeOK
  <2>2. QED
    BY <1>1, <1>2, <2>1 DEF KeyTaken
<1>3. CASE ~(call[r].op = "apply" /\ call[r].key = k)
  BY <1>1, <1>3 DEF TypeInv, TypeOK
<1>4. QED
  BY <1>2, <1>3

(* What the write path does to the row of a key, commit by commit, is the  *)
(* life that KeyRetention, with its clocks and its loops, is shown to give *)
(* it: the two models of a row agree.                                      *)
THEOREM RowsLiveAsKeyRow ==
  ASSUME NEW k \in Keys
  PROVE  Spec => Row(k)!Spec
<1>1. Init => Row(k)!Init
  BY DEF Init, NoKeyRow, Row!Init
<1>2. TypeInv /\ [Next]_vars => [Row(k)!Next]_<< keys[k].state, FALSE >>
  <2> SUFFICES ASSUME TypeInv, [Next]_vars
               PROVE  Row(k)!Next \/ keys'[k].state = keys[k].state
    OBVIOUS
  <2>1. ASSUME NEW j \in Keys, Expire(j)
        PROVE  Row(k)!Next \/ keys'[k].state = keys[k].state
    <3>1. CASE j = k
      <4>1. keys[k].state = "live" /\ keys'[k].state = "expired"
        BY <2>1, <3>1 DEF Expire, TypeInv, TypeOK, KeyRow
      <4>2. QED
        BY <4>1 DEF Row!Next, Row!Expire
    <3>2. CASE j # k
      BY <2>1, <3>2 DEF Expire, TypeInv, TypeOK
    <3>3. QED
      BY <3>1, <3>2
  <2>2. CASE Cleanup
    BY <2>2 DEF Cleanup, NoKeyRow, Row!Next, Row!Delete
  <2>3. CASE UNCHANGED vars
    BY <2>3 DEF vars
  <2>4. ASSUME NEW r \in Requests, StepOf(r)
        PROVE  Row(k)!Next \/ keys'[k].state = keys[k].state
    <3>1. CASE Commits(r)
      <4>1. \/ keys'[k] = keys[k]
            \/ keys[k].state = "none" /\ keys'[k].state = "live"
        BY <3>1, CommitInserts
      <4>2. QED
        BY <4>1 DEF Row!Next, Row!Insert
    <3>2. CASE ~Commits(r)
      BY <2>4, <3>2, OwnFrame
    <3>3. QED
      BY <3>1, <3>2
  <2>5. QED
    BY <2>1, <2>2, <2>3, <2>4, StepCases DEF EnvironmentStep
<1>3. QED
  BY <1>1, <1>2, Invariance, PTL DEF Spec, Row!Spec, IInv
===============================================================================
