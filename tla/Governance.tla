------------------------------ MODULE Governance ------------------------------
(***************************************************************************)
(* The write path of the governance proxy: POST change-request (create),   *)
(* /approve and /apply, as the handlers of app/routers run them in the     *)
(* thread pools of one or more replicas over one Postgres database at      *)
(* READ COMMITTED.                                                         *)
(*                                                                         *)
(* Each handler invocation is a member of Requests and runs one database   *)
(* transaction (app/db/session.py get_db): it reads committed rows, sends  *)
(* its writes with a flush, and commits after the handler has returned.    *)
(* An exception - an HTTPException included - rolls everything back.  The  *)
(* call to Unleash in the middle of apply is not part of the transaction.  *)
(***************************************************************************)
EXTENDS AuditChain

CONSTANTS Requests,      \* handler invocations; a client retry is another one
          CRs,           \* change request ids (fresh UUIDs)
          Users,         \* JWT subjects
          Keys,          \* Idempotency-Key values
          NoKey,         \* the header is missing, blank or too long
          Editors,       \* who can_edit_feature lets edit which change request
          ExpiringKeys,  \* keys whose TTL can pass while the system runs
          LegacyRows,    \* audit rows older than the hash columns
          ChainEnabled,  \* settings.audit_hash_chain_enabled
          Workers,       \* handlers that can run at once, over all replicas
          Failures,      \* what can fail: see Failable
          None           \* nobody, nothing

(* The Unleash call fails; a statement or the process fails in the middle  *)
(* of a handler; the acknowledgement of a COMMIT is lost.                  *)
Failable == {"unleash", "handler", "commit"}

ASSUME GovernanceAssumption ==
  /\ Editors \subseteq Users \X CRs
  /\ ExpiringKeys \subseteq Keys
  /\ NoKey \notin Keys
  /\ LegacyRows \in Nat
  /\ ChainEnabled \in BOOLEAN
  /\ Workers \in Nat
  /\ Failures \subseteq Failable
  /\ None \notin Requests /\ None \notin Users /\ None \notin CRs

VARIABLES
  crs,        \* change_requests: committed status and approved_by
  audit,      \* audit_logs: the committed rows
  keys,       \* idempotency_keys: the committed row of each key
  nextId,     \* audit_logs_id_seq, which no rollback turns back
  rowLock,    \* the transaction whose UPDATE holds the change request's row
  pc,         \* where the handler of a request is
  call,       \* what the client asked for
  tail,       \* the result of _latest_hash in this transaction
  rowId,      \* id of the audit row this transaction has inserted
  unleash,    \* how the Unleash call ended, as the handler sees it
  answer,     \* what the client got
  effects     \* history: requests whose changes have reached Unleash

vars == << crs, audit, keys, nextId, rowLock, pc, call, tail, rowId, unleash,
           answer, effects >>

Statuses == {"absent", "pending", "approved", "applied"}

(* The rows of change_requests, absent ones included.                      *)
ChangeRequest == [status : Statuses, approved_by : Users \cup {None}]

Call == [op : {"create", "approve", "apply"}, user : Users, cr : CRs,
         key : Keys \cup {NoKey}]

(* A 200 body of apply: the change request it names and, because the body  *)
(* carries the result of one particular Unleash call, the request that     *)
(* made that call.                                                         *)
Body == [cr : CRs \cup {None}, by : Requests \cup {None}]
NoBody == [cr |-> None, by |-> None]

NoAnswer == [code |-> 0, body |-> NoBody]

(* An idempotency row: not there, there and unexpired, or past expires_at. *)
KeyRow == [state : {"none", "live", "expired"}, body : Body]
NoKeyRow == [state |-> "none", body |-> NoBody]

(* What write_audit hashes: the action, who did it and to what.            *)
Content == [action : {"created", "approved", "applied", "apply_failed", "legacy"},
            user : Users \cup {None}, cr : CRs \cup {None}]

(* A column that is NULL holds no digest.                                  *)
ASSUME HashAssumption == NoHash \notin Seq(Content)

LegacyRow(i) == [id |-> i, prev |-> NoHash, hash |-> NoHash, by |-> None,
                 content |-> [action |-> "legacy", user |-> None, cr |-> None]]

Init ==
  /\ crs = [c \in CRs |-> [status |-> "absent", approved_by |-> None]]
  /\ audit = {LegacyRow(i) : i \in 1..LegacyRows}
  /\ keys = [k \in Keys |-> NoKeyRow]
  /\ nextId = LegacyRows + 1
  /\ rowLock = [c \in CRs |-> None]
  /\ pc = [r \in Requests |-> "idle"]
  /\ call = [r \in Requests |-> None]
  /\ tail = [r \in Requests |-> NoHash]
  /\ rowId = [r \in Requests |-> 0]
  /\ unleash = [r \in Requests |-> "none"]
  /\ answer = [r \in Requests |-> NoAnswer]
  /\ effects = {}

-------------------------------------------------------------------------------
(* Leaving the handler: the transaction ends, its row lock is released and *)
(* the client gets an answer (code 0: the connection just drops).          *)

(* Slip: the row lock outlives the transaction.                            *)
StillLocked(r) == rowLock

Unlocked(r) == [c \in CRs |-> IF rowLock[c] = r THEN None ELSE rowLock[c]]

Leave(r, code, body) ==
  /\ pc' = [pc EXCEPT ![r] = "done"]
  /\ answer' = [answer EXCEPT ![r] = [code |-> code, body |-> body]]
  /\ rowLock' = Unlocked(r)

Rollback(r, code) ==
  /\ Leave(r, code, NoBody)
  /\ UNCHANGED << crs, audit, keys, nextId, call, tail, rowId, unleash, effects >>

Goto(r, label) == pc' = [pc EXCEPT ![r] = label]

Running == {r \in Requests : pc[r] \notin {"idle", "done"}}

Receive(r, op, u, c, k) ==
  /\ pc[r] = "idle"
  /\ Cardinality(Running) < Workers
  /\ call' = [call EXCEPT ![r] = [op |-> op, user |-> u, cr |-> c, key |-> k]]

MayEdit(u, c) == << u, c >> \in Editors

(* A uuid4 that no committed row and no running transaction uses.          *)
FreshCR(c) ==
  /\ crs[c].status = "absent"
  /\ \A q \in Running : ~(call[q].op = "create" /\ call[q].cr = c)

-------------------------------------------------------------------------------
(* create_change_request up to its first flush, which inserts the row.     *)
BeginCreate(r, u, c) ==
  /\ FreshCR(c)
  /\ Receive(r, "create", u, c, NoKey)
  /\ IF MayEdit(u, c)
     THEN Goto(r, "tail") /\ UNCHANGED << answer, rowLock >>
     ELSE Leave(r, 403, NoBody)
  /\ UNCHANGED << crs, audit, keys, nextId, tail, rowId, unleash, effects >>

(* Slip: the status is not checked.                                        *)
AnyStatusRefusal(u, c, required) ==
  IF crs[c].status = "absent" THEN 404 ELSE IF ~MayEdit(u, c) THEN 403 ELSE 0

(* The checks approve and apply share: the row exists (_get_change_request),*)
(* the user may edit it, and its status as just read is the required one.  *)
Refusal(u, c, required) ==
  IF crs[c].status = "absent" THEN 404
  ELSE IF ~MayEdit(u, c) THEN 403
  ELSE IF crs[c].status # required THEN 400 ELSE 0

(* approve_change_request up to its assignment of the new status, which    *)
(* stays in the session until the flush of write_audit.                    *)
BeginApprove(r, u, c) ==
  /\ Receive(r, "approve", u, c, NoKey)
  /\ IF Refusal(u, c, "pending") = 0
     THEN Goto(r, "tail") /\ UNCHANGED << answer, rowLock >>
     ELSE Leave(r, Refusal(u, c, "pending"), NoBody)
  /\ UNCHANGED << crs, audit, keys, nextId, tail, rowId, unleash, effects >>

(* What require_idempotency_key makes of the header.                       *)
SentKeys == Keys \cup {NoKey}

(* apply_change_request: require_idempotency_key and                       *)
(* get_existing_response, whose hit is answered before anything is checked *)
(* about the change request in the path.                                   *)
BeginApply(r, u, c, k) ==
  /\ Receive(r, "apply", u, c, k)
  /\ \/ k = NoKey /\ Leave(r, 400, NoBody)
     \/ k # NoKey /\ keys[k].state = "live" /\ Leave(r, 200, keys[k].body)
     \/ k # NoKey /\ keys[k].state # "live" /\ Goto(r, "load")
        /\ UNCHANGED << answer, rowLock >>
  /\ UNCHANGED << crs, audit, keys, nextId, tail, rowId, unleash, effects >>

(* apply_change_request: load the row, authorize, require status approved. *)
LoadForApply(r) ==
  /\ pc[r] = "load"
  /\ LET refusal == Refusal(call[r].user, call[r].cr, "approved")
     IN  IF refusal = 0
         THEN Goto(r, "unleash") /\ UNCHANGED << answer, rowLock >>
         ELSE Leave(r, refusal, NoBody)
  /\ UNCHANGED << crs, audit, keys, nextId, call, tail, rowId, unleash, effects >>

(* Slip: the status of the HTTP answer is not checked.                     *)
CallUnleashUnchecked(r) ==
  /\ pc[r] = "unleash"
  /\ unleash' = [unleash EXCEPT ![r] = "ok"]
  /\ effects' \in {effects, effects \cup {r}}
  /\ Goto(r, "tail")
  /\ UNCHANGED << crs, audit, keys, nextId, rowLock, call, tail, rowId, answer >>

(* The Unleash call of apply.  It can fail before the change reached the   *)
(* server, or after it did (a lost answer, a later call of several).       *)
CallUnleash(r) ==
  /\ pc[r] = "unleash"
  /\ \E result \in {"ok", "error"} :
       /\ result = "error" => "unleash" \in Failures
       /\ unleash' = [unleash EXCEPT ![r] = result]
       /\ \/ effects' = effects \cup {r}
          \/ result = "error" /\ effects' = effects
  /\ Goto(r, "tail")
  /\ UNCHANGED << crs, audit, keys, nextId, rowLock, call, tail, rowId, answer >>

-------------------------------------------------------------------------------
(* write_audit: read the tail of the chain, then flush.  The flush sends   *)
(* the INSERT of the audit row, which draws the id, and then the UPDATE of *)
(* the change request (the unit of work orders unrelated tables by mapper  *)
(* name), which waits for any other transaction that has updated the row.  *)

(* The row write_audit has flushed in the transaction of r.                *)
AuditRow(r) ==
  LET action == IF unleash[r] = "error" THEN "apply_failed"
                ELSE CASE call[r].op = "create"  -> "created"
                       [] call[r].op = "approve" -> "approved"
                       [] call[r].op = "apply"   -> "applied"
      content == [action |-> action, user |-> call[r].user, cr |-> call[r].cr]
  IN  [id |-> rowId[r], content |-> content, by |-> r, prev |-> tail[r],
       hash |-> IF ChainEnabled THEN RowHash(tail[r], content) ELSE NoHash]

(* Slip: the tail read in READ UNCOMMITTED sees rows not yet committed.    *)
DirtyRows ==
  audit \cup {AuditRow(q) : q \in {p \in Requests : pc[p] \in {"update", "commit", "raise"}}}

(* What a SELECT of audit_logs sees at READ COMMITTED.                     *)
VisibleRows == audit

ReadTail(r) ==
  /\ pc[r] = "tail"
  /\ IF ChainEnabled
     THEN \E h \in {Genesis} \cup {row.hash : row \in VisibleRows} :
            IsLatestHash(VisibleRows, h) /\ tail' = [tail EXCEPT ![r] = h]
     ELSE tail' = tail
  /\ Goto(r, "insert")
  /\ UNCHANGED << crs, audit, keys, nextId, rowLock, call, rowId, unleash,
                  answer, effects >>

InsertAudit(r) ==
  /\ pc[r] = "insert"
  /\ rowId' = [rowId EXCEPT ![r] = nextId]
  /\ nextId' = nextId + 1
  /\ Goto(r, IF unleash[r] = "error" THEN "raise"
             ELSE IF call[r].op = "create" THEN "commit" ELSE "update")
  /\ UNCHANGED << crs, audit, keys, rowLock, call, tail, unleash, answer, effects >>

UpdateCR(r) ==
  /\ pc[r] = "update"
  /\ rowLock[call[r].cr] = None
  /\ rowLock' = [rowLock EXCEPT ![call[r].cr] = r]
  /\ Goto(r, "commit")
  /\ UNCHANGED << crs, audit, keys, nextId, call, tail, rowId, unleash, answer,
                  effects >>

-------------------------------------------------------------------------------
(* Commit.  The row of the idempotency key is only added to the session by *)
(* the handler, so its INSERT is sent here, just before COMMIT.            *)

(* Slip: a status outside the state machine.                               *)
MisspeltStatus(op) == CASE op = "create"  -> "pending"
                        [] op = "approve" -> "approved"
                        [] op = "apply"   -> "complete"

NewStatus(op) == CASE op = "create"  -> "pending"
                   [] op = "approve" -> "approved"
                   [] op = "apply"   -> "applied"

(* Slip: approve does not record the approver.                             *)
AnonymousCR(r) == [status |-> NewStatus(call[r].op), approved_by |-> None]

NewCR(r) ==
  [status      |-> NewStatus(call[r].op),
   approved_by |-> IF call[r].op = "approve" THEN call[r].user
                   ELSE crs[call[r].cr].approved_by]

FreshBody(r) == IF call[r].op = "apply"
                THEN [cr |-> call[r].cr, by |-> r] ELSE NoBody

(* Slip: no unique constraint on the key.                                  *)
NeverTaken(r) == FALSE

(* UNIQUE(key): the row is there until cleanup deletes it, expired or not. *)
KeyTaken(r) == call[r].op = "apply" /\ keys[call[r].key].state # "none"

Install(r) ==
  /\ crs' = [crs EXCEPT ![call[r].cr] = NewCR(r)]
  /\ audit' = audit \cup {AuditRow(r)}
  /\ keys' = IF call[r].op = "apply"
             THEN [keys EXCEPT ![call[r].key] =
                     [state |-> "live", body |-> FreshBody(r)]]
             ELSE keys
  /\ UNCHANGED << nextId, call, tail, rowId, unleash, effects >>

SuccessCode(op) == IF op = "create" THEN 201 ELSE 200

Commit(r) ==
  /\ pc[r] = "commit"
  /\ ~KeyTaken(r)
  /\ Install(r)
  /\ Leave(r, SuccessCode(call[r].op), FreshBody(r))

(* Slip: the exception of the commit is swallowed.                         *)
ConflictSwallowed(r) ==
  /\ pc[r] = "commit" /\ KeyTaken(r)
  /\ Leave(r, 200, FreshBody(r))
  /\ UNCHANGED << crs, audit, keys, nextId, call, tail, rowId, unleash, effects >>

(* The unique violation of the key surfaces out of session.commit(): the   *)
(* whole transaction is rolled back and the request ends as a 500.         *)
CommitConflict(r) == pc[r] = "commit" /\ KeyTaken(r) /\ Rollback(r, 500)

(* COMMIT takes effect but its acknowledgement is lost with the connection *)
(* to the database (500) or with the process (no answer).                  *)
CommitUnacknowledged(r) ==
  /\ pc[r] = "commit"
  /\ "commit" \in Failures
  /\ ~KeyTaken(r)
  /\ Install(r)
  /\ \E code \in {0, 500} : Leave(r, code, NoBody)

(* Slip: the status Unleash has answered is passed on.                     *)
PassOnStatus(r) == pc[r] = "raise" /\ Rollback(r, 400)

(* The except branch of apply: after the audit row of the failure has been *)
(* flushed, raise HTTPException(502); get_db rolls the transaction back.   *)
RaiseBadGateway(r) == pc[r] = "raise" /\ Rollback(r, 502)

(* A statement fails (500) or the process dies (no answer).                *)
Abort(r) ==
  /\ "handler" \in Failures
  /\ r \in Running
  /\ \E code \in {0, 500} : Rollback(r, code)

-------------------------------------------------------------------------------
(* Time passes the expires_at of a key.                                    *)
Expire(k) ==
  /\ k \in ExpiringKeys
  /\ keys[k].state = "live"
  /\ keys' = [keys EXCEPT ![k].state = "expired"]
  /\ UNCHANGED << crs, audit, nextId, rowLock, pc, call, tail, rowId, unleash,
                  answer, effects >>

(* One pass of the cleanup loop of some replica, or run_cleanup_once.      *)
Cleanup ==
  /\ \E k \in Keys : keys[k].state = "expired"
  /\ keys' = [k \in Keys |-> IF keys[k].state = "expired" THEN NoKeyRow ELSE keys[k]]
  /\ UNCHANGED << crs, audit, nextId, rowLock, pc, call, tail, rowId, unleash,
                  answer, effects >>

Begin(r) ==
  \E u \in Users, c \in CRs :
    \/ BeginCreate(r, u, c)
    \/ BeginApprove(r, u, c)
    \/ \E k \in SentKeys : BeginApply(r, u, c, k)

(* The next step of the handler of a request that has begun.               *)
Proceed(r) ==
  \/ LoadForApply(r)
  \/ CallUnleash(r)
  \/ ReadTail(r)
  \/ InsertAudit(r)
  \/ UpdateCR(r)
  \/ RaiseBadGateway(r)
  \/ Commit(r)
  \/ CommitConflict(r)
  \/ CommitUnacknowledged(r)

Next ==
  \/ \E r \in Requests : Begin(r) \/ Proceed(r) \/ Abort(r)
  \/ \E k \in Keys : Expire(k)
  \/ Cleanup

Spec == Init /\ [][Next]_vars

(* A handler thread that has begun keeps running.  Clients need not send,  *)
(* nothing need fail, no key need expire.                                  *)
Fairness == \A r \in Requests : WF_vars(Proceed(r))

LiveSpec == Spec /\ Fairness

-------------------------------------------------------------------------------
(***************************************************************************)
(* Properties                                                              *)
(***************************************************************************)

Codes == {0, 200, 201, 400, 403, 404, 500, 502}

Labels == {"idle", "load", "unleash", "tail", "insert", "update", "commit",
           "raise", "done"}

Hashes == Seq(Content) \cup {NoHash}

AuditRows == [id : Nat, content : Content, by : Requests \cup {None},
              prev : Hashes, hash : Hashes]

(* Every variable has its type, and a request that has begun has a call.   *)
TypeOK ==
  /\ crs \in [CRs -> ChangeRequest]
  /\ audit \subseteq AuditRows
  /\ keys \in [Keys -> KeyRow]
  /\ nextId \in Nat
  /\ rowLock \in [CRs -> Requests \cup {None}]
  /\ pc \in [Requests -> Labels]
  /\ call \in [Requests -> Call \cup {None}]
  /\ \A r \in Requests : pc[r] # "idle" => call[r] \in Call
  /\ tail \in [Requests -> Hashes]
  /\ rowId \in [Requests -> Nat]
  /\ unleash \in [Requests -> {"none", "ok", "error"}]
  /\ answer \in [Requests -> [code : Codes, body : Body]]
  /\ effects \subseteq Requests

Rows(action, c) ==
  {row \in audit : row.content.action = action /\ row.content.cr = c}

AppliedRowsOf(k) ==
  {row \in audit : row.content.action = "applied" /\ call[row.by].key = k}

(* The status column and the audit log of a change request never tell      *)
(* different stories: a row exists exactly when its creation is logged, an *)
(* approved one has an approval by its approved_by, an applied one an      *)
(* application.  The handlers keep this by writing both in one             *)
(* transaction, whatever fails and whoever else writes the same row.       *)
StatusIsAudited ==
  \A c \in CRs :
    /\ crs[c].status = "absent" <=> Rows("created", c) = {}
    /\ crs[c].status = "approved" =>
         \E row \in Rows("approved", c) : row.content.user = crs[c].approved_by
    /\ crs[c].status = "applied" => Rows("applied", c) # {}

(* The log is in causal order although ids are drawn before the commit:    *)
(* every application has a permitted approval, and every approval the      *)
(* creation, of the same change request at a lower id.                     *)
AuditIsCausal ==
  \A c \in CRs :
    /\ \A row \in Rows("applied", c) :
         \E q \in Rows("approved", c) :
           q.id < row.id /\ MayEdit(q.content.user, c)
    /\ \A row \in Rows("approved", c) :
         \E q \in Rows("created", c) : q.id < row.id

(* The audit log never claims an application that did not happen: the      *)
(* request behind each change_request_applied row has reached Unleash.     *)
AuditNeverOverclaims ==
  \A c \in CRs : \A row \in Rows("applied", c) : row.by \in effects

(* Nothing reaches Unleash for a change request that has no committed      *)
(* approval, or on behalf of a user who may not edit it.                   *)
EffectsAreApproved ==
  \A r \in effects :
    /\ Rows("approved", call[r].cr) # {}
    /\ MayEdit(call[r].user, call[r].cr)

(* No phantom success: what a 2xx answer says has been committed, and a    *)
(* 200 of apply, computed or read back from the idempotency table, names a *)
(* change request whose application by body.by is in the log.              *)
SuccessIsDurable ==
  \A r \in Requests :
    /\ answer[r].code = 201 => \E row \in audit : row.by = r
    /\ answer[r].code = 200 /\ call[r].op = "approve" =>
         \E row \in Rows("approved", call[r].cr) : row.by = r
    /\ answer[r].code = 200 /\ call[r].op = "apply" =>
         \E row \in Rows("applied", answer[r].body.cr) : row.by = answer[r].body.by

(* No silent effect: a change that has reached Unleash although nothing of *)
(* it is in the log - the call failed half way, the flush or the commit    *)
(* failed after it, another apply won the key - is answered as an error of *)
(* the server, or not at all.  It is never answered as a refusal, which a  *)
(* client takes for "nothing has happened", and never as a success.        *)
UnloggedEffectsAreErrors ==
  \A r \in effects :
    \/ answer[r].code \in {0, 500, 502}
    \/ \E row \in Rows("applied", call[r].cr) : row.by = r

(* However many requests carry the same key, at most one of them commits   *)
(* an application while the row of the key lives: the UNIQUE(key) that     *)
(* store_idempotency_response relies on.                                   *)
OneApplicationPerKey ==
  \A k \in Keys \ ExpiringKeys :
    \A p, q \in AppliedRowsOf(k) : p = q

(* All callers who got a 200 from apply under one key got the same body.   *)
SameKeySameBody ==
  \A p, q \in Requests :
    /\ answer[p].code = 200 /\ call[p].op = "apply"
    /\ answer[q].code = 200 /\ call[q].op = "apply"
    /\ call[p].key = call[q].key
    /\ call[p].key \notin ExpiringKeys
    => answer[p].body = answer[q].body

(* Every link of the chain is real: prev_hash is the genesis hash or the   *)
(* hash of a committed row with a lower id, never of a row that was rolled *)
(* back or not yet committed.                                              *)
LinksAreCommitted ==
  \A row \in audit :
    \/ Legacy(row)
    \/ row.prev = Genesis
    \/ \E q \in audit : q.id < row.id /\ q.hash = row.prev

(* The chain survives a commit exactly when the tail this transaction read *)
(* is still the latest hash: interleaving alone, in any other order of     *)
(* ids and commits, does not break it.                                     *)
StaleTailBreaksChain ==
  [][ChainEnabled /\ ChainOk(audit) =>
       \A row \in audit' \ audit :
         ChainOk(audit') <=> IsLatestHash(audit, row.prev)]_vars

(* A fork is permanent: no later row makes verify_chain answer ok again.   *)
BrokenStaysBroken == [][~ChainOk(audit) => ~ChainOk(audit')]_vars

(* Every request that has begun ends, whatever row locks it has to wait    *)
(* for: no transaction waits while it holds what another one waits for.    *)
EveryRequestEnds ==
  \A r \in Requests : pc[r] # "idle" ~> pc[r] = "done"

-------------------------------------------------------------------------------
(***************************************************************************)
(* What the documents say of this code.  The first three hold when         *)
(* requests run one at a time (GovernanceProofs, part 4) and are broken as *)
(* soon as two run at once; the fourth as soon as Unleash fails.           *)
(***************************************************************************)

(* app/audit.py:63: write_audit extends the hash chain atomically, so      *)
(* verify_chain always answers ok on the rows the proxy itself has written.*)
ChainExtendedAtomically == ChainOk(audit)

(* tests/test_concurrency.py:3: the applies that carry one key produce     *)
(* exactly one Unleash apply.                                              *)
OneUnleashApplyPerKey ==
  \A k \in Keys \ ExpiringKeys :
    \A p, q \in effects : call[p].key = k /\ call[q].key = k => p = q

(* app/db/models.py:23: a change request goes from pending to approved to  *)
(* applied, and is applied once (ChangeRequestLifecycle).                  *)
Lifecycle == INSTANCE ChangeRequestLifecycle
  WITH status   <- [c \in CRs |-> crs[c].status],
       approver <- [c \in CRs |-> crs[c].approved_by],
       applied  <- [c \in CRs |-> Cardinality(Rows("applied", c))]

FollowsLifecycle == Lifecycle!Spec

(* docs/ARCHITECTURE.md:54: when the Unleash Admin API is down, apply      *)
(* returns a 502 and the failure is in the audit log.                      *)
FailedApplyIsAudited ==
  \A r \in Requests :
    answer[r].code = 502 =>
      \E row \in Rows("apply_failed", call[r].cr) : row.by = r
===============================================================================
