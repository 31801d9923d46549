-------------------------- MODULE GovernanceInvariant --------------------------
(***************************************************************************)
(* The inductive invariant behind the safety theorems of Governance: what  *)
(* the transactions that are still running know, in terms of the committed *)
(* rows.  Each part is one argument of GovernanceProofs.                   *)
(***************************************************************************)
EXTENDS Governance

(* Between the read of the tail and the end of the transaction, tail is a  *)
(* hash and not NULL.                                                      *)
TailIsHash ==
  \A r \in Requests :
    ChainEnabled /\ pc[r] \in {"insert", "update", "commit", "raise"}
      => tail[r] \in Seq(Content)

TypeInv == TypeOK /\ TailIsHash

(* In write_audit, or between it and the end of the transaction.           *)
Writing(r) == pc[r] \in {"tail", "insert", "update", "commit", "raise"}

(* The audit row has been inserted and the sequence has given it an id.    *)
Numbered(r) == pc[r] \in {"update", "commit", "raise"}

IdsInv ==
  /\ \A row \in audit : row.id < nextId
  /\ \A r \in Requests : Numbered(r) => rowId[r] < nextId

(* audit_logs_id_seq hands out every id once, above the rows there were,   *)
(* and a row that is not one of those is chained.                          *)
NumberInv ==
  /\ LegacyRows < nextId
  /\ \A r \in Requests :
       /\ rowId[r] # 0 => LegacyRows < rowId[r] /\ rowId[r] < nextId
       /\ Numbered(r) => rowId[r] # 0
  /\ \A p, q \in Requests : rowId[p] = rowId[q] /\ rowId[p] # 0 => p = q
  /\ \A row \in audit :
       /\ row.by = None => row.id \in 1..LegacyRows
       /\ row.by # None => rowId[row.by] # 0
       /\ row.by # None /\ ChainEnabled => row.prev \in Seq(Content)

(* A row lock is held from the UPDATE to the end of its transaction, which *)
(* has only its commit left and waits for nobody.                          *)
LockInv ==
  /\ \A c \in CRs : rowLock[c] # None =>
       /\ pc[rowLock[c]] = "commit"
       /\ call[rowLock[c]].cr = c
  /\ \A r \in Requests :
       pc[r] = "commit" /\ call[r].op # "create" => rowLock[call[r].cr] = r

(* A committed row is the one its request built, and that request is over, *)
(* so nothing the row was built from can change any more.                  *)
OwnerInv ==
  \A row \in audit :
    \/ row.by = None /\ row = LegacyRow(row.id)
    \/ /\ row.by \in Requests
       /\ pc[row.by] = "done"
       /\ unleash[row.by] = IF call[row.by].op = "apply" THEN "ok" ELSE "none"
       /\ row = AuditRow(row.by)

(* How far a request is, what it was asked to do, what Unleash said.       *)
Control(r) ==
  /\ pc[r] # "done" => answer[r] = NoAnswer
  /\ pc[r] = "idle" => unleash[r] = "none" /\ r \notin effects
  /\ pc[r] \in {"load", "unleash"} =>
       call[r].op = "apply" /\ unleash[r] = "none" /\ r \notin effects
  /\ pc[r] \notin {"idle", "done"} /\ call[r].op = "apply" => call[r].key \in Keys
  /\ Writing(r) => (call[r].op = "apply" <=> unleash[r] # "none")
  /\ pc[r] # "idle" /\ call[r].op # "apply" => unleash[r] = "none"
  /\ unleash[r] = "ok" => r \in effects
  /\ r \in effects => pc[r] # "idle" /\ call[r].op = "apply"
  /\ pc[r] \in {"update", "commit"} => unleash[r] # "error"
  /\ pc[r] = "raise" => unleash[r] = "error"
  /\ pc[r] = "update" => call[r].op # "create"

ControlInv == \A r \in Requests : Control(r)

(* Permission and history: what a request that goes on has been granted,   *)
(* and the committed rows its own row builds on.                           *)
Grant(r) ==
  /\ pc[r] = "unleash" \/ Writing(r) \/ r \in effects =>
       MayEdit(call[r].user, call[r].cr)
  /\ pc[r] = "unleash" \/ (Writing(r) /\ call[r].op = "apply") \/ r \in effects =>
       Rows("approved", call[r].cr) # {}
  /\ Writing(r) /\ call[r].op = "approve" => Rows("created", call[r].cr) # {}
  /\ Numbered(r) /\ call[r].op = "apply" =>
       \E q \in Rows("approved", call[r].cr) : q.id < rowId[r]
  /\ Numbered(r) /\ call[r].op = "approve" =>
       \E q \in Rows("created", call[r].cr) : q.id < rowId[r]

GrantInv == \A r \in Requests : Grant(r)

(* Whoever has approved a change request may edit it.                      *)
ApproverInv ==
  \A c \in CRs : \A row \in Rows("approved", c) : MayEdit(row.content.user, c)

(* A change request being created is nobody else's.                        *)
CreateInv ==
  /\ \A r \in Requests :
       Writing(r) /\ call[r].op = "create" => crs[call[r].cr].status = "absent"
  /\ \A p, q \in Requests :
       /\ Writing(p) /\ call[p].op = "create"
       /\ Writing(q) /\ call[q].op = "create"
       /\ call[p].cr = call[q].cr
       => p = q

(* An idempotency row replays a committed application; while the row of a  *)
(* key cannot expire, it is the only application under that key.           *)
KeyInv ==
  \A k \in Keys :
    /\ keys[k].state = "none" => keys[k].body = NoBody
    /\ keys[k].state # "none" =>
         \E row \in Rows("applied", keys[k].body.cr) : row.by = keys[k].body.by
    /\ k \notin ExpiringKeys =>
         /\ keys[k].state # "expired"
         /\ \A row \in AppliedRowsOf(k) :
              keys[k].state = "live" /\ keys[k].body.by = row.by

(* A 200 of apply under a key that cannot expire is the stored one.        *)
AnswerInv ==
  \A r \in Requests :
    /\ answer[r].code = 200 /\ call[r].op = "apply"
    /\ call[r].key \notin ExpiringKeys
    => /\ call[r].key \in Keys
       /\ keys[call[r].key].state = "live"
       /\ answer[r].body = keys[call[r].key].body

(* The tail a transaction holds was committed, below the row it writes.    *)
Link(r) ==
  /\ ~ChainEnabled => tail[r] = NoHash
  /\ ChainEnabled /\ pc[r] = "insert" =>
       tail[r] = Genesis \/ \E q \in audit : q.hash = tail[r]
  /\ ChainEnabled /\ Numbered(r) =>
       tail[r] = Genesis \/ \E q \in audit : q.hash = tail[r] /\ q.id < rowId[r]

LinkInv == \A r \in Requests : Link(r)

IInv ==
  /\ TypeInv
  /\ IdsInv
  /\ OwnerInv
  /\ ControlInv
  /\ GrantInv
  /\ ApproverInv
  /\ CreateInv
  /\ StatusIsAudited
  /\ AuditIsCausal
  /\ KeyInv
  /\ SuccessIsDurable
  /\ AnswerInv
  /\ UnloggedEffectsAreErrors
  /\ LinkInv
  /\ LinksAreCommitted
===============================================================================
