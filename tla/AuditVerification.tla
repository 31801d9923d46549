--------------------------- MODULE AuditVerification ---------------------------
(***************************************************************************)
(* GET /v1/audit/verify (verify_chain of app/audit.py) over an audit log   *)
(* that write_audit extends, by one process at a time, and in which rows   *)
(* are later edited or deleted behind the proxy's back, as                 *)
(* tests/test_audit_chain.py does.  What concurrent writers do to the      *)
(* chain is the subject of Governance.                                     *)
(***************************************************************************)
EXTENDS AuditChain, FiniteSetsExt

CONSTANTS Contents,   \* what a row can record
          MaxId       \* bound: the last id the sequence hands out

ASSUME AuditVerificationAssumption ==
  /\ MaxId \in Nat
  /\ NoHash \notin Seq(Contents)

VARIABLES rows,       \* audit_logs
          written,    \* history: every row as it was written
          nextId,     \* audit_logs_id_seq
          chainOn     \* settings.audit_hash_chain_enabled of the process

vars == << rows, written, nextId, chainOn >>

Init ==
  /\ rows = {}
  /\ written = {}
  /\ nextId = 1
  /\ chainOn \in BOOLEAN

NewRow(content, h) ==
  IF chainOn
  THEN [id |-> nextId, content |-> content, prev |-> h, hash |-> RowHash(h, content)]
  ELSE [id |-> nextId, content |-> content, prev |-> NoHash, hash |-> NoHash]

(* Slip: the id is not drawn from the sequence.                            *)
WriteSameId(content) ==
  \E h \in {Genesis} \cup {row.hash : row \in rows} :
    /\ nextId <= MaxId
    /\ IsLatestHash(rows, h)
    /\ rows' = rows \cup {NewRow(content, h)}
    /\ written' = written \cup {NewRow(content, h)}
    /\ UNCHANGED << nextId, chainOn >>

(* write_audit and the commit of its transaction.                          *)
Write(content) ==
  \E h \in {Genesis} \cup {row.hash : row \in rows} :
    /\ nextId <= MaxId
    /\ IsLatestHash(rows, h)
    /\ rows' = rows \cup {NewRow(content, h)}
    /\ written' = written \cup {NewRow(content, h)}
    /\ nextId' = nextId + 1
    /\ UNCHANGED chainOn

(* A transaction that has flushed its row and is rolled back: a gap.       *)
RollBack ==
  /\ nextId < MaxId
  /\ nextId' = nextId + 1
  /\ UNCHANGED << rows, written, chainOn >>

(* The process restarts with the other value of AUDIT_HASH_CHAIN_ENABLED.  *)
Reconfigure == chainOn' = ~chainOn /\ UNCHANGED << rows, written, nextId >>

(* UPDATE audit_logs SET <a payload column>, which may also undo an edit.  *)
Edit(row, content) ==
  /\ rows' = (rows \ {row}) \cup {[row EXCEPT !.content = content]}
  /\ UNCHANGED << written, nextId, chainOn >>

(* DELETE FROM audit_logs: no code of the proxy does it.                   *)
Delete(row) == rows' = rows \ {row} /\ UNCHANGED << written, nextId, chainOn >>

Next ==
  \/ \E content \in Contents : Write(content)
  \/ RollBack
  \/ Reconfigure
  \/ \E row \in rows, content \in Contents : Edit(row, content)
  \/ \E row \in rows : Delete(row)

Spec == Init /\ [][Next]_vars

-------------------------------------------------------------------------------
(* verify_chain as the code has it: one walk over the rows by ascending id *)
(* that carries the hash of the last row that was not skipped.             *)

ByAscendingId ==
  [i \in 1..Cardinality(rows) |-> CHOOSE row \in rows : Rank(rows, row) = i]

(* Slip: the walk carries on from prev_hash instead of row_hash.           *)
WalkBodyFromPrev(acc, row) ==
  IF acc.firstBroken # 0 THEN acc
  ELSE IF Legacy(row) THEN [acc EXCEPT !.checked = @ + 1]
  ELSE IF row.prev # acc.prev \/ row.hash # RowHash(acc.prev, row.content)
  THEN [acc EXCEPT !.checked = @ + 1, !.firstBroken = row.id]
  ELSE [acc EXCEPT !.checked = @ + 1, !.prev = row.prev]

WalkBody(acc, row) ==
  IF acc.firstBroken # 0 THEN acc
  ELSE IF Legacy(row) THEN [acc EXCEPT !.checked = @ + 1]
  ELSE IF row.prev # acc.prev \/ row.hash # RowHash(acc.prev, row.content)
  THEN [acc EXCEPT !.checked = @ + 1, !.firstBroken = row.id]
  ELSE [acc EXCEPT !.checked = @ + 1, !.prev = row.hash]

(* What the loop knows after each row; the query has limited the rows.     *)
Walk(limit) ==
  LET last == Cardinality(rows)
      after[i \in 0..last] ==
        IF i = 0 THEN [prev |-> Genesis, checked |-> 0, firstBroken |-> 0]
        ELSE WalkBody(after[i - 1], ByAscendingId[i])
  IN  after[IF limit < last THEN limit ELSE last]

-------------------------------------------------------------------------------
(***************************************************************************)
(* Properties                                                              *)
(***************************************************************************)

Hashes == Seq(Contents) \cup {NoHash}

Row == [id : 1..MaxId, content : Contents, prev : Hashes, hash : Hashes]

(* Rows are typed, and their ids are different and below the sequence.     *)
TypeOK ==
  /\ rows \subseteq Row
  /\ written \subseteq Row
  /\ nextId \in 1..(MaxId + 1)
  /\ chainOn \in BOOLEAN
  /\ \A p, q \in written : p.id = q.id => p = q
  /\ \A row \in written : row.id < nextId

(* Limits from 0, which the route refuses, to more rows than there are.    *)
Limits == 0..(MaxId + 1)

(* The walk of verify_chain answers what VerifyChain, by which the other   *)
(* modules describe it without a loop, says: for every log the edits can   *)
(* produce and every limit.                                                *)
WalkAgrees ==
  \A n \in Limits :
    LET w == Walk(n)
        v == VerifyChain(rows, n)
    IN  /\ v.ok = (w.firstBroken = 0)
        /\ v.checked = w.checked
        /\ v.firstBroken = w.firstBroken

EditedIds ==
  {p.id : p \in {q \in rows : ~Legacy(q) /\ q \notin written}}

(* tests/test_audit_chain.py:5: as long as no row is deleted, verify_chain *)
(* reports the first row of the chain whose payload is not the one that    *)
(* was written, and nothing when there is none: no false alarm, whatever   *)
(* was rolled back and however often the chain was switched off and on.    *)
FirstEditIsReported ==
  {p.id : p \in rows} = {p.id : p \in written} =>
    VerifyChain(rows, MaxId).firstBroken =
      IF EditedIds = {} THEN 0 ELSE Min(EditedIds)

Chained == {row \in rows : ~Legacy(row)}

(* The payloads of the first n chained rows in the order of ids.           *)
Payloads(n) ==
  [i \in 1..n |-> (CHOOSE row \in Chained : Rank(Chained, row) = i).content]

(* What an ok means, deletions included: the hash of every chained row is  *)
(* that of the payloads of the chained rows up to it, in the order of ids. *)
(* Nothing else is covered: not the rows written while the chain was off,  *)
(* not the rows deleted at the end.                                        *)
OkMeansPayloads ==
  VerifyChain(rows, MaxId).ok <=>
    \A row \in Chained : /\ row.hash = Payloads(Rank(Chained, row))
                         /\ row.prev = Payloads(Rank(Chained, row) - 1)
===============================================================================
