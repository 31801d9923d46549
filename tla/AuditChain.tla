------------------------------ MODULE AuditChain ------------------------------
(***************************************************************************)
(* The tamper-evident hash chain of app/audit.py, as operators on a set of *)
(* audit rows.  A row is a record with at least the fields                 *)
(*   id      : the AUTO INCREMENT primary key,                             *)
(*   content : the payload that _compute_row_hash hashes (actor, action,   *)
(*             resource, before/after payloads and metadata; neither id    *)
(*             nor timestamp is part of it),                               *)
(*   prev    : prev_hash, or NoHash where the column is NULL,              *)
(*   hash    : row_hash, or NoHash where the column is NULL.               *)
(*                                                                         *)
(* SHA-256 is modelled as an injective function: the hash of a row is the  *)
(* sequence of the contents hashed into it, oldest first, so two hashes    *)
(* are equal exactly when the same contents were chained in the same       *)
(* order.  GENESIS_HASH is the empty sequence.                             *)
(***************************************************************************)
EXTENDS Naturals, Sequences, FiniteSets

CONSTANT NoHash   \* a NULL hash column

Genesis == << >>

RowHash(prev, content) == Append(prev, content)

(* A row that verify_chain skips: both of its hash columns are NULL.       *)
Legacy(row) == row.hash = NoHash /\ row.prev = NoHash

(* The row that ORDER BY id DESC LIMIT 1 would return first.               *)
IsLast(rows, row) == row \in rows /\ \A q \in rows : q.id <= row.id

(* Slip: ORDER BY id without DESC.                                         *)
IsOldestHash(rows, h) ==
  LET hashed == {row \in rows : row.hash # NoHash}
  IN  \/ hashed = {} /\ h = Genesis
      \/ \E row \in hashed : row.hash = h /\ \A q \in hashed : row.id <= q.id

(* _latest_hash: h is the hash of the highest row that has one, or the     *)
(* genesis hash when no visible row has one.                               *)
IsLatestHash(rows, h) ==
  LET hashed == {row \in rows : row.hash # NoHash}
  IN  \/ hashed = {} /\ h = Genesis
      \/ \E row \in hashed : IsLast(hashed, row) /\ row.hash = h

(* Slip: the walk takes every prev_hash on trust.                          *)
CarriesAny(rows, row, h) == h # NoHash

(* The value of the loop variable prev of verify_chain when the walk gets  *)
(* to row, all rows below it having been found intact.                     *)
Carries(rows, row, h) ==
  LET below == {q \in rows : q.id < row.id /\ ~Legacy(q)}
  IN  \/ below = {} /\ h = Genesis
      \/ \E q \in below : IsLast(below, q) /\ q.hash = h

(* Slip: the loop compares the links only and recomputes no hash.          *)
Linked(rows, row) == Legacy(row) \/ Carries(rows, row, row.prev)

(* The test of the loop body: prev_hash continues the chain and row_hash   *)
(* is the recomputed one.                                                  *)
Intact(rows, row) ==
  \/ Legacy(row)
  \/ Carries(rows, row, row.prev) /\ row.hash = RowHash(row.prev, row.content)

(* The place of a row in the order of ids.                                 *)
Rank(rows, row) == Cardinality({q \in rows : q.id <= row.id})

(* The rows that SELECT ... ORDER BY id ASC LIMIT n returns.               *)
Window(rows, n) == {row \in rows : Rank(rows, row) <= n}

Broken(rows) == {row \in rows : ~Intact(rows, row)}

ChainOk(rows) == Broken(rows) = {}

(* The whole answer of verify_chain; firstBroken is 0 when there is none.  *)
VerifyChain(rows, limit) ==
  LET seen == Window(rows, limit)
  IN  IF ChainOk(seen)
      THEN [ok |-> TRUE, checked |-> Cardinality(seen), firstBroken |-> 0]
      ELSE LET bad == CHOOSE row \in Broken(seen) :
                        \A q \in Broken(seen) : row.id <= q.id
           IN  [ok          |-> FALSE,
                checked     |-> Cardinality({q \in seen : q.id <= bad.id}),
                firstBroken |-> bad.id]
===============================================================================
