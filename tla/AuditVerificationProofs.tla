------------------------ MODULE AuditVerificationProofs ------------------------
(***************************************************************************)
(* What verify_chain answers, for a log of any length and every sequence   *)
(* of writes, roll-backs, restarts, edits and deletions.                   *)
(***************************************************************************)
EXTENDS AuditVerification, AuditChainProofs, FiniteSetTheorems

(* The rows of the log are rows as they were written, up to the payload.   *)
Source(row, w) ==
  /\ w \in written
  /\ w.id = row.id /\ w.prev = row.prev /\ w.hash = row.hash

RowsInv ==
  /\ \A p, q \in rows : p.id = q.id => p = q
  /\ \A row \in rows : \E w \in written : Source(row, w)
  /\ \A w \in written : w.hash = NoHash <=> w.prev = NoHash

(* What was written verifies, as long as nothing was deleted: a row that   *)
(* follows a deleted tail is chained to a hash that occurs twice.          *)
WrittenInv ==
  {p.id : p \in rows} = {p.id : p \in written} => ChainOk(written)

Inv == TypeOK /\ RowsInv /\ WrittenInv

-------------------------------------------------------------------------------
(* Types.                                                                  *)

LEMMA RowHashType ==
  ASSUME NEW h \in Seq(Contents), NEW content \in Contents
  PROVE  RowHash(h, content) \in Seq(Contents)
BY DEF RowHash

(* _latest_hash answers a hash, never a NULL.                              *)
LEMMA LatestHashType ==
  ASSUME TypeOK, NEW h, IsLatestHash(rows, h)
  PROVE  h \in Seq(Contents)
<1>1. Genesis \in Seq(Contents)
  BY DEF Genesis
<1>2. \A row \in rows : row.hash # NoHash => row.hash \in Seq(Contents)
  BY DEF TypeOK, Row, Hashes
<1>3. QED
  BY <1>1, <1>2 DEF IsLatestHash, IsLast

LEMMA NewRowType ==
  ASSUME TypeOK, NEW h, IsLatestHash(rows, h), NEW content \in Contents,
         nextId <= MaxId
  PROVE  /\ NewRow(content, h) \in Row
         /\ NewRow(content, h).id = nextId
         /\ NewRow(content, h).hash = NoHash <=> NewRow(content, h).prev = NoHash
         /\ Legacy(NewRow(content, h)) \/ /\ NewRow(content, h).prev = h
                                          /\ NewRow(content, h).content = content
                                          /\ NewRow(content, h).hash = RowHash(h, content)
<1>1. h \in Seq(Contents) /\ RowHash(h, content) \in Seq(Contents)
  BY LatestHashType, RowHashType
<1>2. nextId \in 1..MaxId
  BY AuditVerificationAssumption DEF TypeOK
<1>3. CASE chainOn
  BY <1>1, <1>2, <1>3, AuditVerificationAssumption DEF NewRow, Row, Hashes
<1>4. CASE ~chainOn
  BY <1>2, <1>4 DEF NewRow, Row, Hashes, Legacy
<1>5. QED
  BY <1>3, <1>4

LEMMA EditType ==
  ASSUME NEW row \in Row, NEW content \in Contents
  PROVE  /\ [row EXCEPT !.content = content] \in Row
         /\ [row EXCEPT !.content = content].id = row.id
         /\ [row EXCEPT !.content = content].prev = row.prev
         /\ [row EXCEPT !.content = content].hash = row.hash
         /\ [row EXCEPT !.content = content].content = content
BY DEF Row

LEMMA TypeStep ==
  ASSUME TypeOK, [Next]_vars
  PROVE  TypeOK'
<1>1. ASSUME NEW content \in Contents, Write(content) PROVE TypeOK'
  <2>1. PICK h : /\ nextId <= MaxId
                 /\ IsLatestHash(rows, h)
                 /\ rows' = rows \cup {NewRow(content, h)}
                 /\ written' = written \cup {NewRow(content, h)}
                 /\ nextId' = nextId + 1
                 /\ UNCHANGED chainOn
    BY <1>1 DEF Write
  <2> DEFINE new == NewRow(content, h)
  <2>2. new \in Row /\ new.id = nextId
    BY <2>1, NewRowType
  <2> HIDE DEF new
  <2>3. rows' \subseteq Row /\ written' \subseteq Row
    BY <2>1, <2>2 DEF TypeOK, new
  <2>4. nextId' \in 1..(MaxId + 1) /\ chainOn' \in BOOLEAN
    BY <2>1, AuditVerificationAssumption DEF TypeOK
  <2>5. written' = written \cup {new}
    BY <2>1 DEF new
  <2>6. \A row \in written : row.id \in Nat /\ row.id < nextId
    BY DEF TypeOK, Row
  <2>7. \A p, q \in written' : p.id = q.id => p = q
    BY <2>2, <2>5, <2>6 DEF TypeOK
  <2>8. \A row \in written' : row.id < nextId'
    BY <2>1, <2>2, <2>5, <2>6 DEF TypeOK
  <2>9. QED
    BY <2>3, <2>4, <2>7, <2>8 DEF TypeOK
<1>2. CASE RollBack
  <2>1. nextId' \in 1..(MaxId + 1)
    BY <1>2, AuditVerificationAssumption DEF TypeOK, RollBack
  <2>2. \A row \in written : row.id < nextId'
    BY <1>2 DEF TypeOK, RollBack, Row
  <2>3. QED
    BY <1>2, <2>1, <2>2 DEF TypeOK, RollBack
<1>3. CASE Reconfigure
  BY <1>3 DEF TypeOK, Reconfigure
<1>4. ASSUME NEW row \in rows, NEW content \in Contents, Edit(row, content)
      PROVE  TypeOK'
  <2>1. [row EXCEPT !.content = content] \in Row
    BY EditType DEF TypeOK
  <2>2. QED
    BY <1>4, <2>1 DEF TypeOK, Edit
<1>5. ASSUME NEW row \in rows, Delete(row) PROVE TypeOK'
  BY <1>5 DEF TypeOK, Delete
<1>6. CASE UNCHANGED vars
  BY <1>6 DEF TypeOK, vars
<1>7. QED
  BY <1>1, <1>2, <1>3, <1>4, <1>5, <1>6 DEF Next

(* The log is well formed whatever was written, rolled back, edited and    *)
(* deleted: write_audit never draws an id twice.                           *)
THEOREM LogIsWellFormed == Spec => []TypeOK
<1>1. Init => TypeOK
  BY AuditVerificationAssumption DEF Init, TypeOK
<1>2. TypeOK /\ [Next]_vars => TypeOK'
  BY TypeStep
<1>3. QED
  BY <1>1, <1>2, PTL DEF Spec

-------------------------------------------------------------------------------
(* The invariant.                                                          *)

(* What was written is a log, and so are the rows that are left of it.     *)
LEMMA AreLogs ==
  ASSUME TypeOK, RowsInv
  PROVE  IsLog(rows) /\ IsLog(written)
BY DEF TypeOK, RowsInv, Row, IsLog

(* write_audit: the row and what was written of it are one.                *)
LEMMA WriteRows ==
  ASSUME Inv, NEW content \in Contents, Write(content)
  PROVE  RowsInv' /\ WrittenInv'
<1>1. PICK h : /\ nextId <= MaxId
               /\ IsLatestHash(rows, h)
               /\ rows' = rows \cup {NewRow(content, h)}
               /\ written' = written \cup {NewRow(content, h)}
  BY DEF Write
<1> DEFINE new == NewRow(content, h)
<1>2. /\ new.id = nextId
      /\ new.id \in Nat
      /\ new.hash = NoHash <=> new.prev = NoHash
      /\ Legacy(new) \/ /\ new.prev = h
                        /\ new.hash = RowHash(h, new.content)
  <2>1. nextId \in Nat
    BY AuditVerificationAssumption DEF Inv, TypeOK
  <2>2. QED
    BY <1>1, <2>1, NewRowType DEF Inv
<1>3. rows' = rows \cup {new} /\ written' = written \cup {new}
  BY <1>1
<1> HIDE DEF new
<1>4. /\ \A q \in written : q.id \in Nat /\ q.id < new.id
      /\ \A p \in rows : p.id \in Nat /\ p.id < new.id
  BY <1>2 DEF Inv, TypeOK, RowsInv, Source, Row
<1>5. RowsInv'
  <2>1. \A p, q \in rows' : p.id = q.id => p = q
    BY <1>3, <1>4 DEF Inv, RowsInv
  <2>2. \A row \in rows' : \E w \in written' : Source(row, w)'
    BY <1>3 DEF Inv, RowsInv, Source
  <2>3. \A w \in written' : w.hash = NoHash <=> w.prev = NoHash
    BY <1>2, <1>3 DEF Inv, RowsInv
  <2>4. QED
    BY <2>1, <2>2, <2>3 DEF RowsInv
<1>6. ASSUME {p.id : p \in rows'} = {p.id : p \in written'}
      PROVE  ChainOk(written')
  <2>1. \A w \in written : \E row \in rows : row.id = w.id
    <3>1. SUFFICES ASSUME NEW w \in written PROVE \E row \in rows : row.id = w.id
      OBVIOUS
    <3>2. PICK row \in rows' : row.id = w.id
      BY <1>3, <1>6
    <3>3. QED
      BY <1>3, <1>4, <3>2
  <2>2. \A row \in rows : \E w \in written : Source(row, w)
    BY DEF Inv, RowsInv
  <2>3. ChainOk(written)
    <3>1. {p.id : p \in rows} = {p.id : p \in written}
      BY <2>1, <2>2 DEF Source
    <3>2. QED
      BY <3>1 DEF Inv, WrittenInv
  <2>4. \A w \in written, row \in rows : w.id = row.id => Source(row, w)
    BY <2>2 DEF Inv, TypeOK, Source
  <2>5. IsLatestHash(written, h)
    <3>1. CASE {row \in rows : row.hash # NoHash} = {}
      <4>1. {w \in written : w.hash # NoHash} = {}
        BY <2>1, <2>4, <3>1 DEF Source
      <4>2. QED
        BY <1>1, <3>1, <4>1 DEF IsLatestHash, IsLast
    <3>2. CASE {row \in rows : row.hash # NoHash} # {}
      <4>1. PICK row \in rows : /\ row.hash # NoHash /\ row.hash = h
                                /\ \A q \in rows : q.hash # NoHash => q.id <= row.id
        BY <1>1, <3>2 DEF IsLatestHash, IsLast
      <4>2. PICK w \in written : Source(row, w)
        BY <2>2
      <4>3. \A v \in written : v.hash # NoHash => v.id <= w.id
        BY <2>1, <2>4, <4>1, <4>2 DEF Source
      <4>4. w.hash # NoHash /\ w.hash = h
        BY <4>1, <4>2 DEF Source
      <4>5. QED
        BY <4>3, <4>4 DEF IsLatestHash, IsLast
    <3>3. QED
      BY <3>1, <3>2
  <2>6. IsLog(written)
    BY AreLogs DEF Inv
  <2>7. CASE Legacy(new)
    <3>1. ASSUME NEW q \in written PROVE Intact(written', q)
      <4>1. {p \in written : p.id < q.id} = {p \in written' : p.id < q.id}
        <5>1. ~(new.id < q.id)
          BY <1>2, <1>4
        <5>2. QED
          BY <1>3, <5>1
      <4>2. Intact(written, q)
        BY <2>3, <3>1 DEF ChainOk, Broken
      <4>3. QED
        BY <4>1, <4>2, IntactBelow
    <3>2. Intact(written', new)
      BY <2>7 DEF Intact
    <3>3. QED
      BY <1>3, <3>1, <3>2 DEF ChainOk, Broken
  <2>8. CASE ~Legacy(new)
    <3>1. \A q \in written : q.hash = NoHash => q.prev = NoHash
      BY DEF Inv, RowsInv
    <3>2. ChainOk(written \cup {new})
      BY <1>2, <1>4, <2>3, <2>5, <2>6, <2>8, <3>1, AppendKeepsChain
    <3>3. QED
      BY <1>3, <3>2
  <2>9. QED
    BY <2>7, <2>8
<1>7. QED
  BY <1>5, <1>6 DEF WrittenInv

(* UPDATE audit_logs on a payload column.                                  *)
LEMMA EditRows ==
  ASSUME Inv, NEW row \in rows, NEW content \in Contents, Edit(row, content)
  PROVE  RowsInv' /\ WrittenInv'
<1> DEFINE new == [row EXCEPT !.content = content]
<1>1. new.id = row.id /\ new.prev = row.prev /\ new.hash = row.hash
  BY EditType DEF Inv, TypeOK
<1>2. rows' = (rows \ {row}) \cup {new} /\ written' = written
  BY DEF Edit
<1> HIDE DEF new
<1>3. RowsInv'
  <2>1. \A p, q \in rows' : p.id = q.id => p = q
    BY <1>1, <1>2 DEF Inv, RowsInv
  <2>2. \A p \in rows' : \E w \in written' : Source(p, w)'
    BY <1>1, <1>2 DEF Inv, RowsInv, Source
  <2>3. QED
    BY <1>2, <2>1, <2>2 DEF Inv, RowsInv
<1>4. {p.id : p \in rows'} = {p.id : p \in rows}
  BY <1>1, <1>2
<1>5. QED
  BY <1>2, <1>3, <1>4 DEF Inv, WrittenInv

(* DELETE FROM audit_logs: an id is missing from then on.                  *)
LEMMA DeleteRows ==
  ASSUME Inv, NEW row \in rows, Delete(row)
  PROVE  RowsInv' /\ WrittenInv'
<1>1. rows' = rows \ {row} /\ written' = written
  BY DEF Delete
<1>2. RowsInv'
  BY <1>1 DEF Inv, RowsInv, Source
<1>3. row.id \notin {p.id : p \in rows'}
  BY <1>1 DEF Inv, RowsInv
<1>4. row.id \in {p.id : p \in written'}
  BY <1>1 DEF Inv, RowsInv, Source
<1>5. QED
  BY <1>2, <1>3, <1>4 DEF WrittenInv

LEMMA Invariant == Spec => []Inv
<1>1. Init => Inv
  <2>1. Init => TypeOK
    BY AuditVerificationAssumption DEF Init, TypeOK
  <2>2. Init => RowsInv /\ WrittenInv
    BY DEF Init, RowsInv, WrittenInv, ChainOk, Broken
  <2>3. QED
    BY <2>1, <2>2 DEF Inv
<1>2. Inv /\ [Next]_vars => Inv'
  <2> SUFFICES ASSUME Inv, [Next]_vars PROVE Inv'
    OBVIOUS
  <2>1. TypeOK'
    BY TypeStep DEF Inv
  <2>2. ASSUME UNCHANGED << rows, written >> PROVE RowsInv' /\ WrittenInv'
    BY <2>2 DEF Inv, RowsInv, WrittenInv, Source
  <2>3. RowsInv' /\ WrittenInv'
    BY <2>2, WriteRows, EditRows, DeleteRows
    DEF Inv, Next, RollBack, Reconfigure, vars
  <2>4. QED
    BY <2>1, <2>3 DEF Inv
<1>3. QED
  BY <1>1, <1>2, PTL DEF Spec

-------------------------------------------------------------------------------
(* A walk with a limit of MaxId sees every row.                            *)

LEMMA LogIsFinite ==
  ASSUME TypeOK, RowsInv
  PROVE  IsFiniteSet(rows) /\ Cardinality(rows) <= MaxId
<1> DEFINE ids == [row \in rows |-> row.id]
<1>1. ids \in Injection(rows, 1..MaxId)
  BY DEF TypeOK, RowsInv, Row, Injection, IsInjective
<1>2. IsFiniteSet(1..MaxId) /\ Cardinality(1..MaxId) = MaxId
  BY FS_Interval, AuditVerificationAssumption
<1> HIDE DEF ids
<1>3. QED
  BY <1>1, <1>2, FS_Injection

LEMMA WindowIsAll ==
  ASSUME TypeOK, RowsInv
  PROVE  Window(rows, MaxId) = rows
<1>1. ASSUME NEW T \in SUBSET rows PROVE Cardinality(T) <= MaxId
  <2>1. IsFiniteSet(rows) /\ Cardinality(rows) <= MaxId
    BY LogIsFinite
  <2>2. Cardinality(T) <= Cardinality(rows) /\ IsFiniteSet(T)
    BY <2>1, FS_Subset
  <2>3. Cardinality(T) \in Nat /\ Cardinality(rows) \in Nat
    BY <2>1, <2>2, FS_CardinalityType
  <2>4. QED
    BY <2>1, <2>2, <2>3, AuditVerificationAssumption
<1>2. \A row \in rows : Cardinality({q \in rows : q.id <= row.id}) <= MaxId
  BY <1>1
<1>3. QED
  BY <1>2 DEF Window, Rank

(* With no limit that bites, the answer names the least broken id.         *)
LEMMA Answer ==
  ASSUME TypeOK, RowsInv
  PROVE  /\ VerifyChain(rows, MaxId).ok = ChainOk(rows)
         /\ VerifyChain(rows, MaxId).firstBroken =
              IF Broken(rows) = {} THEN 0 ELSE Min({p.id : p \in Broken(rows)})
<1> DEFINE bad == CHOOSE row \in Broken(rows) :
                    \A q \in Broken(rows) : row.id <= q.id
           ids == {p.id : p \in Broken(rows)}
<1>1. CASE Broken(rows) = {}
  BY <1>1, WindowIsAll DEF VerifyChain, ChainOk
<1>2. CASE Broken(rows) # {}
  <2>1. ids \subseteq Nat /\ ids # {}
    BY <1>2 DEF Broken, TypeOK, Row
  <2>2. PICK n \in ids : \A m \in ids : n <= m
    <3> HIDE DEF ids
    <3>1. QED
      BY <2>1, LeastId
  <2>3. bad \in Broken(rows) /\ \A q \in Broken(rows) : bad.id <= q.id
    <3>1. PICK row \in Broken(rows) : row.id = n
      OBVIOUS
    <3>2. \A q \in Broken(rows) : row.id <= q.id
      BY <2>2, <3>1
    <3>3. QED
      BY <3>2
  <2>4. VerifyChain(rows, MaxId) =
          [ok |-> FALSE, checked |-> Cardinality({q \in rows : q.id <= bad.id}),
           firstBroken |-> bad.id]
    BY <1>2, WindowIsAll DEF VerifyChain, ChainOk
  <2> HIDE DEF bad
  <2>5. bad.id \in ids /\ \A m \in ids : bad.id <= m
    BY <2>3
  <2>6. Min(ids) = bad.id
    <3> HIDE DEF ids
    <3>1. Min(ids) \in ids /\ \A m \in ids : Min(ids) <= m
      BY <2>5 DEF Min
    <3>2. Min(ids) \in Nat /\ bad.id \in Nat
      BY <2>1, <2>5, <3>1
    <3>3. Min(ids) <= bad.id /\ bad.id <= Min(ids)
      BY <2>5, <3>1
    <3> HIDE DEF bad
    <3>4. QED
      BY <3>2, <3>3
  <2>7. VerifyChain(rows, MaxId).ok = FALSE
    BY <2>4
  <2>8. VerifyChain(rows, MaxId).firstBroken = bad.id
    BY <2>4
  <2>9. ChainOk(rows) = FALSE
    BY <1>2 DEF ChainOk
  <2>10. QED
    BY <1>2, <2>6, <2>7, <2>8, <2>9
<1>3. QED
  BY <1>1, <1>2

-------------------------------------------------------------------------------
(* Editing.                                                                *)

(* A log in which no row was deleted is broken at the rows that differ     *)
(* from what was written, and nowhere else: verify_chain compares a row    *)
(* with the stored hash below it, which an edit does not touch.            *)
LEMMA EditsAreBroken ==
  ASSUME Inv, {p.id : p \in rows} = {p.id : p \in written}
  PROVE  Broken(rows) = {q \in rows : ~Legacy(q) /\ q \notin written}
<1>1. ChainOk(written)
  BY DEF Inv, WrittenInv
<1>2. /\ \A row \in rows : \E w \in written : Source(row, w)
      /\ \A w \in written : \E row \in rows : Source(row, w)
  <2>1. \A row \in rows : \E w \in written : Source(row, w)
    BY DEF Inv, RowsInv
  <2>2. ASSUME NEW w \in written PROVE \E row \in rows : Source(row, w)
    <3>1. PICK row \in rows : row.id = w.id
      OBVIOUS
    <3>2. QED
      BY <2>1, <3>1 DEF Inv, TypeOK, Source
  <2>3. QED
    BY <2>1, <2>2
<1>3. ASSUME NEW row \in rows, NEW w \in written, Source(row, w), ~Legacy(row)
      PROVE  Carries(rows, row, row.prev)
  <2> DEFINE below == {q \in rows : q.id < row.id /\ ~Legacy(q)}
             before == {v \in written : v.id < w.id /\ ~Legacy(v)}
  <2>1. Carries(written, w, row.prev)
    BY <1>1, <1>3 DEF ChainOk, Broken, Intact, Source, Legacy
  <2>2. CASE before = {} /\ row.prev = Genesis
    <3>1. below = {}
      BY <1>2, <1>3, <2>2 DEF Source, Legacy
    <3>2. QED
      BY <2>2, <3>1 DEF Carries
  <2>3. CASE \E v \in before : IsLast(before, v) /\ v.hash = row.prev
    <3>1. PICK v \in before : /\ \A u \in before : u.id <= v.id
                              /\ v.hash = row.prev
      BY <2>3 DEF IsLast
    <3>2. PICK q \in rows : Source(q, v)
      BY <1>2, <3>1
    <3>3. q \in below /\ q.hash = row.prev
      BY <1>3, <3>1, <3>2 DEF Source, Legacy
    <3>4. ASSUME NEW p \in below PROVE p.id <= q.id
      <4>1. PICK u \in written : Source(p, u)
        BY <1>2
      <4>2. u \in before
        BY <1>3, <4>1 DEF Source, Legacy
      <4>3. QED
        BY <3>1, <3>2, <4>1, <4>2 DEF Source
    <3> HIDE DEF below
    <3>5. IsLast(below, q)
      BY <3>3, <3>4 DEF IsLast
    <3>6. QED
      BY <3>3, <3>5 DEF Carries, below
  <2>4. QED
    BY <2>1, <2>2, <2>3 DEF Carries
<1>4. ASSUME NEW row \in rows, ~Legacy(row)
      PROVE  Intact(rows, row) <=> row \in written
  <2>1. PICK w \in written : Source(row, w)
    BY <1>2
  <2>2. Carries(rows, row, row.prev)
    BY <1>3, <1>4, <2>1
  <2>3. ~Legacy(w) /\ Intact(written, w)
    BY <1>1, <1>4, <2>1 DEF ChainOk, Broken, Source, Legacy
  <2>4. row.hash = RowHash(row.prev, w.content)
    BY <2>1, <2>3 DEF Intact, Source
  <2>5. row \in Row /\ w \in Row
    BY DEF Inv, TypeOK
  <2>6. row.prev \in Seq(Contents)
    BY <1>4, <2>1, <2>5 DEF Inv, RowsInv, Source, Legacy, Row, Hashes
  <2>7. row.hash = RowHash(row.prev, row.content) <=> row.content = w.content
    BY <2>4, <2>5, <2>6, HashDeterminesContent DEF Row
  <2>8. row.content = w.content <=> row = w
    BY <2>1, <2>5 DEF Source, Row
  <2>9. row \in written <=> row = w
    BY <2>1 DEF Inv, TypeOK, Source
  <2>10. QED
    BY <1>4, <2>2, <2>7, <2>8, <2>9 DEF Intact
<1>5. QED
  BY <1>4 DEF Broken, Intact

(* tests/test_audit_chain.py:5 for every log and every number of edits: as *)
(* long as no row is deleted verify_chain reports the first row that was   *)
(* changed, and raises no false alarm.                                     *)
THEOREM EditsAreReported == Spec => []FirstEditIsReported
<1>1. Inv => FirstEditIsReported
  <2> SUFFICES ASSUME Inv, {p.id : p \in rows} = {p.id : p \in written}
               PROVE  VerifyChain(rows, MaxId).firstBroken =
                        IF EditedIds = {} THEN 0 ELSE Min(EditedIds)
    BY DEF FirstEditIsReported
  <2>1. EditedIds = {p.id : p \in Broken(rows)}
    BY EditsAreBroken DEF EditedIds
  <2>2. EditedIds = {} <=> Broken(rows) = {}
    BY <2>1
  <2>3. QED
    BY <2>1, <2>2, Answer DEF Inv
<1>2. QED
  BY <1>1, Invariant, PTL

-------------------------------------------------------------------------------
(* What an ok vouches for.                                                 *)

Below(row) == Before(Chained, row)

LEMMA ChainedIsLog ==
  ASSUME TypeOK, RowsInv
  PROVE  IsLog(Chained) /\ IsFiniteSet(Chained)
<1>1. Chained \in SUBSET rows
  BY DEF Chained
<1>2. QED
  BY <1>1, AreLogs, LogIsFinite, FS_Subset DEF IsLog

(* The payloads up to a row are those before it and its own.               *)
LEMMA PayloadsGrow ==
  ASSUME TypeOK, RowsInv, NEW row \in Chained
  PROVE  Payloads(Rank(Chained, row)) = RowHash(Payloads(Rank(Chained, row) - 1), row.content)
<1> DEFINE At(i) == (CHOOSE r \in Chained : Rank(Chained, r) = i).content
           S == {At(i) : i \in Nat}
           n == Rank(Chained, row) - 1
<1>1. n \in Nat /\ Rank(Chained, row) = n + 1
  BY ChainedIsLog, RankCounts
<1>2. At(n + 1) = row.content
  <2>1. \A r \in Chained : Rank(Chained, r) = Rank(Chained, row) => r = row
    BY ChainedIsLog, RankIsInjective
  <2>2. (CHOOSE r \in Chained : Rank(Chained, r) = Rank(Chained, row)) = row
    BY <2>1
  <2>3. QED
    BY <1>1, <2>2
<1>3. Payloads(n) = [i \in 1..n |-> At(i)] /\ Payloads(n + 1) = [i \in 1..(n + 1) |-> At(i)]
  BY DEF Payloads
<1>4. \A i \in Nat : At(i) \in S
  OBVIOUS
<1> HIDE DEF n, At, S
<1>5. Payloads(n) \in Seq(S) /\ Payloads(n + 1) \in Seq(S) /\ row.content \in S
  BY <1>1, <1>2, <1>3, <1>4
<1>6. Len(Payloads(n)) = n /\ Len(Payloads(n + 1)) = n + 1
  BY <1>1, <1>3, <1>5
<1>7. Append(Payloads(n), row.content) \in Seq(S)
  BY <1>5
<1>8. Len(Append(Payloads(n), row.content)) = n + 1
  BY <1>5, <1>6, AppendProperties
<1>9. \A i \in 1..(n + 1) : Append(Payloads(n), row.content)[i] = Payloads(n + 1)[i]
  BY <1>1, <1>2, <1>3, <1>5, <1>6, AppendProperties
<1>10. Append(Payloads(n), row.content) = Payloads(n + 1)
  BY <1>5, <1>6, <1>7, <1>8, <1>9, SeqEqual
<1>11. QED
  BY <1>1, <1>10 DEF RowHash, n

(* The hash the walk carries to a row, when all hashes below it are what   *)
(* they should be.                                                         *)
LEMMA CarriedPayloads ==
  ASSUME TypeOK, RowsInv, NEW row \in Chained,
         \A q \in Below(row) : q.hash = Payloads(Rank(Chained, q)),
         NEW h
  PROVE  Carries(rows, row, h) <=> h = Payloads(Rank(Chained, row) - 1)
<1>1. {q \in rows : q.id < row.id /\ ~Legacy(q)} = Below(row)
  BY DEF Below, Before, Chained
<1>2. Carries(rows, row, h) <=> \/ Below(row) = {} /\ h = Genesis
                                \/ \E q \in Below(row) : IsLast(Below(row), q) /\ q.hash = h
  BY <1>1 DEF Carries
<1>3. CASE Below(row) = {}
  <2>1. Rank(Chained, row) - 1 = 0
    BY <1>3, ChainedIsLog, RankCounts, FS_EmptySet DEF Below
  <2>2. Payloads(0) = Genesis
    BY DEF Payloads, Genesis
  <2>3. QED
    BY <1>2, <1>3, <2>1, <2>2
<1>4. CASE Below(row) # {}
  <2>1. ASSUME NEW q \in Below(row), IsLast(Below(row), q)
        PROVE  q.hash = Payloads(Rank(Chained, row) - 1)
    <3>1. q \in Chained /\ Rank(Chained, row) = Rank(Chained, q) + 1
      BY <2>1, ChainedIsLog, RankOfNext DEF Below
    <3>2. Rank(Chained, q) \in Nat
      BY <3>1, ChainedIsLog, RanksAreAll
    <3>3. QED
      BY <3>1, <3>2
  <2>2. PICK q \in Below(row) : IsLast(Below(row), q)
    <3>1. Below(row) \in SUBSET Chained
      BY DEF Below, Before
    <3>2. IsLog(Below(row)) /\ IsFiniteSet(Below(row))
      BY <3>1, ChainedIsLog, FS_Subset DEF IsLog
    <3>3. QED
      BY <1>4, <3>2, LogHasLast
  <2>3. QED
    BY <1>2, <1>4, <2>1, <2>2
<1>5. QED
  BY <1>3, <1>4

LEMMA IntactMeansPayloads ==
  ASSUME TypeOK, RowsInv, NEW row \in Chained,
         \A q \in Below(row) : q.hash = Payloads(Rank(Chained, q))
  PROVE  Intact(rows, row) <=> /\ row.hash = Payloads(Rank(Chained, row))
                               /\ row.prev = Payloads(Rank(Chained, row) - 1)
<1>1. ~Legacy(row)
  BY DEF Chained
<1>2. Carries(rows, row, row.prev) <=> row.prev = Payloads(Rank(Chained, row) - 1)
  BY CarriedPayloads
<1>3. Payloads(Rank(Chained, row)) = RowHash(Payloads(Rank(Chained, row) - 1), row.content)
  BY PayloadsGrow
<1>4. QED
  BY <1>1, <1>2, <1>3 DEF Intact

(* An ok says of every chained row, for a log of any length and whatever   *)
(* was edited or deleted: its hash is that of the payloads now found in    *)
(* the chained rows up to it, in the order of ids.                         *)
THEOREM OkVouchesForPayloads == Spec => []OkMeansPayloads
<1>1. ASSUME TypeOK, RowsInv PROVE OkMeansPayloads
  <2> DEFINE Good(row) == /\ row.hash = Payloads(Rank(Chained, row))
                          /\ row.prev = Payloads(Rank(Chained, row) - 1)
             bad == {p.id : p \in {row \in Chained : ~Good(row)}}
  <2>1. ChainOk(rows) <=> \A row \in Chained : Intact(rows, row)
    BY DEF ChainOk, Broken, Chained, Intact
  <2>2. ASSUME \A row \in Chained : Good(row)
        PROVE  \A row \in Chained : Intact(rows, row)
    BY <1>1, <2>2, IntactMeansPayloads DEF Below, Before
  <2>3. ASSUME \A row \in Chained : Intact(rows, row)
        PROVE  \A row \in Chained : Good(row)
    <3> SUFFICES ASSUME bad # {} PROVE FALSE
      OBVIOUS
    <3>1. bad \subseteq Nat
      <4>1. \A row \in Chained : row.id \in Nat
        BY <1>1, ChainedIsLog DEF IsLog
      <4>2. QED
        BY <4>1
    <3>2. PICK n \in bad : \A m \in bad : n <= m
      <4> HIDE DEF bad
      <4>1. QED
        BY <3>1, LeastId
    <3>3. PICK row \in Chained : ~Good(row) /\ row.id = n
      OBVIOUS
    <3>4. \A q \in Below(row) : Good(q)
      <4>1. SUFFICES ASSUME NEW q \in Below(row), ~Good(q) PROVE FALSE
        OBVIOUS
      <4>2. q \in Chained /\ q.id < row.id
        BY DEF Below, Before
      <4>3. q.id \in bad
        BY <4>1, <4>2
      <4>4. n <= q.id /\ q.id \in Nat /\ n \in Nat
        BY <3>1, <3>2, <4>3
      <4>5. QED
        BY <3>3, <4>2, <4>4
    <3>5. Good(row)
      BY <1>1, <2>3, <3>4, IntactMeansPayloads
    <3>6. QED
      BY <3>3, <3>5
  <2>4. VerifyChain(rows, MaxId).ok = ChainOk(rows)
    BY <1>1, Answer
  <2>5. QED
    BY <2>1, <2>2, <2>3, <2>4 DEF OkMeansPayloads
<1>2. Inv => TypeOK /\ RowsInv
  BY DEF Inv
<1>3. QED
  BY <1>1, <1>2, Invariant, PTL

-------------------------------------------------------------------------------
(* The loop of verify_chain.                                               *)

Start == [prev |-> Genesis, checked |-> 0, firstBroken |-> 0]

(* g tells what the loop knows after each of the first n rows.             *)
After(g, n) ==
  g = [i \in 0..n |-> IF i = 0 THEN Start ELSE WalkBody(g[i - 1], ByAscendingId[i])]

(* One row more: the walk goes on from where it was.                       *)
LEMMA WalkGoesOn ==
  ASSUME NEW n \in Nat, NEW h, After(h, n)
  PROVE  \E g : After(g, n + 1)
<1> DEFINE last == WalkBody(h[n], ByAscendingId[n + 1])
           g == [i \in 0..(n + 1) |-> IF i = n + 1 THEN last ELSE h[i]]
<1>1. \A i \in 0..n : h[i] = IF i = 0 THEN Start ELSE WalkBody(h[i - 1], ByAscendingId[i])
  BY DEF After
<1>2. ASSUME NEW i \in 0..(n + 1)
      PROVE  g[i] = IF i = 0 THEN Start ELSE WalkBody(g[i - 1], ByAscendingId[i])
  <2>1. CASE i = n + 1
    <3>1. g[i] = last /\ g[i - 1] = h[n] /\ i # 0 /\ i - 1 = n
      BY <2>1
    <3>2. QED
      BY <2>1, <3>1
  <2>2. CASE i # n + 1
    <3>1. i \in 0..n /\ g[i] = h[i]
      BY <2>2
    <3>2. i # 0 => g[i - 1] = h[i - 1]
      BY <2>2
    <3> HIDE DEF g
    <3>3. QED
      BY <1>1, <3>1, <3>2
  <2>3. QED
    BY <2>1, <2>2
<1>3. g = [i \in 0..(n + 1) |-> g[i]]
  OBVIOUS
<1>4. After(g, n + 1)
  <2> HIDE DEF g
  <2>1. QED
    BY <1>2, <1>3 DEF After
<1>5. QED
  BY <1>4

LEMMA WalksExist ==
  ASSUME NEW n \in Nat
  PROVE  \E g : After(g, n)
<1> DEFINE T == {m \in Nat : ~\E g : After(g, m)}
<1>1. SUFFICES ASSUME T # {} PROVE FALSE
  OBVIOUS
<1>2. PICK m \in T : \A k \in T : m <= k
  <2>1. T \subseteq Nat
    OBVIOUS
  <2> HIDE DEF T
  <2>2. QED
    BY <1>1, <2>1, LeastId
<1>3. CASE m = 0
  <2> DEFINE g == [i \in 0..0 |-> Start]
  <2>1. After(g, 0)
    BY DEF After
  <2>2. QED
    BY <1>3, <2>1
<1>4. CASE m # 0
  <2>1. m - 1 \in Nat /\ ~(m <= m - 1) /\ (m - 1) + 1 = m
    BY <1>4
  <2>2. m - 1 \notin T
    <3> HIDE DEF T
    <3>1. QED
      BY <1>2, <2>1
  <2>3. PICK h : After(h, m - 1)
    BY <2>1, <2>2
  <2>4. \E g : After(g, m)
    BY <2>1, <2>3, WalkGoesOn
  <2>5. QED
    BY <2>4
<1>5. QED
  BY <1>3, <1>4

LEMMA WalkIs ==
  ASSUME Cardinality(rows) \in Nat
  PROVE  \E g : /\ After(g, Cardinality(rows))
                /\ \A n : Walk(n) = g[IF n < Cardinality(rows) THEN n ELSE Cardinality(rows)]
<1> DEFINE h == CHOOSE g : After(g, Cardinality(rows))
<1>1. After(h, Cardinality(rows))
  BY WalksExist
<1>2. \A n : Walk(n) = h[IF n < Cardinality(rows) THEN n ELSE Cardinality(rows)]
  BY DEF Walk, After, Start
<1> HIDE DEF h
<1>3. QED
  BY <1>1, <1>2

(* h is the hash that the first i rows, all of them intact, hand on.       *)
HandOn(i, h) ==
  LET below == {q \in rows : Rank(rows, q) <= i /\ ~Legacy(q)}
  IN  \/ below = {} /\ h = Genesis
      \/ \E q \in below : IsLast(below, q) /\ q.hash = h

(* What the loop knows after i rows, as long as none was broken ...        *)
StillOk(acc, i) ==
  /\ acc.firstBroken = 0
  /\ acc.checked = i
  /\ HandOn(i, acc.prev)
  /\ \A q \in rows : Rank(rows, q) <= i => Intact(rows, q)

(* ... and once one was.                                                   *)
FoundBroken(acc, i) ==
  \E bad \in Broken(rows) :
    /\ Rank(rows, bad) <= i
    /\ \A q \in Broken(rows) : bad.id <= q.id
    /\ acc.firstBroken = bad.id
    /\ acc.checked = Rank(rows, bad)

States == [prev : Hashes, checked : Nat, firstBroken : Nat]

LEMMA RowsAreRanked ==
  ASSUME TypeOK, RowsInv
  PROVE  /\ IsLog(rows) /\ IsFiniteSet(rows)
         /\ Cardinality(rows) \in Nat
         /\ \A row \in rows : /\ Rank(rows, row) \in 1..Cardinality(rows)
                              /\ Rank(rows, row) \in Nat
                              /\ row \in Row /\ row.id \in Nat /\ row.id # 0
<1>1. IsLog(rows) /\ IsFiniteSet(rows)
  BY AreLogs, LogIsFinite
<1>2. Cardinality(rows) \in Nat
  BY <1>1, FS_CardinalityType
<1>3. \A row \in rows : Rank(rows, row) \in 1..Cardinality(rows)
  BY <1>1, RanksAreAll
<1>4. \A row \in rows : row \in Row /\ row.id \in Nat /\ row.id # 0
  BY DEF TypeOK, Row
<1>5. QED
  BY <1>1, <1>2, <1>3, <1>4

LEMMA RowAt ==
  ASSUME TypeOK, RowsInv, NEW i \in 1..Cardinality(rows)
  PROVE  ByAscendingId[i] \in rows /\ Rank(rows, ByAscendingId[i]) = i
<1>1. \E row \in rows : Rank(rows, row) = i
  BY RowsAreRanked, RanksAreAll
<1>2. ByAscendingId[i] = CHOOSE row \in rows : Rank(rows, row) = i
  BY DEF ByAscendingId
<1>3. QED
  BY <1>1, <1>2

(* Ranks are in the order of ids.                                          *)
LEMMA RankOrder ==
  ASSUME TypeOK, RowsInv, NEW p \in rows, NEW q \in rows
  PROVE  /\ p.id < q.id <=> Rank(rows, p) < Rank(rows, q)
         /\ p.id <= q.id <=> Rank(rows, p) <= Rank(rows, q)
<1>1. /\ p.id \in Nat /\ q.id \in Nat
      /\ Rank(rows, p) \in Nat /\ Rank(rows, q) \in Nat
  BY RowsAreRanked
<1>2. p.id < q.id => Rank(rows, p) < Rank(rows, q)
  BY RowsAreRanked, RankGrows
<1>3. q.id < p.id => Rank(rows, q) < Rank(rows, p)
  BY RowsAreRanked, RankGrows
<1>4. p.id = q.id => p = q
  BY DEF RowsInv
<1>5. QED
  BY <1>1, <1>2, <1>3, <1>4

(* The hash that is handed on is the one the next row is judged by, and    *)
(* there is only one.                                                      *)
LEMMA HandOnIsCarried ==
  ASSUME TypeOK, RowsInv, NEW i \in Nat, NEW row \in rows,
         Rank(rows, row) = i + 1, NEW h, HandOn(i, h)
  PROVE  \A g : Carries(rows, row, g) <=> g = h
<1> DEFINE below == {q \in rows : Rank(rows, q) <= i /\ ~Legacy(q)}
<1>1. ASSUME NEW q \in rows PROVE q.id < row.id <=> Rank(rows, q) <= i
  <2>1. Rank(rows, q) \in Nat
    BY RowsAreRanked
  <2>2. QED
    BY <2>1, RankOrder
<1>2. {q \in rows : q.id < row.id /\ ~Legacy(q)} = below
  BY <1>1
<1>3. \A p, q \in below : IsLast(below, p) /\ IsLast(below, q) => p = q
  <2>1. \A p, q \in below : IsLast(below, p) /\ IsLast(below, q) => p.id = q.id
    <3>1. \A p \in below : p.id \in Nat
      BY RowsAreRanked
    <3> HIDE DEF below
    <3>2. QED
      BY <3>1 DEF IsLast
  <2>2. QED
    BY <2>1 DEF RowsInv
<1>4. \A g : Carries(rows, row, g) <=> \/ below = {} /\ g = Genesis
                                       \/ \E q \in below : IsLast(below, q) /\ q.hash = g
  BY <1>2 DEF Carries
<1>5. \/ below = {} /\ h = Genesis
      \/ \E q \in below : IsLast(below, q) /\ q.hash = h
  BY DEF HandOn
<1> HIDE DEF below
<1>6. QED
  BY <1>3, <1>4, <1>5

(* One round of the loop, by its four branches.                            *)
LEMMA OneMoreRow ==
  ASSUME TypeOK, RowsInv, NEW i \in Nat, NEW acc \in States,
         StillOk(acc, i) \/ FoundBroken(acc, i),
         NEW row \in rows, Rank(rows, row) = i + 1
  PROVE  LET new == WalkBody(acc, row)
         IN  new \in States /\ (StillOk(new, i + 1) \/ FoundBroken(new, i + 1))
<1> DEFINE new == WalkBody(acc, row)
<1>1. ASSUME NEW q \in rows
      PROVE  /\ Rank(rows, q) \in Nat
             /\ Rank(rows, q) <= i + 1 <=> Rank(rows, q) <= i \/ q = row
  <2>1. Rank(rows, q) \in Nat
    BY RowsAreRanked
  <2>2. Rank(rows, q) = i + 1 => q = row
    BY RowsAreRanked, RankIsInjective
  <2>3. QED
    BY <2>1, <2>2
<1>2. row \in Row /\ row.id \in Nat /\ row.id # 0
  BY RowsAreRanked
<1>3. ASSUME FoundBroken(acc, i)
      PROVE  new \in States /\ FoundBroken(new, i + 1)
  <2>1. acc.firstBroken # 0
    BY <1>3, RowsAreRanked DEF FoundBroken, Broken
  <2>2. new = acc
    BY <2>1 DEF WalkBody
  <2>3. FoundBroken(new, i + 1)
    BY <1>1, <1>3, <2>2 DEF FoundBroken, Broken
  <2>4. QED
    BY <2>2, <2>3
<1>4. ASSUME StillOk(acc, i), Legacy(row)
      PROVE  new \in States /\ StillOk(new, i + 1)
  <2>1. new = [acc EXCEPT !.checked = @ + 1]
    BY <1>4 DEF WalkBody, StillOk
  <2>2. /\ new \in States /\ new.firstBroken = 0
        /\ new.checked = i + 1 /\ new.prev = acc.prev
    BY <1>4, <2>1 DEF States, StillOk
  <2>3. {q \in rows : Rank(rows, q) <= i + 1 /\ ~Legacy(q)} =
          {q \in rows : Rank(rows, q) <= i /\ ~Legacy(q)}
    BY <1>1, <1>4
  <2>4. HandOn(i + 1, new.prev)
    BY <1>4, <2>2, <2>3 DEF StillOk, HandOn
  <2>5. \A q \in rows : Rank(rows, q) <= i + 1 => Intact(rows, q)
    BY <1>1, <1>4 DEF StillOk, Intact
  <2>6. QED
    BY <2>2, <2>4, <2>5 DEF StillOk
<1>5. ASSUME StillOk(acc, i), ~Legacy(row),
             row.prev # acc.prev \/ row.hash # RowHash(acc.prev, row.content)
      PROVE  new \in States /\ FoundBroken(new, i + 1)
  <2>1. new = [acc EXCEPT !.checked = @ + 1, !.firstBroken = row.id]
    BY <1>5 DEF WalkBody, StillOk
  <2>2. new \in States /\ new.firstBroken = row.id /\ new.checked = i + 1
    <3>1. acc.checked = i
      BY <1>5 DEF StillOk
    <3>2. new = [prev |-> acc.prev, checked |-> acc.checked + 1, firstBroken |-> row.id]
      BY <2>1 DEF States
    <3> HIDE DEF new
    <3>3. QED
      BY <1>2, <3>1, <3>2 DEF States
  <2>3. Carries(rows, row, row.prev) => row.prev = acc.prev
    BY <1>5, HandOnIsCarried DEF StillOk
  <2>4. row \in Broken(rows)
    BY <1>5, <2>3 DEF Broken, Intact
  <2>5. ASSUME NEW q \in Broken(rows) PROVE row.id <= q.id
    <3>1. q \in rows /\ ~(Rank(rows, q) <= i)
      BY <1>5 DEF Broken, StillOk
    <3>2. Rank(rows, row) <= Rank(rows, q)
      BY <1>1, <3>1
    <3>3. QED
      BY <3>1, <3>2, RankOrder
  <2>6. QED
    BY <2>2, <2>4, <2>5 DEF FoundBroken
<1>6. ASSUME StillOk(acc, i), ~Legacy(row),
             row.prev = acc.prev, row.hash = RowHash(acc.prev, row.content)
      PROVE  new \in States /\ StillOk(new, i + 1)
  <2>1. new = [acc EXCEPT !.checked = @ + 1, !.prev = row.hash]
    BY <1>6 DEF WalkBody, StillOk
  <2>2. /\ new \in States /\ new.firstBroken = 0
        /\ new.checked = i + 1 /\ new.prev = row.hash
    <3>1. acc.checked = i /\ acc.firstBroken = 0 /\ row.hash \in Hashes
      BY <1>2, <1>6 DEF StillOk, Row
    <3>2. new = [prev |-> row.hash, checked |-> acc.checked + 1, firstBroken |-> acc.firstBroken]
      BY <2>1 DEF States
    <3> HIDE DEF new
    <3>3. QED
      BY <3>1, <3>2 DEF States
  <2>3. Intact(rows, row)
    BY <1>6, HandOnIsCarried DEF Intact, StillOk
  <2>4. \A q \in rows : Rank(rows, q) <= i + 1 => Intact(rows, q)
    BY <1>1, <1>6, <2>3 DEF StillOk
  <2>5. HandOn(i + 1, row.hash)
    <3> DEFINE below == {q \in rows : Rank(rows, q) <= i + 1 /\ ~Legacy(q)}
    <3>1. row \in below
      BY <1>6
    <3>2. \A q \in below : q.id <= row.id
      BY RankOrder
    <3> HIDE DEF below
    <3>3. IsLast(below, row)
      BY <3>1, <3>2 DEF IsLast
    <3>4. QED
      BY <3>1, <3>3 DEF HandOn, below
  <2>6. QED
    BY <2>2, <2>4, <2>5 DEF StillOk
<1> HIDE DEF new
<1>7. new \in States /\ (StillOk(new, i + 1) \/ FoundBroken(new, i + 1))
  BY <1>3, <1>4, <1>5, <1>6
<1>8. QED
  BY <1>7 DEF new

LEMMA WalkState ==
  ASSUME TypeOK, RowsInv, NEW g, After(g, Cardinality(rows)),
         NEW n \in 0..Cardinality(rows)
  PROVE  g[n] \in States /\ (StillOk(g[n], n) \/ FoundBroken(g[n], n))
<1> DEFINE Good(i) == g[i] \in States /\ (StillOk(g[i], i) \/ FoundBroken(g[i], i))
           T == {i \in 0..Cardinality(rows) : ~Good(i)}
<1>1. SUFFICES ASSUME T # {} PROVE FALSE
  OBVIOUS
<1>2. Cardinality(rows) \in Nat
  BY RowsAreRanked
<1>3. PICK i \in T : \A j \in T : i <= j
  <2>1. T \subseteq Nat
    BY <1>2
  <2> HIDE DEF T
  <2>2. QED
    BY <1>1, <2>1, LeastId
<1>4. i \in 0..Cardinality(rows) /\ ~Good(i)
  OBVIOUS
<1>5. g[i] = IF i = 0 THEN Start ELSE WalkBody(g[i - 1], ByAscendingId[i])
  BY <1>4 DEF After
<1>6. CASE i = 0
  <2>1. g[i] = Start
    BY <1>5, <1>6
  <2>2. Start \in States
    BY DEF Start, States, Hashes, Genesis
  <2>3. \A q \in rows : ~(Rank(rows, q) <= 0)
    BY RowsAreRanked
  <2>4. StillOk(Start, 0)
    BY <2>3 DEF Start, StillOk, HandOn
  <2>5. QED
    BY <1>4, <1>6, <2>1, <2>2, <2>4
<1>7. CASE i # 0
  <2>1. /\ i - 1 \in Nat /\ i - 1 \in 0..Cardinality(rows) /\ ~(i <= i - 1)
        /\ i \in 1..Cardinality(rows) /\ (i - 1) + 1 = i
    BY <1>2, <1>4, <1>7
  <2>2. Good(i - 1)
    <3>1. i - 1 \notin T
      <4> HIDE DEF T
      <4>1. QED
        BY <1>3, <2>1
    <3>2. QED
      BY <2>1, <3>1
  <2>3. ByAscendingId[i] \in rows /\ Rank(rows, ByAscendingId[i]) = i
    BY <2>1, RowAt
  <2>4. g[i] = WalkBody(g[i - 1], ByAscendingId[i])
    BY <1>5, <1>7
  <2> HIDE DEF T
  <2>5. Good(i)
    BY <2>1, <2>2, <2>3, <2>4, OneMoreRow
  <2>6. QED
    BY <1>4, <2>5
<1>8. QED
  BY <1>6, <1>7

(* The window of a query with a limit: its rows, how many there are, and   *)
(* which of them are broken.                                               *)
LEMMA WindowIs ==
  ASSUME TypeOK, RowsInv, NEW n \in Nat,
         NEW k, k = IF n < Cardinality(rows) THEN n ELSE Cardinality(rows)
  PROVE  /\ Window(rows, n) = {row \in rows : Rank(rows, row) <= k}
         /\ Cardinality(Window(rows, n)) = k
         /\ Broken(Window(rows, n)) = {row \in Broken(rows) : Rank(rows, row) <= k}
<1> DEFINE seen == {row \in rows : Rank(rows, row) <= k}
<1>1. Cardinality(rows) \in Nat /\ k \in Nat
  BY RowsAreRanked
<1>2. ASSUME NEW row \in rows PROVE Rank(rows, row) <= n <=> Rank(rows, row) <= k
  BY <1>1, RowsAreRanked
<1>3. Window(rows, n) = seen
  BY <1>2 DEF Window
<1>4. Cardinality(seen) = k
  <2>1. CASE n < Cardinality(rows)
    <3>1. k + 1 \in 1..Cardinality(rows)
      BY <1>1, <2>1
    <3>2. PICK next \in rows : Rank(rows, next) = k + 1
      BY <3>1, RowsAreRanked, RanksAreAll
    <3>3. ASSUME NEW row \in rows PROVE row.id < next.id <=> Rank(rows, row) <= k
      <4>1. Rank(rows, row) \in Nat
        BY RowsAreRanked
      <4>2. QED
        BY <1>1, <3>2, <4>1, RankOrder
    <3>4. seen = Before(rows, next)
      BY <3>3 DEF Before
    <3>5. /\ Cardinality(Before(rows, next)) \in Nat
          /\ Rank(rows, next) = Cardinality(Before(rows, next)) + 1
      BY RowsAreRanked, RankCounts
    <3> HIDE DEF seen
    <3>6. QED
      BY <1>1, <3>2, <3>4, <3>5
  <2>2. CASE ~(n < Cardinality(rows))
    <3>1. k = Cardinality(rows)
      BY <2>2
    <3>2. \A row \in rows : Rank(rows, row) <= k
      BY <1>1, <3>1, RowsAreRanked
    <3>3. seen = rows
      BY <3>2
    <3>4. QED
      BY <3>1, <3>3
  <2>3. QED
    BY <2>1, <2>2
<1>5. ASSUME NEW row \in seen PROVE Intact(seen, row) <=> Intact(rows, row)
  <2>1. ASSUME NEW q \in rows, q.id < row.id PROVE q \in seen
    <3>1. Rank(rows, q) < Rank(rows, row)
      BY <2>1, RankOrder
    <3>2. Rank(rows, q) \in Nat /\ Rank(rows, row) \in Nat
      BY RowsAreRanked
    <3>3. QED
      BY <1>1, <3>1, <3>2
  <2>2. {q \in seen : q.id < row.id} = {q \in rows : q.id < row.id}
    BY <2>1
  <2> HIDE DEF seen
  <2>3. QED
    BY <2>2, IntactBelow
<1>6. Broken(seen) = {row \in Broken(rows) : Rank(rows, row) <= k}
  BY <1>5 DEF Broken
<1>7. QED
  BY <1>3, <1>4, <1>6

(* The loop of verify_chain and VerifyChain, which the other modules use   *)
(* for it, give the same answer: for logs of any length, whatever was done *)
(* to them, and for every limit.                                           *)
THEOREM LoopIsVerifyChain == Spec => []WalkAgrees
<1>1. ASSUME TypeOK, RowsInv PROVE WalkAgrees
  <2> SUFFICES ASSUME NEW n \in Limits
               PROVE  /\ VerifyChain(rows, n).ok = (Walk(n).firstBroken = 0)
                      /\ VerifyChain(rows, n).checked = Walk(n).checked
                      /\ VerifyChain(rows, n).firstBroken = Walk(n).firstBroken
    BY DEF WalkAgrees
  <2> DEFINE k == IF n < Cardinality(rows) THEN n ELSE Cardinality(rows)
             seen == Window(rows, n)
  <2>1. n \in Nat /\ Cardinality(rows) \in Nat
    BY <1>1, RowsAreRanked, AuditVerificationAssumption DEF Limits
  <2>2. k \in 0..Cardinality(rows)
    BY <2>1
  <2>3. PICK g : After(g, Cardinality(rows)) /\ Walk(n) = g[k]
    BY <2>1, WalkIs
  <2> HIDE DEF k
  <2>4. StillOk(Walk(n), k) \/ FoundBroken(Walk(n), k)
    BY <1>1, <2>2, <2>3, WalkState
  <2>5. /\ seen = {row \in rows : Rank(rows, row) <= k}
        /\ Cardinality(seen) = k
        /\ Broken(seen) = {row \in Broken(rows) : Rank(rows, row) <= k}
    BY <1>1, <2>1, WindowIs DEF k
  <2>6. CASE StillOk(Walk(n), k)
    <3>1. Broken(seen) = {}
      BY <2>5, <2>6 DEF StillOk, Broken
    <3>2. VerifyChain(rows, n) = [ok |-> TRUE, checked |-> Cardinality(seen), firstBroken |-> 0]
      BY <3>1 DEF VerifyChain, ChainOk
    <3> HIDE DEF seen
    <3>3. /\ VerifyChain(rows, n).ok = TRUE
          /\ VerifyChain(rows, n).checked = k
          /\ VerifyChain(rows, n).firstBroken = 0
      BY <2>5, <3>2
    <3>4. (Walk(n).firstBroken = 0) = TRUE /\ Walk(n).checked = k /\ Walk(n).firstBroken = 0
      BY <2>6 DEF StillOk
    <3>5. QED
      BY <3>3, <3>4
  <2>7. CASE FoundBroken(Walk(n), k)
    <3>1. PICK bad \in Broken(rows) : /\ Rank(rows, bad) <= k
                                      /\ \A q \in Broken(rows) : bad.id <= q.id
                                      /\ Walk(n).firstBroken = bad.id
                                      /\ Walk(n).checked = Rank(rows, bad)
      BY <2>7 DEF FoundBroken
    <3>2. bad \in rows /\ bad.id \in Nat /\ bad.id # 0
      BY <1>1, <3>1, RowsAreRanked DEF Broken
    <3>3. bad \in Broken(seen) /\ \A q \in Broken(seen) : bad.id <= q.id
      BY <2>5, <3>1
    <3> DEFINE first == CHOOSE row \in Broken(seen) : \A q \in Broken(seen) : row.id <= q.id
    <3>4. first = bad
      <4>1. first \in Broken(seen) /\ \A q \in Broken(seen) : first.id <= q.id
        BY <3>3
      <4> HIDE DEF first
      <4>2. first \in rows /\ first.id \in Nat
        BY <1>1, <2>5, <4>1, RowsAreRanked DEF Broken
      <4>3. first.id <= bad.id /\ bad.id <= first.id
        BY <3>3, <4>1
      <4>4. first.id = bad.id
        BY <3>2, <4>2, <4>3
      <4>5. QED
        BY <1>1, <3>2, <4>2, <4>4 DEF RowsInv
    <3>5. VerifyChain(rows, n) =
            [ok |-> FALSE, checked |-> Cardinality({q \in seen : q.id <= bad.id}),
             firstBroken |-> bad.id]
      BY <3>3, <3>4 DEF VerifyChain, ChainOk
    <3>6. {q \in seen : q.id <= bad.id} = {q \in rows : q.id <= bad.id}
      <4>1. ASSUME NEW q \in rows, q.id <= bad.id PROVE Rank(rows, q) <= k
        <5>1. Rank(rows, q) <= Rank(rows, bad)
          BY <1>1, <3>2, <4>1, RankOrder
        <5>2. Rank(rows, q) \in Nat /\ Rank(rows, bad) \in Nat /\ k \in Nat
          BY <1>1, <2>2, <3>2, RowsAreRanked
        <5>3. QED
          BY <3>1, <5>1, <5>2
      <4>2. QED
        BY <2>5, <4>1
    <3>7. /\ VerifyChain(rows, n).ok = FALSE
          /\ VerifyChain(rows, n).checked = Rank(rows, bad)
          /\ VerifyChain(rows, n).firstBroken = bad.id
      BY <3>5, <3>6 DEF Rank
    <3>8. (Walk(n).firstBroken = 0) = FALSE
      BY <3>1, <3>2
    <3>9. QED
      BY <3>1, <3>7, <3>8
  <2>8. QED
    BY <2>4, <2>6, <2>7
<1>2. Inv => TypeOK /\ RowsInv
  BY DEF Inv
<1>3. QED
  BY <1>1, <1>2, Invariant, PTL
===============================================================================
