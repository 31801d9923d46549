--------------------------- MODULE AuditChainProofs ---------------------------
(***************************************************************************)
(* What the hash chain of app/audit.py proves about the rows, for logs of  *)
(* any length: appending to an intact chain keeps it intact, and changing  *)
(* one row of it is reported at that row and at no row below.              *)
(***************************************************************************)
EXTENDS AuditChain, FiniteSetTheorems, SequenceTheorems, TLAPS

(* A log: ids are numbers and different.                                   *)
IsLog(rows) ==
  /\ \A p \in rows : p.id \in Nat
  /\ \A p, q \in rows : p.id = q.id => p = q

(* verify_chain judges a row by that row and the rows below it only.       *)
LEMMA IntactBelow ==
  ASSUME NEW rows, NEW new, NEW row,
         {q \in rows : q.id < row.id} = {q \in new : q.id < row.id}
  PROVE  Intact(rows, row) <=> Intact(new, row)
<1>1. {q \in rows : q.id < row.id /\ ~Legacy(q)} = {q \in new : q.id < row.id /\ ~Legacy(q)}
  OBVIOUS
<1>2. \A h : Carries(rows, row, h) <=> Carries(new, row, h)
  BY <1>1 DEF Carries
<1>3. QED
  BY <1>2 DEF Intact

(* The hash of a row determines its payload.                               *)
LEMMA HashDeterminesContent ==
  ASSUME NEW S, NEW h \in Seq(S), NEW c \in S, NEW d \in S,
         RowHash(h, c) = RowHash(h, d)
  PROVE  c = d
BY DEF RowHash

(* write_audit on a log that verifies, with the tail it has just read,     *)
(* gives a log that verifies.                                              *)
THEOREM AppendKeepsChain ==
  ASSUME NEW rows, IsLog(rows), ChainOk(rows), NEW h, IsLatestHash(rows, h),
         NEW row, \A q \in rows : q.id < row.id,
         row.id \in Nat,
         row.prev = h, row.hash = RowHash(h, row.content),
         \A q \in rows : q.hash = NoHash => q.prev = NoHash
  PROVE  ChainOk(rows \cup {row})
<1> DEFINE new == rows \cup {row}
<1>1. ASSUME NEW q \in rows PROVE Intact(new, q)
  <2>1. Intact(rows, q)
    BY DEF ChainOk, Broken
  <2>2. {p \in rows : p.id < q.id} = {p \in new : p.id < q.id}
    BY DEF IsLog
  <2> HIDE DEF new
  <2>3. QED
    BY <2>1, <2>2, IntactBelow
<1>2. Intact(new, row)
  <2>1. {q \in new : q.id < row.id /\ ~Legacy(q)} = {q \in rows : ~Legacy(q)}
    <3>1. ~(row.id < row.id)
      OBVIOUS
    <3>2. QED
      BY <3>1
  <2>2. {q \in rows : q.hash # NoHash} = {q \in rows : ~Legacy(q)}
    BY DEF Legacy
  <2>3. Carries(new, row, h)
    <3> DEFINE below == {q \in rows : ~Legacy(q)}
    <3>1. (below = {} /\ h = Genesis) \/ \E q \in below : IsLast(below, q) /\ q.hash = h
      BY <2>2 DEF IsLatestHash
    <3>2. QED
      BY <2>1, <3>1 DEF Carries
  <2>4. QED
    BY <2>3 DEF Intact
<1>3. QED
  BY <1>1, <1>2 DEF ChainOk, Broken

(* tests/test_audit_chain.py:5, for one mutated row of a log of any        *)
(* length: the row is broken, and it is the first one that is.             *)
THEOREM EditIsFirstBroken ==
  ASSUME NEW rows, IsLog(rows), ChainOk(rows),
         NEW S, NEW row \in rows, ~Legacy(row),
         row.prev \in Seq(S), row.content \in S,
         NEW edited, edited.content \in S, edited.content # row.content,
         edited.id = row.id, edited.prev = row.prev, edited.hash = row.hash
  PROVE  LET new == (rows \ {row}) \cup {edited}
         IN  edited \in Broken(new) /\ \A q \in Broken(new) : edited.id <= q.id
<1> DEFINE new == (rows \ {row}) \cup {edited}
<1>1. row.hash = RowHash(row.prev, row.content)
  BY DEF ChainOk, Broken, Intact
<1>2. ~Legacy(edited)
  BY DEF Legacy
<1>3. edited.hash # RowHash(edited.prev, edited.content)
  BY <1>1, HashDeterminesContent
<1>4. edited \in Broken(new)
  BY <1>2, <1>3 DEF Broken, Intact
<1>5. ASSUME NEW q \in new, q.id < edited.id PROVE Intact(new, q)
  <2>1. q \in rows /\ Intact(rows, q)
    BY <1>5 DEF IsLog, ChainOk, Broken
  <2>2. {p \in rows : p.id < q.id} = {p \in new : p.id < q.id}
    BY <1>5, <2>1 DEF IsLog
  <2> HIDE DEF new
  <2>3. QED
    BY <2>1, <2>2, IntactBelow
<1>6. \A q \in new : edited.id \in Nat /\ q.id \in Nat
  BY DEF IsLog
<1>7. \A q \in Broken(new) : edited.id <= q.id
  BY <1>5, <1>6 DEF Broken
<1>8. QED
  BY <1>4, <1>7

-------------------------------------------------------------------------------
(* Sets of ids have a least one, which is what the arguments about chains  *)
(* of any length rest on.                                                  *)

LEMMA NatIsWellFounded ==
  \E R : IsWellFoundedOn(R, Nat) /\ \A x, y \in Nat : x < y => << x, y >> \in R
<1>1. IsWellFoundedOn(OpToRel(<, Nat), Nat)
  BY NatLessThanWellFounded
<1>2. \A x, y \in Nat : x < y => << x, y >> \in OpToRel(<, Nat)
  BY DEF OpToRel
<1>3. QED
  BY <1>1, <1>2

LEMMA LeastId ==
  ASSUME NEW T, T \subseteq Nat, T # {}
  PROVE  \E n \in T : \A m \in T : n <= m
<1>1. PICK R : IsWellFoundedOn(R, Nat) /\ \A x, y \in Nat : x < y => << x, y >> \in R
  BY NatIsWellFounded
<1>2. IsWellFoundedOn(R, Nat)
  BY <1>1
<1>3. PICK n \in T : \A m \in T : ~(<< m, n >> \in R)
  BY <1>2, WFMin, Zenon
<1>4. \A m \in T : ~(m < n)
  BY <1>1, <1>3
<1>5. QED
  BY <1>4

(* The rows that verify_chain does not skip hash payloads out of S, and a  *)
(* NULL is no hash.                                                        *)
Hashed(rows, S) ==
  /\ NoHash \notin Seq(S)
  /\ \A q \in rows : ~Legacy(q) => q.prev \in Seq(S) /\ q.content \in S

LEMMA HashDeterminesPrev ==
  ASSUME NEW S, NEW g \in Seq(S), NEW h \in Seq(S), NEW c \in S, NEW d \in S
  PROVE  /\ RowHash(g, c) \in Seq(S)
         /\ RowHash(g, c) # Genesis
         /\ RowHash(g, c) = RowHash(h, d) => g = h
BY AppendProperties, AppendInjective DEF RowHash, Genesis

(* In a log that verifies no hash occurs twice.  The payloads alone do not *)
(* give that - the same change can be audited twice - it is the prev_hash  *)
(* in every row_hash that tells the two rows apart.                        *)
THEOREM NoHashTwice ==
  ASSUME NEW rows, NEW S, IsLog(rows), Hashed(rows, S), ChainOk(rows)
  PROVE  \A p, q \in rows : ~Legacy(p) /\ ~Legacy(q) /\ p.hash = q.hash => p = q
<1> DEFINE Twin(p) == \E q \in rows : ~Legacy(q) /\ p.id < q.id /\ p.hash = q.hash
           T == {p.id : p \in {r \in rows : ~Legacy(r) /\ Twin(r)}}
<1>1. ASSUME NEW p \in rows, ~Legacy(p)
      PROVE  /\ p.prev \in Seq(S) /\ p.content \in S
             /\ Carries(rows, p, p.prev)
             /\ p.hash = RowHash(p.prev, p.content)
             /\ p.hash # Genesis
  BY <1>1, HashDeterminesPrev DEF ChainOk, Broken, Intact, Hashed
<1>2. T = {}
  <2> SUFFICES ASSUME T # {} PROVE FALSE
    OBVIOUS
  <2>1. T \subseteq Nat
    BY DEF IsLog
  <2>2. PICK n \in T : \A m \in T : n <= m
    <3> HIDE DEF T
    <3>1. QED
      BY <2>1, LeastId
  <2>3. PICK p \in rows : ~Legacy(p) /\ Twin(p) /\ p.id = n
    OBVIOUS
  <2>4. PICK q \in rows : ~Legacy(q) /\ p.id < q.id /\ p.hash = q.hash
    BY <2>3
  <2>5. p.prev = q.prev
    <3>1. RowHash(p.prev, p.content) = RowHash(q.prev, q.content)
      BY <1>1, <2>3, <2>4
    <3>2. QED
      BY <1>1, <2>3, <2>4, <3>1, HashDeterminesPrev
  <2>6. PICK v \in rows : ~Legacy(v) /\ v.id < q.id /\ p.id <= v.id /\ v.hash = q.prev
    BY <1>1, <2>3, <2>4 DEF Carries, IsLast
  <2>7. p.prev # Genesis
    BY <1>1, <2>5, <2>6
  <2>8. PICK u \in rows : ~Legacy(u) /\ u.id < p.id /\ u.hash = p.prev
    BY <1>1, <2>3, <2>7 DEF Carries, IsLast
  <2>9. u.id \in Nat /\ p.id \in Nat /\ v.id \in Nat
    BY DEF IsLog
  <2>10. Twin(u)
    <3>1. u.id < v.id /\ u.hash = v.hash
      BY <2>5, <2>6, <2>8, <2>9
    <3>2. QED
      BY <2>6, <3>1
  <2>11. u.id \in T
    BY <2>8, <2>10
  <2> HIDE DEF T, Twin
  <2>12. QED
    BY <2>2, <2>3, <2>8, <2>9, <2>11
<1>3. SUFFICES ASSUME NEW p \in rows, NEW q \in rows, ~Legacy(p), ~Legacy(q),
                      p.hash = q.hash, p # q
               PROVE  FALSE
  OBVIOUS
<1>4. p.id \in Nat /\ q.id \in Nat /\ p.id # q.id
  BY <1>3 DEF IsLog
<1>5. CASE p.id < q.id
  <2>1. Twin(p)
    BY <1>3, <1>5
  <2>2. QED
    BY <1>2, <1>3, <2>1
<1>6. CASE q.id < p.id
  <2>1. Twin(q)
    BY <1>3, <1>6
  <2>2. QED
    BY <1>2, <1>3, <2>1
<1>7. QED
  BY <1>4, <1>5, <1>6

(* A row whose successor in the order of ids is already there does not     *)
(* verify: the successor was chained to an older row, and no other row has *)
(* the hash of that one.                                                   *)
THEOREM LateRowBreaksChain ==
  ASSUME NEW rows, NEW S, NEW row, row \notin rows, ~Legacy(row),
         IsLog(rows \cup {row}), Hashed(rows \cup {row}, S),
         \A s \in rows : \/ Legacy(s)
                         \/ s.prev = Genesis
                         \/ \E q \in rows : q.id < s.id /\ q.hash = s.prev,
         ChainOk(rows \cup {row})
  PROVE  \A s \in rows : ~Legacy(s) => s.id < row.id
<1> DEFINE new == rows \cup {row}
           T == {s.id : s \in {q \in rows : ~Legacy(q) /\ row.id < q.id}}
<1>1. ASSUME NEW p \in new, ~Legacy(p)
      PROVE  /\ p.prev \in Seq(S) /\ p.content \in S
             /\ Carries(new, p, p.prev)
             /\ p.hash = RowHash(p.prev, p.content)
             /\ p.hash \in Seq(S) /\ p.hash # Genesis
  <2>1. p.prev \in Seq(S) /\ p.content \in S
    BY <1>1 DEF Hashed
  <2>2. Carries(new, p, p.prev) /\ p.hash = RowHash(p.prev, p.content)
    BY <1>1 DEF ChainOk, Broken, Intact
  <2>3. QED
    BY <2>1, <2>2, HashDeterminesPrev
<1>2. T = {}
  <2> SUFFICES ASSUME T # {} PROVE FALSE
    OBVIOUS
  <2>1. T \subseteq Nat
    BY DEF IsLog
  <2>2. PICK n \in T : \A m \in T : n <= m
    <3> HIDE DEF T
    <3>1. QED
      BY <2>1, LeastId
  <2>3. PICK s \in rows : ~Legacy(s) /\ row.id < s.id /\ s.id = n
    OBVIOUS
  <2>4. PICK v \in new : ~Legacy(v) /\ v.id < s.id /\ row.id <= v.id /\ v.hash = s.prev
    BY <1>1, <2>3 DEF Carries, IsLast
  <2>5. v = row
    <3> SUFFICES ASSUME v # row PROVE FALSE
      OBVIOUS
    <3>1. v \in rows
      OBVIOUS
    <3>2. v.id \in Nat /\ row.id \in Nat /\ s.id \in Nat /\ v.id # row.id
      BY DEF IsLog
    <3>3. row.id < v.id
      BY <2>4, <3>2
    <3>4. v.id \in T
      BY <2>4, <3>1, <3>3
    <3> HIDE DEF T
    <3>5. QED
      BY <2>2, <2>3, <2>4, <3>2, <3>4
  <2>6. s.prev = row.hash
    BY <2>4, <2>5
  <2>7. s.prev # Genesis /\ s.prev \in Seq(S)
    BY <1>1, <2>6
  <2>8. PICK q \in rows : q.id < s.id /\ q.hash = s.prev
    BY <2>3, <2>7
  <2>9. ~Legacy(q)
    BY <2>7, <2>8 DEF Hashed, Legacy
  <2>10. q = row
    <3> HIDE DEF T
    <3>1. q \in new /\ row \in new /\ q.hash = row.hash
      BY <2>6, <2>8
    <3>2. IsLog(new) /\ Hashed(new, S) /\ ChainOk(new)
      OBVIOUS
    <3> HIDE DEF new
    <3>3. QED
      BY <2>9, <3>1, <3>2, NoHashTwice
  <2>11. QED
    BY <2>10
<1>3. ASSUME NEW s \in rows, ~Legacy(s) PROVE s.id < row.id
  <2>1. s.id \in Nat /\ row.id \in Nat /\ s.id # row.id
    BY DEF IsLog
  <2>2. ~(row.id < s.id)
    BY <1>2, <1>3
  <2>3. QED
    BY <2>1, <2>2
<1>4. QED
  BY <1>3
LEMMA PrefixVerifies ==
  ASSUME NEW rows, NEW row, IsLog(rows \cup {row}),
         \A q \in rows : q.id < row.id, ChainOk(rows \cup {row})
  PROVE  ChainOk(rows)
<1> DEFINE new == rows \cup {row}
<1>1. ASSUME NEW q \in rows PROVE Intact(rows, q)
  <2>1. Intact(new, q)
    BY DEF ChainOk, Broken
  <2>2. {p \in rows : p.id < q.id} = {p \in new : p.id < q.id}
    BY DEF IsLog
  <2> HIDE DEF new
  <2>3. QED
    BY <2>1, <2>2, IntactBelow
<1>2. QED
  BY <1>1 DEF ChainOk, Broken

(* A row that write_audit has chained to some older row, or to none,       *)
(* joins the log: the result verifies exactly when the log did and the row *)
(* it is chained to is still the last one that has a hash.                 *)
THEOREM ChainSurvives ==
  ASSUME NEW rows, NEW S, NEW row, row \notin rows,
         IsLog(rows \cup {row}), Hashed(rows \cup {row}, S),
         \A q \in rows : q.hash = NoHash => q.prev = NoHash /\ q.id < row.id,
         row.prev \in Seq(S), row.content \in S,
         row.hash = RowHash(row.prev, row.content),
         \A s \in rows \cup {row} :
           \/ Legacy(s)
           \/ s.prev = Genesis
           \/ \E q \in rows : q.id < s.id /\ q.hash = s.prev
  PROVE  ChainOk(rows \cup {row}) <=> ChainOk(rows) /\ IsLatestHash(rows, row.prev)
<1> DEFINE new == rows \cup {row}
<1>1. ~Legacy(row)
  BY HashDeterminesPrev DEF Legacy, Hashed
<1>2. {q \in rows : q.hash # NoHash} = {q \in rows : ~Legacy(q)}
  BY DEF Legacy
<1>3. \A q \in rows : Legacy(q) => q.id < row.id
  BY DEF Legacy
<1>4. ASSUME ChainOk(new) PROVE ChainOk(rows) /\ IsLatestHash(rows, row.prev)
  <2>1. \A q \in rows : q.id < row.id
    <3>1. \A q \in rows : ~Legacy(q) => q.id < row.id
      BY <1>1, <1>4, LateRowBreaksChain
    <3>2. QED
      BY <1>3, <3>1
  <2>2. ChainOk(rows)
    BY <1>4, <2>1, PrefixVerifies
  <2>3. Carries(new, row, row.prev)
    BY <1>1, <1>4 DEF ChainOk, Broken, Intact
  <2>4. {q \in new : q.id < row.id /\ ~Legacy(q)} = {q \in rows : ~Legacy(q)}
    BY <2>1 DEF IsLog
  <2>5. IsLatestHash(rows, row.prev)
    BY <1>2, <2>3, <2>4 DEF Carries, IsLatestHash
  <2>6. QED
    BY <2>2, <2>5
<1>5. ASSUME ChainOk(rows), IsLatestHash(rows, row.prev) PROVE ChainOk(new)
  <2>1. IsLog(rows) /\ Hashed(rows, S)
    BY DEF IsLog, Hashed
  <2>2. \A q \in rows : ~Legacy(q) => q.id < row.id
    <3>1. SUFFICES ASSUME NEW q \in rows, ~Legacy(q) PROVE q.id < row.id
      OBVIOUS
    <3>2. PICK last \in rows : /\ ~Legacy(last) /\ last.hash = row.prev
                               /\ \A p \in rows : ~Legacy(p) => p.id <= last.id
      BY <1>2, <1>5, <3>1 DEF IsLatestHash, IsLast
    <3>3. last.hash # Genesis
      BY <1>5, <3>2, HashDeterminesPrev DEF ChainOk, Broken, Intact, Hashed
    <3>4. PICK p \in rows : p.id < row.id /\ p.hash = row.prev
      BY <1>1, <3>2, <3>3
    <3>5. ~Legacy(p)
      BY <3>4 DEF Legacy, Hashed
    <3>6. p = last
      BY <1>5, <2>1, <3>2, <3>4, <3>5, NoHashTwice
    <3>7. q.id <= last.id /\ last.id < row.id
      BY <3>1, <3>2, <3>4, <3>6
    <3>8. q.id \in Nat /\ last.id \in Nat /\ row.id \in Nat
      BY DEF IsLog
    <3>9. QED
      BY <3>7, <3>8
  <2>3. \A q \in rows : q.id < row.id
    BY <1>3, <2>2
  <2>4. row.id \in Nat
    BY DEF IsLog
  <2>5. QED
    BY <1>5, <2>1, <2>3, <2>4, AppendKeepsChain
<1>6. QED
  BY <1>4, <1>5

-------------------------------------------------------------------------------
(* The order of ids.                                                       *)

Before(rows, row) == {q \in rows : q.id < row.id}

LEMMA RankCounts ==
  ASSUME NEW rows, IsLog(rows), IsFiniteSet(rows), NEW row \in rows
  PROVE  /\ IsFiniteSet(Before(rows, row))
         /\ Cardinality(Before(rows, row)) \in Nat
         /\ Rank(rows, row) = Cardinality(Before(rows, row)) + 1
<1>1. {q \in rows : q.id <= row.id} = Before(rows, row) \cup {row}
  <2>1. \A q \in rows : q.id <= row.id <=> q.id < row.id \/ q = row
    BY DEF IsLog
  <2>2. QED
    BY <2>1 DEF Before
<1>2. row \notin Before(rows, row) /\ Before(rows, row) \in SUBSET rows
  BY DEF Before, IsLog
<1>3. IsFiniteSet(Before(rows, row))
  BY <1>2, FS_Subset
<1>4. Cardinality(Before(rows, row) \cup {row}) = Cardinality(Before(rows, row)) + 1
  BY <1>2, <1>3, FS_AddElement
<1>5. QED
  BY <1>1, <1>3, <1>4, FS_CardinalityType DEF Rank

LEMMA RankGrows ==
  ASSUME NEW rows, IsLog(rows), IsFiniteSet(rows),
         NEW p \in rows, NEW q \in rows, p.id < q.id
  PROVE  Rank(rows, p) < Rank(rows, q)
<1> DEFINE upto == {r \in rows : r.id <= p.id}
<1>1. upto \in SUBSET Before(rows, q)
  BY DEF Before, IsLog
<1>2. Cardinality(upto) <= Cardinality(Before(rows, q))
  BY <1>1, RankCounts, FS_Subset
<1>3. Rank(rows, p) = Cardinality(upto)
  BY DEF Rank
<1>4. Rank(rows, p) \in Nat
  <2>1. Rank(rows, p) = Cardinality(Before(rows, p)) + 1 /\ Cardinality(Before(rows, p)) \in Nat
    BY RankCounts
  <2>2. QED
    BY <2>1
<1>5. Rank(rows, q) = Cardinality(Before(rows, q)) + 1 /\ Cardinality(Before(rows, q)) \in Nat
  BY RankCounts
<1>6. QED
  BY <1>2, <1>3, <1>4, <1>5

LEMMA RankIsInjective ==
  ASSUME NEW rows, IsLog(rows), IsFiniteSet(rows),
         NEW p \in rows, NEW q \in rows, Rank(rows, p) = Rank(rows, q)
  PROVE  p = q
<1>1. Rank(rows, p) \in Nat
  <2>1. Rank(rows, p) = Cardinality(Before(rows, p)) + 1 /\ Cardinality(Before(rows, p)) \in Nat
    BY RankCounts
  <2>2. QED
    BY <2>1
<1>2. ~(Rank(rows, p) < Rank(rows, q)) /\ ~(Rank(rows, q) < Rank(rows, p))
  BY <1>1
<1>3. ~(p.id < q.id) /\ ~(q.id < p.id)
  BY <1>2, RankGrows
<1>4. p.id \in Nat /\ q.id \in Nat
  BY DEF IsLog
<1>5. p.id = q.id
  BY <1>3, <1>4
<1>6. QED
  BY <1>5 DEF IsLog

(* The ranks are the places 1, 2, ... up to the number of rows.            *)
LEMMA RanksAreAll ==
  ASSUME NEW rows, IsLog(rows), IsFiniteSet(rows)
  PROVE  /\ \A row \in rows : Rank(rows, row) \in 1..Cardinality(rows)
         /\ \A i \in 1..Cardinality(rows) : \E row \in rows : Rank(rows, row) = i
<1> DEFINE rank == [row \in rows |-> Rank(rows, row)]
           places == 1..Cardinality(rows)
<1>1. Cardinality(rows) \in Nat
  BY FS_CardinalityType
<1>2. ASSUME NEW row \in rows PROVE Rank(rows, row) \in places
  <2>1. Rank(rows, row) = Cardinality(Before(rows, row)) + 1 /\ Cardinality(Before(rows, row)) \in Nat
    BY RankCounts
  <2>2. {q \in rows : q.id <= row.id} \in SUBSET rows
    OBVIOUS
  <2>3. Rank(rows, row) <= Cardinality(rows)
    BY <2>2, FS_Subset DEF Rank
  <2>4. QED
    BY <1>1, <2>1, <2>3
<1>3. rank \in Injection(rows, places)
  <2>1. rank \in [rows -> places]
    BY <1>2
  <2>2. \A p, q \in rows : rank[p] = rank[q] => p = q
    BY RankIsInjective
  <2> HIDE DEF rank, places
  <2>3. QED
    BY <2>1, <2>2 DEF Injection, IsInjective
<1>4. IsFiniteSet(places) /\ Cardinality(places) = Cardinality(rows)
  <2>1. Cardinality(rows) \in Int /\ 1 \in Int
    BY <1>1
  <2>2. QED
    BY <1>1, <2>1, FS_Interval
<1>5. rank \in Surjection(rows, places)
  <2> HIDE DEF rank, places
  <2>1. QED
    BY <1>3, <1>4, FS_Injection
<1>6. \A i \in places : \E row \in rows : rank[row] = i
  <2> HIDE DEF rank, places
  <2>1. QED
    BY <1>5 DEF Surjection
<1>7. QED
  BY <1>2, <1>6

LEMMA LogHasLast ==
  ASSUME NEW rows, IsLog(rows), IsFiniteSet(rows), rows # {}
  PROVE  \E row \in rows : IsLast(rows, row)
<1>1. Cardinality(rows) \in Nat /\ Cardinality(rows) # 0
  BY FS_CardinalityType, FS_EmptySet
<1>2. PICK row \in rows : Rank(rows, row) = Cardinality(rows)
  BY <1>1, RanksAreAll
<1>3. ASSUME NEW q \in rows PROVE q.id <= row.id
  <2>1. q.id \in Nat /\ row.id \in Nat
    BY DEF IsLog
  <2>2. Rank(rows, q) \in 1..Cardinality(rows)
    BY RanksAreAll
  <2>3. ~(Rank(rows, row) < Rank(rows, q))
    BY <1>1, <1>2, <2>2
  <2>4. ~(row.id < q.id)
    BY <2>3, RankGrows
  <2>5. QED
    BY <2>1, <2>4
<1>4. QED
  BY <1>3 DEF IsLast

LEMMA RankOfNext ==
  ASSUME NEW rows, IsLog(rows), IsFiniteSet(rows), NEW row \in rows,
         NEW q, IsLast(Before(rows, row), q)
  PROVE  q \in rows /\ Rank(rows, row) = Rank(rows, q) + 1
<1>1. q \in rows /\ q.id < row.id
  BY DEF IsLast, Before
<1>2. {p \in rows : p.id <= q.id} = Before(rows, row)
  BY <1>1 DEF IsLast, Before, IsLog
<1>3. Rank(rows, q) = Cardinality(Before(rows, row))
  BY <1>2 DEF Rank
<1>4. QED
  BY <1>1, <1>3, RankCounts
===============================================================================
