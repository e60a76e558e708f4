---------------------------- MODULE MirrorProofs ----------------------------
(* For any records, papers, readings and runs: a sync leaves the mirror with *)
(* exactly the records of one reading.                                       *)
EXTENDS Mirror, FiniteSetTheorems, SequenceTheorems, TLAPS

USE MirrorAssumption

RowType == [key : Keys, gone : BOOLEAN, seen : Nat, id : Ids, mark : Marks]
OneEach(items) == \A i, j \in DOMAIN items : items[i].id = items[j].id => items[i] = items[j]
Typed ==
  /\ world \in DOMAIN Worlds
  /\ broker \subseteq Record /\ IsFiniteSet(broker) /\ \A a, b \in broker : a.id = b.id => a = b
  /\ clock \in Nat /\ connected \in BOOLEAN
  /\ reading \in [Runs -> [at : Nat, items : Seq(Record)]]
  /\ \A r \in Runs : OneEach(reading[r].items)
  /\ rows \in Seq(RowType)

-----------------------------------------------------------------------------
LEMMA Least == ASSUME NEW T \in SUBSET Nat, T # {} PROVE \E k \in T : \A m \in T : k <= m
<1> DEFINE R == OpToRel(<, Nat)
<1>1. IsWellFoundedOn(R, Nat) BY NatLessThanWellFounded
<1>2. \A x, y \in Nat : <<y, x>> \in R <=> y < x BY DEF OpToRel
<1> HIDE DEF R
<1>3. PICK k \in T : \A m \in T : ~(<<m, k>> \in R) BY <1>1, WFMin
<1>4. \A m \in T : ~(m < k) BY <1>2, <1>3
<1>5. k \in Nat /\ \A m \in T : m \in Nat OBVIOUS
<1>6. \A m \in T : k <= m
  <2> SUFFICES ASSUME NEW m \in T PROVE k <= m OBVIOUS
  <2>1. m \in Nat /\ ~(m < k) BY <1>4, <1>5
  <2> QED BY <1>5, <2>1
<1> QED BY <1>6

(* In a finite set a total order gives each element a number of its own.     *)
UpTo(S, R, x) == {y \in S : y = x \/ <<y, x>> \in R}
LEMMA Ranks ==
  ASSUME NEW S, IsFiniteSet(S), NEW R \in SUBSET (S \X S),
         \A a \in S : <<a, a>> \notin R,
         \A a, b, c \in S : <<a, b>> \in R /\ <<b, c>> \in R => <<a, c>> \in R,
         \A a, b \in S : a = b \/ <<a, b>> \in R \/ <<b, a>> \in R
  PROVE  /\ \A x \in S : Cardinality(UpTo(S, R, x)) \in 1..Cardinality(S)
         /\ \A x, y \in S : <<x, y>> \in R => Cardinality(UpTo(S, R, x)) < Cardinality(UpTo(S, R, y))
         /\ \A x, y \in S : Cardinality(UpTo(S, R, x)) = Cardinality(UpTo(S, R, y)) => x = y
         /\ \A n \in 1..Cardinality(S) : \E x \in S : Cardinality(UpTo(S, R, x)) = n
<1> DEFINE upTo(x) == UpTo(S, R, x)
<1>1. Cardinality(S) \in Nat BY FS_CardinalityType
<1>2. ASSUME NEW x \in S PROVE Cardinality(upTo(x)) \in 1..Cardinality(S)
  <2>1. upTo(x) \in SUBSET S /\ x \in upTo(x) BY DEF UpTo
  <2> HIDE DEF upTo
  <2>2. IsFiniteSet(upTo(x)) /\ Cardinality(upTo(x)) <= Cardinality(S) BY <2>1, FS_Subset
  <2>3. Cardinality(upTo(x)) \in Nat BY <2>2, FS_CardinalityType
  <2>4. Cardinality(upTo(x)) # 0 BY <2>1, <2>2, FS_EmptySet
  <2> QED BY <1>1, <2>2, <2>3, <2>4
<1>3. ASSUME NEW x \in S, NEW y \in S, <<x, y>> \in R
      PROVE  Cardinality(upTo(x)) < Cardinality(upTo(y))
  <2>1. upTo(x) \in SUBSET upTo(y) /\ y \in upTo(y) /\ y \notin upTo(x) BY <1>3 DEF UpTo
  <2>2. upTo(y) \in SUBSET S BY DEF UpTo
  <2>3. /\ Cardinality(upTo(x)) \in 1..Cardinality(S)
        /\ Cardinality(upTo(y)) \in 1..Cardinality(S)
    BY <1>2
  <2> HIDE DEF upTo
  <2>4. IsFiniteSet(upTo(y)) BY <2>2, FS_Subset
  <2>5. /\ Cardinality(upTo(x)) <= Cardinality(upTo(y))
        /\ Cardinality(upTo(y)) = Cardinality(upTo(x)) => upTo(y) = upTo(x)
    BY <2>1, <2>4, FS_Subset
  <2> QED BY <1>1, <2>1, <2>3, <2>5
<1>4. ASSUME NEW x \in S, NEW y \in S, Cardinality(upTo(x)) = Cardinality(upTo(y)) PROVE x = y
  <2>1. Cardinality(upTo(x)) \in 1..Cardinality(S) /\ Cardinality(upTo(y)) \in 1..Cardinality(S)
    BY <1>2
  <2>2. <<x, y>> \in R => Cardinality(upTo(x)) < Cardinality(upTo(y)) BY <1>3
  <2>3. <<y, x>> \in R => Cardinality(upTo(y)) < Cardinality(upTo(x)) BY <1>3
  <2> HIDE DEF upTo
  <2> QED BY <1>1, <1>4, <2>1, <2>2, <2>3
<1>5. \A n \in 1..Cardinality(S) : \E x \in S : Cardinality(upTo(x)) = n
  <2> DEFINE f == [x \in S |-> Cardinality(upTo(x))]
  <2>1. f \in [S -> 1..Cardinality(S)] BY <1>2
  <2>2. \A x, y \in S : f[x] = f[y] => x = y BY <1>4
  <2> HIDE DEF upTo
  <2>3. IsFiniteSet(1..Cardinality(S)) /\ Cardinality(1..Cardinality(S)) = Cardinality(S)
    <3>1. Cardinality(S) \in Int /\ 1 \in Int BY <1>1
    <3> QED BY <1>1, <3>1, FS_Interval
  <2>4. \A n \in 1..Cardinality(S) : \E x \in S : f[x] = n
    <3> HIDE DEF f
    <3>1. f \in Injection(S, 1..Cardinality(S)) BY <2>1, <2>2 DEF Injection, IsInjective
    <3>2. f \in Surjection(S, 1..Cardinality(S)) BY <2>3, <3>1, FS_Injection
    <3> QED BY <3>2 DEF Surjection
  <2> QED BY <2>4
<1> QED BY <1>2, <1>3, <1>4, <1>5

(* The rows of a key, in the order they are compared in. *)
FiledAs(key) == {q \in DOMAIN rows : rows[q].key = key}
LEMMA Standings ==
  ASSUME Typed, NEW key
  PROVE  /\ IsFiniteSet(FiledAs(key))
         /\ \A r \in FiledAs(key) : Standing(r) \in 1..Cardinality(FiledAs(key))
         /\ \A r, q \in FiledAs(key) : Standing(r) = Standing(q) => r = q
         /\ \A r, q \in FiledAs(key) : Before(q, r) => Standing(q) < Standing(r)
         /\ \A n \in 1..Cardinality(FiledAs(key)) : \E r \in FiledAs(key) : Standing(r) = n
<1> DEFINE S == FiledAs(key)
           R == {m \in S \X S : Before(m[1], m[2])}
           upTo(x) == UpTo(S, R, x)
<1>1. rows \in Seq(RowType) /\ DOMAIN rows = 1..Len(rows) /\ Len(rows) \in Nat BY DEF Typed
<1>2. IsFiniteSet(S)
  <2>1. IsFiniteSet(DOMAIN rows) BY <1>1, FS_Interval
  <2>2. S \in SUBSET (DOMAIN rows) BY DEF FiledAs
  <2> QED BY <2>1, <2>2, FS_Subset
<1>3. \A a \in S : a \in Nat /\ rows[a].gone \in BOOLEAN /\ rows[a].seen \in Nat
  <2>1. \A a \in S : a \in Nat /\ rows[a] \in RowType BY <1>1 DEF FiledAs
  <2> QED BY <2>1 DEF RowType
<1>4. R \in SUBSET (S \X S) /\ \A a, b \in S : <<a, b>> \in R <=> Before(a, b) OBVIOUS
<1>5. /\ \A a \in S : ~Before(a, a)
      /\ \A a, b, c \in S : Before(a, b) /\ Before(b, c) => Before(a, c)
      /\ \A a, b \in S : a = b \/ Before(a, b) \/ Before(b, a)
  BY <1>3 DEF Before
<1>6. \A r \in S : Standing(r) = Cardinality(upTo(r))
  <2> SUFFICES ASSUME NEW r \in S PROVE Standing(r) = Cardinality(upTo(r)) OBVIOUS
  <2>1. {q \in DOMAIN rows : rows[q].key = rows[r].key /\ (q = r \/ Before(q, r))} = upTo(r)
    BY <1>4 DEF FiledAs, UpTo
  <2> QED BY <2>1 DEF Standing
<1> HIDE DEF S, R
<1>7. /\ \A x \in S : Cardinality(upTo(x)) \in 1..Cardinality(S)
      /\ \A x, y \in S : <<x, y>> \in R => Cardinality(upTo(x)) < Cardinality(upTo(y))
      /\ \A x, y \in S : Cardinality(upTo(x)) = Cardinality(upTo(y)) => x = y
      /\ \A n \in 1..Cardinality(S) : \E x \in S : Cardinality(upTo(x)) = n
  BY <1>2, <1>4, <1>5, Ranks, SMTT(30)
<1> HIDE DEF upTo
<1>8. /\ \A r \in S : Standing(r) \in 1..Cardinality(S)
      /\ \A r, q \in S : Standing(r) = Standing(q) => r = q
      /\ \A r, q \in S : Before(q, r) => Standing(q) < Standing(r)
  <2>1. \A r \in S : Standing(r) \in 1..Cardinality(S) BY <1>6, <1>7
  <2>2. \A r, q \in S : Standing(r) = Standing(q) => r = q BY <1>6, <1>7
  <2>3. ASSUME NEW r \in S, NEW q \in S, Before(q, r) PROVE Standing(q) < Standing(r)
    <3>1. <<q, r>> \in R BY <1>4, <2>3
    <3>2. Cardinality(upTo(q)) < Cardinality(upTo(r)) BY <1>7, <3>1
    <3>3. Standing(q) = Cardinality(upTo(q)) /\ Standing(r) = Cardinality(upTo(r)) BY <1>6
    <3> QED BY <3>2, <3>3
  <2> QED BY <2>1, <2>2, <2>3
<1>9. \A n \in 1..Cardinality(S) : \E r \in S : Standing(r) = n
  BY <1>6, <1>7
<1> QED BY <1>2, <1>8, <1>9 DEF S

-----------------------------------------------------------------------------
(* A reading after its repetitions are dropped. *)
Single(items) ==
  /\ DOMAIN items \subseteq Nat /\ IsFiniteSet(DOMAIN items)
  /\ items \in [DOMAIN items -> Record]
  /\ \A i, j \in DOMAIN items : items[i].id = items[j].id => i = j

LEMMA DedupedOnce ==
  ASSUME NEW items \in Seq(Record), OneEach(items)
  PROVE  Single(Deduped(items)) /\ Range(Deduped(items)) = Range(items)
<1> DEFINE D == {j \in DOMAIN items : \A k \in 1..(j - 1) : items[k].id # items[j].id}
<1>1. Len(items) \in Nat /\ DOMAIN items = 1..Len(items) OBVIOUS
<1>2. D \subseteq DOMAIN items /\ D \subseteq Nat BY <1>1
<1>3. IsFiniteSet(D)
  <2>1. IsFiniteSet(DOMAIN items) BY <1>1, FS_Interval
  <2> QED BY <1>2, <2>1, FS_Subset
<1>4. Deduped(items) = [i \in D |-> items[i]] BY DEF Deduped
<1>5. \A i, j \in D : items[i].id = items[j].id => i = j
  <2> SUFFICES ASSUME NEW i \in D, NEW j \in D, items[i].id = items[j].id, i < j PROVE FALSE
    BY <1>2
  <2>1. i \in 1..(j - 1) BY <1>1, <1>2
  <2> QED BY <2>1
<1>6. \A i \in DOMAIN items : \E k \in D : items[k] = items[i]
  <2> SUFFICES ASSUME NEW i \in DOMAIN items PROVE \E k \in D : items[k] = items[i] OBVIOUS
  <2> DEFINE T == {k \in DOMAIN items : items[k].id = items[i].id}
  <2>1. T \in SUBSET Nat /\ i \in T BY <1>1
  <2>2. PICK k \in T : \A m \in T : k <= m
    <3> HIDE DEF T
    <3> QED BY <2>1, Least
  <2>3. k \in D
    <3> SUFFICES ASSUME NEW m \in 1..(k - 1), items[m].id = items[k].id PROVE FALSE OBVIOUS
    <3>1. m \in T BY <1>1
    <3>2. k <= m BY <2>2, <3>1
    <3> QED BY <1>1, <3>2
  <2>4. items[k] = items[i] BY DEF OneEach
  <2> QED BY <2>3, <2>4
<1> HIDE DEF D
<1>7. items \in [DOMAIN items -> Record] OBVIOUS
<1>8. Single(Deduped(items)) BY <1>2, <1>3, <1>4, <1>5, <1>7 DEF Single
<1>9. Range(Deduped(items)) = Range(items) BY <1>2, <1>4, <1>6 DEF Range
<1> QED BY <1>8, <1>9

(* The items of a key, in the order they were read. *)
ReadAs(items, key) == {i \in DOMAIN items : KeyOf(items[i]) = key}
LEMMA Places ==
  ASSUME NEW items, Single(items), NEW key
  PROVE  /\ IsFiniteSet(ReadAs(items, key))
         /\ \A i \in ReadAs(items, key) : Place(items, i) \in 1..Cardinality(ReadAs(items, key))
         /\ \A i, j \in ReadAs(items, key) : Place(items, i) = Place(items, j) => i = j
         /\ \A n \in 1..Cardinality(ReadAs(items, key)) : \E i \in ReadAs(items, key) : Place(items, i) = n
<1> DEFINE S == ReadAs(items, key)
           R == {m \in S \X S : m[1] < m[2]}
           upTo(x) == UpTo(S, R, x)
<1>1. IsFiniteSet(S)
  <2>1. S \in SUBSET (DOMAIN items) BY DEF ReadAs
  <2> QED BY <2>1, FS_Subset DEF Single
<1>2. S \subseteq Nat BY DEF ReadAs, Single
<1>3. R \in SUBSET (S \X S) /\ \A a, b \in S : <<a, b>> \in R <=> a < b OBVIOUS
<1>4. /\ \A a \in S : <<a, a>> \notin R
      /\ \A a, b, c \in S : <<a, b>> \in R /\ <<b, c>> \in R => <<a, c>> \in R
      /\ \A a, b \in S : a = b \/ <<a, b>> \in R \/ <<b, a>> \in R
  <2> HIDE DEF S
  <2> QED BY <1>2
<1>5. \A j \in S : Place(items, j) = Cardinality(upTo(j))
  <2> SUFFICES ASSUME NEW j \in S PROVE Place(items, j) = Cardinality(upTo(j)) OBVIOUS
  <2>1. {i \in DOMAIN items : i <= j /\ KeyOf(items[i]) = KeyOf(items[j])} = {y \in S : y = j \/ y < j}
    BY <1>2 DEF ReadAs, Single
  <2>2. {y \in S : y = j \/ y < j} = upTo(j) BY <1>3 DEF UpTo
  <2> QED BY <2>1, <2>2 DEF Place
<1> HIDE DEF S, R
<1>6. /\ \A x \in S : Cardinality(upTo(x)) \in 1..Cardinality(S)
      /\ \A x, y \in S : Cardinality(upTo(x)) = Cardinality(upTo(y)) => x = y
      /\ \A n \in 1..Cardinality(S) : \E x \in S : Cardinality(upTo(x)) = n
  BY <1>1, <1>3, <1>4, Ranks, SMTT(90)
<1> HIDE DEF upTo
<1>7. /\ \A i \in S : Place(items, i) \in 1..Cardinality(S)
      /\ \A i, j \in S : Place(items, i) = Place(items, j) => i = j
  <2>1. \A i \in S : Place(items, i) \in 1..Cardinality(S) BY <1>5, <1>6
  <2>2. \A i, j \in S : Place(items, i) = Place(items, j) => i = j BY <1>5, <1>6
  <2> QED BY <2>1, <2>2
<1>8. \A n \in 1..Cardinality(S) : \E i \in S : Place(items, i) = n BY <1>5, <1>6
<1> QED BY <1>1, <1>7, <1>8 DEF S

-----------------------------------------------------------------------------
(* What a reading is to the rows: an item and a row are matched when the row *)
(* was found for it or filed anew under its key. A row stands for one item   *)
(* at most, and an item for one row.                                         *)
Matched(items) == Found(items) \cup Reidentified(items)
LEMMA Matching ==
  ASSUME Typed, NEW items, Single(items)
  PROVE  /\ Matched(items) \subseteq (DOMAIN rows) \X (DOMAIN items)
         /\ \A m, p \in Matched(items) : m[1] = p[1] <=> m[2] = p[2]
<1>1. Found(items) \subseteq (DOMAIN rows) \X (DOMAIN items) BY DEF Found
<1>2. /\ Leftover(items) \subseteq DOMAIN rows /\ Unfiled(items) \subseteq DOMAIN items
      /\ \A m \in Found(items) : m[1] \notin Leftover(items) /\ m[2] \notin Unfiled(items)
  BY DEF Leftover, Unfiled
<1>3. \A p \in Reidentified(items) :
        /\ p \in Leftover(items) \X Unfiled(items)
        /\ {r \in Leftover(items) : BodyOf(rows[r].key) = items[p[2]].body} = {p[1]}
        /\ {j \in Unfiled(items) : items[j].body = items[p[2]].body} = {p[2]}
  BY DEF Reidentified
<1>4. ASSUME NEW m \in Found(items), NEW p \in Found(items) PROVE m[1] = p[1] <=> m[2] = p[2]
  <2> DEFINE k == KeyOf(items[m[2]])
             l == KeyOf(items[p[2]])
  <2>1. /\ rows[m[1]].key = k /\ rows[p[1]].key = l
        /\ m[1] \in FiledAs(k) /\ m[2] \in ReadAs(items, k)
        /\ p[1] \in FiledAs(l) /\ p[2] \in ReadAs(items, l)
        /\ Standing(m[1]) = Place(items, m[2]) /\ Standing(p[1]) = Place(items, p[2])
    BY DEF Found, FiledAs, ReadAs
  <2>2. ASSUME m[1] = p[1] PROVE m[2] = p[2]
    <3>1. k = l BY <2>1, <2>2
    <3> QED BY <2>1, <2>2, <3>1, Places
  <2>3. ASSUME m[2] = p[2] PROVE m[1] = p[1]
    <3>1. k = l BY <2>3
    <3> QED BY <2>1, <2>3, <3>1, Standings
  <2> QED BY <2>2, <2>3
<1>5. ASSUME NEW m \in Reidentified(items), NEW p \in Reidentified(items)
      PROVE  m[1] = p[1] <=> m[2] = p[2]
  <2>1. /\ m[1] \in Leftover(items) /\ m[2] \in Unfiled(items)
        /\ p[1] \in Leftover(items) /\ p[2] \in Unfiled(items)
        /\ BodyOf(rows[m[1]].key) = items[m[2]].body /\ BodyOf(rows[p[1]].key) = items[p[2]].body
    BY <1>3
  <2>2. /\ {r \in Leftover(items) : BodyOf(rows[r].key) = items[m[2]].body} = {m[1]}
        /\ {j \in Unfiled(items) : items[j].body = items[m[2]].body} = {m[2]}
    BY <1>3
  <2>3. ASSUME m[1] = p[1] PROVE m[2] = p[2] BY <2>1, <2>2, <2>3
  <2>4. ASSUME m[2] = p[2] PROVE m[1] = p[1] BY <2>1, <2>2, <2>4
  <2> QED BY <2>3, <2>4
<1>6. \A m \in Found(items), p \in Reidentified(items) : m[1] # p[1] /\ m[2] # p[2] BY <1>2, <1>3
<1>7. \A p \in Reidentified(items) : p \in (DOMAIN rows) \X (DOMAIN items) BY <1>2, <1>3
<1> QED BY <1>1, <1>4, <1>5, <1>6, <1>7 DEF Matched

(* The row an item stands in after the sync: one there was, or a new one. *)
Stands(items, order, n, j) ==
  \/ <<n, j>> \in Matched(items)
  \/ \E i \in DOMAIN order : n = Len(rows) + i /\ order[i] = j

LEMMA MatchedRows ==
  ASSUME Typed, NEW items, Single(items), NEW n \in DOMAIN rows
  PROVE  LET k == Kept(n, items)
         IN  /\ k \in RowType
             /\ \A j : <<n, j>> \in Matched(items) =>
                         /\ ~k.gone /\ k.key = KeyOf(items[j])
                         /\ k.id = items[j].id /\ k.mark = items[j].mark
             /\ k.gone \/ \E j : <<n, j>> \in Matched(items)
             /\ k.key = rows[n].key \/ \E p \in Reidentified(items) : p[1] = n /\ k.key = KeyOf(items[p[2]])
<1> DEFINE k == Kept(n, items)
<1>1. rows[n] \in RowType BY DEF Typed
<1>2. /\ Matched(items) \subseteq (DOMAIN rows) \X (DOMAIN items)
      /\ \A m, p \in Matched(items) : m[1] = p[1] => m[2] = p[2]
  BY Matching
<1>3. \A j \in DOMAIN items : items[j] \in Record /\ KeyOf(items[j]) \in Keys
                              /\ items[j].id \in Ids /\ items[j].mark \in Marks
  BY DEF Single, Record, KeyOf, Keys
<1>4. ASSUME NEW m \in Found(items), m[1] = n
      PROVE  /\ k \in RowType /\ ~k.gone /\ k.key = KeyOf(items[m[2]])
             /\ k.id = items[m[2]].id /\ k.mark = items[m[2]].mark /\ k.key = rows[n].key
  <2>1. k = Confirmed(rows[n], items[(CHOOSE p \in Found(items) : p[1] = n)[2]])
    BY <1>4 DEF Kept
  <2>2. PICK p \in Found(items) : p[1] = n /\ k = Confirmed(rows[n], items[p[2]])
    BY <1>4, <2>1
  <2>3. p[2] = m[2] BY <1>2, <1>4, <2>2 DEF Matched
  <2>4. m[2] \in DOMAIN items /\ rows[n].key = KeyOf(items[m[2]]) BY <1>4 DEF Found
  <2> DEFINE it == items[m[2]]
  <2>5. it.id \in Ids /\ it.mark \in Marks BY <1>3, <2>4
  <2>6. k = [rows[n] EXCEPT !.id = it.id, !.mark = it.mark, !.gone = FALSE]
    BY <2>2, <2>3 DEF Confirmed
  <2> HIDE DEF k, it
  <2>7. k \in RowType /\ ~k.gone /\ k.key = rows[n].key /\ k.id = it.id /\ k.mark = it.mark
    BY <1>1, <2>5, <2>6 DEF RowType
  <2> QED BY <2>4, <2>7 DEF it
<1>5. ASSUME ~\E m \in Found(items) : m[1] = n, NEW p \in Reidentified(items), p[1] = n
      PROVE  /\ k \in RowType /\ ~k.gone /\ k.key = KeyOf(items[p[2]])
             /\ k.id = items[p[2]].id /\ k.mark = items[p[2]].mark
  <2>1. k = Rekeyed(rows[n], items[(CHOOSE q \in Reidentified(items) : q[1] = n)[2]])
    BY <1>5 DEF Kept
  <2>2. PICK q \in Reidentified(items) : q[1] = n /\ k = Rekeyed(rows[n], items[q[2]])
    BY <1>5, <2>1
  <2>3. q[2] = p[2] /\ p[2] \in DOMAIN items BY <1>2, <1>5, <2>2 DEF Matched
  <2> DEFINE it == items[p[2]]
             key == KeyOf(it)
  <2>4. it.id \in Ids /\ it.mark \in Marks /\ key \in Keys BY <1>3, <2>3
  <2>5. k = [[rows[n] EXCEPT !.id = it.id, !.mark = it.mark, !.gone = FALSE] EXCEPT !.key = key]
    BY <2>2, <2>3 DEF Rekeyed, Confirmed
  <2> HIDE DEF k, it, key
  <2>6. k \in RowType /\ ~k.gone /\ k.key = key /\ k.id = it.id /\ k.mark = it.mark
    BY <1>1, <2>4, <2>5 DEF RowType
  <2> QED BY <2>6 DEF it, key
<1>6. ASSUME ~\E m \in Found(items) : m[1] = n, ~\E p \in Reidentified(items) : p[1] = n
      PROVE  k \in RowType /\ k.gone /\ k.key = rows[n].key
  <2>1. k = [rows[n] EXCEPT !.gone = TRUE] BY <1>6 DEF Kept
  <2> HIDE DEF k
  <2> QED BY <1>1, <2>1 DEF RowType
<1> HIDE DEF k
<1>7. k \in RowType BY <1>4, <1>5, <1>6
<1>8. \A p \in Reidentified(items) : \A m \in Found(items) : m[1] # p[1]
  BY DEF Reidentified, Leftover
<1>9. ASSUME NEW j, <<n, j>> \in Matched(items)
      PROVE  ~k.gone /\ k.key = KeyOf(items[j]) /\ k.id = items[j].id /\ k.mark = items[j].mark
  <2> DEFINE m == <<n, j>>
  <2>1. m[1] = n /\ m[2] = j OBVIOUS
  <2> HIDE DEF m
  <2>2. CASE m \in Found(items) BY <1>4, <2>1, <2>2
  <2>3. CASE m \in Reidentified(items)
    <3>1. ~\E q \in Found(items) : q[1] = n BY <1>8, <2>1, <2>3
    <3> QED BY <1>5, <2>1, <2>3, <3>1
  <2> QED BY <1>9, <2>2, <2>3 DEF Matched, m
<1>10. k.gone \/ \E j : <<n, j>> \in Matched(items)
  <2> SUFFICES ASSUME ~k.gone PROVE \E j : <<n, j>> \in Matched(items) OBVIOUS
  <2>1. PICK m \in Matched(items) : m[1] = n BY <1>6 DEF Matched
  <2>2. m = <<n, m[2]>> BY <1>2, <2>1
  <2> QED BY <2>1, <2>2
<1>11. k.key = rows[n].key \/ \E p \in Reidentified(items) : p[1] = n /\ k.key = KeyOf(items[p[2]])
  BY <1>4, <1>5, <1>6
<1> QED BY <1>7, <1>9, <1>10, <1>11 DEF k

(* A sync of one reading, whatever the rows were. *)
Synced(items, at, order) ==
  /\ order \in Bijection(1..Cardinality(Fresh(items)), Fresh(items))
  /\ rows' = [n \in DOMAIN rows |-> Kept(n, items)] \o [n \in DOMAIN order |-> Row(items[order[n]], at)]

LEMMA SyncedRows ==
  ASSUME Typed, NEW items, Single(items), NEW at \in Nat, NEW order, Synced(items, at, order)
  PROVE  /\ rows' \in Seq(RowType)
         /\ \A n \in DOMAIN rows : rows'[n] = Kept(n, items)
         /\ \A n, j : Stands(items, order, n, j) =>
              /\ n \in DOMAIN rows' /\ j \in DOMAIN items /\ ~rows'[n].gone /\ Shown(n)' = items[j]
              /\ rows'[n].key = KeyOf(items[j])
         /\ \A n \in DOMAIN rows' : ~rows'[n].gone => \E j : Stands(items, order, n, j)
         /\ \A j \in DOMAIN items : \E n : Stands(items, order, n, j)
         /\ \A n, m, j : Stands(items, order, n, j) /\ Stands(items, order, m, j) => n = m
<1> DEFINE F == Fresh(items)
           c == Cardinality(F)
           old == [n \in DOMAIN rows |-> Kept(n, items)]
           new == [n \in DOMAIN order |-> Row(items[order[n]], at)]
           l == Len(rows)
<1>1. IsFiniteSet(F) /\ F \subseteq DOMAIN items
  <2>1. F \in SUBSET (DOMAIN items) BY DEF Fresh, Unfiled
  <2> QED BY <2>1, FS_Subset DEF Single
<1>2. c \in Nat BY <1>1, FS_CardinalityType
<1>3. /\ DOMAIN order = 1..c /\ order \in [1..c -> F]
      /\ \A i, j \in 1..c : order[i] = order[j] => i = j
      /\ \A j \in F : \E i \in 1..c : order[i] = j
  <2> HIDE DEF F, c
  <2>1. order \in Injection(1..c, F) /\ order \in Surjection(1..c, F)
    BY DEF Synced, Bijection, F, c
  <2> QED BY <2>1 DEF Injection, IsInjective, Surjection
<1>4. \A j \in DOMAIN items : items[j] \in Record /\ Row(items[j], at) \in RowType
                              /\ KeyOf(items[j]) = <<items[j].body, items[j].paper>>
  BY DEF Single, Record, Row, RowType, KeyOf, Keys
<1>5. DOMAIN rows = 1..l /\ l \in Nat /\ rows \in Seq(RowType) BY DEF Typed
<1>6. old \in Seq(RowType) /\ Len(old) = l
  <2>1. \A n \in 1..l : Kept(n, items) \in RowType BY <1>5, MatchedRows
  <2>2. old = [n \in 1..l |-> Kept(n, items)] BY <1>5
  <2> HIDE DEF old, l
  <2> QED BY <1>5, <2>1, <2>2
<1>7. new \in Seq(RowType) /\ Len(new) = c
  <2> HIDE DEF F, c
  <2>1. new = [n \in 1..c |-> Row(items[order[n]], at)] BY <1>3
  <2>2. \A n \in 1..c : Row(items[order[n]], at) \in RowType BY <1>1, <1>3, <1>4
  <2> HIDE DEF new
  <2> QED BY <1>2, <2>1, <2>2
<1>8. rows' = old \o new BY DEF Synced
<1>9. /\ rows' \in Seq(RowType) /\ DOMAIN rows' = 1..(l + c)
      /\ \A n \in 1..l : rows'[n] = old[n]
      /\ \A n \in (l + 1)..(l + c) : rows'[n] = new[n - l]
  <2> HIDE DEF old, new, l, c
  <2>1. /\ old \o new \in Seq(RowType) /\ Len(old \o new) = l + c
        /\ \A n \in 1..(l + c) : (old \o new)[n] = IF n <= l THEN old[n] ELSE new[n - l]
    BY <1>6, <1>7, ConcatProperties, ZenonT(30)
  <2>2. rows' \in Seq(RowType) /\ DOMAIN rows' = 1..(l + c) BY <1>8, <2>1
  <2>3. \A n \in 1..l : n \in 1..(l + c) /\ n <= l BY <1>2, <1>5
  <2>4. \A n \in (l + 1)..(l + c) : n \in 1..(l + c) /\ ~(n <= l) BY <1>2, <1>5
  <2>5. \A n \in 1..l : rows'[n] = old[n] BY <1>8, <2>1, <2>3
  <2>6. \A n \in (l + 1)..(l + c) : rows'[n] = new[n - l] BY <1>8, <2>1, <2>4
  <2> QED BY <2>2, <2>5, <2>6
<1>10. /\ \A n \in 1..l : rows'[n] = Kept(n, items)
       /\ \A i \in 1..c : rows'[l + i] = Row(items[order[i]], at)
  <2>1. \A n \in 1..l : old[n] = Kept(n, items) BY <1>5
  <2>2. \A i \in 1..c : new[i] = Row(items[order[i]], at) BY <1>3
  <2> HIDE DEF old, new, l, c
  <2>3. ASSUME NEW i \in 1..c PROVE rows'[l + i] = Row(items[order[i]], at)
    <3>1. l + i \in (l + 1)..(l + c) /\ (l + i) - l = i BY <1>2, <1>5
    <3> QED BY <1>9, <2>2, <3>1
  <2> QED BY <1>9, <2>1, <2>3
<1>11. /\ Matched(items) \subseteq (DOMAIN rows) \X (DOMAIN items)
       /\ \A m, p \in Matched(items) : m[1] = p[1] <=> m[2] = p[2]
  BY Matching
<1>12. F = DOMAIN items \ {m[2] : m \in Matched(items)} BY DEF Fresh, Unfiled, Matched
<1> HIDE DEF F, c, old, new, l
<1>13. \A n, j : Stands(items, order, n, j) <=>
                   <<n, j>> \in Matched(items) \/ \E i \in 1..c : n = l + i /\ order[i] = j
  BY <1>3 DEF Stands, l
<1>14. ASSUME NEW n, NEW j, Stands(items, order, n, j)
       PROVE  /\ n \in DOMAIN rows' /\ j \in DOMAIN items /\ ~rows'[n].gone
              /\ rows'[n].key = KeyOf(items[j])
              /\ rows'[n].id = items[j].id /\ rows'[n].mark = items[j].mark
  <2>1. CASE <<n, j>> \in Matched(items)
    <3>1. n \in DOMAIN rows /\ n \in 1..l /\ n \in 1..(l + c) /\ j \in DOMAIN items
      BY <1>2, <1>5, <1>11, <2>1
    <3>2. rows'[n] = Kept(n, items) BY <1>10, <3>1
    <3> QED BY <1>9, <2>1, <3>1, <3>2, MatchedRows
  <2>2. ASSUME NEW i \in 1..c, n = l + i, order[i] = j
        PROVE  /\ n \in DOMAIN rows' /\ j \in DOMAIN items /\ ~rows'[n].gone
               /\ rows'[n].key = KeyOf(items[j])
               /\ rows'[n].id = items[j].id /\ rows'[n].mark = items[j].mark
    <3>1. n \in 1..(l + c) BY <1>2, <1>5, <2>2
    <3>2. j \in DOMAIN items BY <1>1, <1>3, <2>2
    <3>3. rows'[n] = Row(items[j], at) BY <1>10, <2>2
    <3> QED BY <1>9, <3>1, <3>2, <3>3 DEF Row
  <2> QED BY <1>13, <1>14, <2>1, <2>2
<1>15. ASSUME NEW n, NEW j, Stands(items, order, n, j) PROVE Shown(n)' = items[j]
  <2>1. /\ j \in DOMAIN items /\ rows'[n].key = KeyOf(items[j])
        /\ rows'[n].id = items[j].id /\ rows'[n].mark = items[j].mark
    BY <1>14, <1>15
  <2>2. items[j] \in Record /\ rows'[n].key[1] = items[j].body /\ rows'[n].key[2] = items[j].paper
    BY <1>4, <2>1
  <2>3. items[j] = [id |-> items[j].id, body |-> items[j].body, paper |-> items[j].paper, mark |-> items[j].mark]
    BY <2>2 DEF Record
  <2> QED BY <2>1, <2>2, <2>3 DEF Shown
<1>16. ASSUME NEW n \in DOMAIN rows', ~rows'[n].gone PROVE \E j : Stands(items, order, n, j)
  <2>1. CASE n \in 1..l
    <3>1. n \in DOMAIN rows /\ ~Kept(n, items).gone BY <1>5, <1>10, <1>16, <2>1
    <3> QED BY <1>13, <3>1, MatchedRows
  <2>2. CASE n \notin 1..l
    <3>1. n - l \in 1..c /\ n = l + (n - l) BY <1>2, <1>5, <1>9, <2>2
    <3> QED BY <1>13, <3>1
  <2> QED BY <2>1, <2>2
<1>17. ASSUME NEW j \in DOMAIN items PROVE \E n : Stands(items, order, n, j)
  <2>1. CASE j \in F
    <3>1. PICK i \in 1..c : order[i] = j BY <1>3, <2>1
    <3> QED BY <1>13, <3>1
  <2>2. CASE j \notin F
    <3>1. PICK m \in Matched(items) : m[2] = j BY <1>12, <2>2
    <3>2. m = <<m[1], j>> BY <1>11, <3>1
    <3> QED BY <1>13, <3>1, <3>2
  <2> QED BY <2>1, <2>2
<1>18. ASSUME NEW n, NEW m, NEW j, Stands(items, order, n, j), Stands(items, order, m, j)
       PROVE  n = m
  <2>1. CASE j \in F
    <3>1. <<n, j>> \notin Matched(items) /\ <<m, j>> \notin Matched(items)
      <4>1. \A q \in Matched(items) : q[2] # j BY <1>12, <2>1
      <4>2. <<n, j>>[2] = j /\ <<m, j>>[2] = j OBVIOUS
      <4> QED BY <4>1, <4>2
    <3>2. PICK i \in 1..c : n = l + i /\ order[i] = j BY <1>13, <1>18, <3>1
    <3>3. PICK k \in 1..c : m = l + k /\ order[k] = j BY <1>13, <1>18, <3>1
    <3> QED BY <1>3, <3>2, <3>3
  <2>2. CASE j \notin F
    <3>1. \A i \in 1..c : order[i] # j BY <1>3, <2>2
    <3>2. <<n, j>> \in Matched(items) /\ <<m, j>> \in Matched(items) BY <1>13, <1>18, <3>1
    <3> DEFINE p == <<n, j>>
               q == <<m, j>>
    <3>3. p[1] = n /\ p[2] = j /\ q[1] = m /\ q[2] = j OBVIOUS
    <3> HIDE DEF p, q
    <3>4. p[1] = q[1] BY <1>11, <3>2, <3>3 DEF p, q
    <3> QED BY <3>3, <3>4
  <2> QED BY <2>1, <2>2
<1> QED BY <1>5, <1>9, <1>10, <1>14, <1>15, <1>16, <1>17, <1>18

(* After a sync the live rows are the reading, each record once. *)
LEMMA SyncedLive ==
  ASSUME Typed, NEW items, Single(items), NEW at \in Nat, NEW order, Synced(items, at, order)
  PROVE  Live' = SetToBag(Range(items))
<1>1. /\ \A n, j : Stands(items, order, n, j) =>
              /\ n \in DOMAIN rows' /\ j \in DOMAIN items /\ ~rows'[n].gone /\ Shown(n)' = items[j]
      /\ \A n \in DOMAIN rows' : ~rows'[n].gone => \E j : Stands(items, order, n, j)
      /\ \A j \in DOMAIN items : \E n : Stands(items, order, n, j)
      /\ \A n, m, j : Stands(items, order, n, j) /\ Stands(items, order, m, j) => n = m
  BY SyncedRows
<1>2. \A n : n \in LiveRows' <=> n \in DOMAIN rows' /\ ~rows'[n].gone BY DEF LiveRows
<1>3. \A i, j \in DOMAIN items : items[i] = items[j] => i = j BY DEF Single
<1>4. {Shown(n)' : n \in LiveRows'} = Range(items) BY <1>1, <1>2 DEF Range
<1>5. ASSUME NEW it \in Range(items) PROVE Cardinality({n \in LiveRows' : Shown(n)' = it}) = 1
  <2>1. PICK j \in DOMAIN items : it = items[j] BY DEF Range
  <2>2. PICK n : Stands(items, order, n, j) BY <1>1
  <2>3. n \in LiveRows' /\ Shown(n)' = it BY <1>1, <1>2, <2>1, <2>2
  <2>4. ASSUME NEW m \in LiveRows', Shown(m)' = it PROVE m = n
    <3>1. PICK k : Stands(items, order, m, k) BY <1>1, <1>2
    <3>2. k \in DOMAIN items /\ items[k] = items[j] BY <1>1, <2>1, <2>4, <3>1
    <3> QED BY <1>1, <1>3, <2>2, <3>1, <3>2
  <2>5. {m \in LiveRows' : Shown(m)' = it} = {n} BY <2>3, <2>4
  <2> QED BY <2>5, FS_Singleton
<1>6. Live' = [it \in {Shown(n)' : n \in LiveRows'} |-> Cardinality({n \in LiveRows' : Shown(n)' = it})]
  BY DEF Live
<1>7. Live' = [it \in Range(items) |-> 1] BY <1>4, <1>5, <1>6
<1> QED BY <1>7 DEF SetToBag

-----------------------------------------------------------------------------
(* What a run reads. *)
LEMMA HistoryRead ==
  ASSUME Typed, NEW again \in {<<>>} \cup {<<it>> : it \in broker}
  PROVE  History \o again \in Seq(Record) /\ OneEach(History \o again)
<1> DEFINE R == {m \in broker \X broker : m[1].id < m[2].id}
           c == Cardinality(broker)
           Upto(it) == {b \in broker : b.id <= it.id}
<1>1. /\ broker \subseteq Record /\ IsFiniteSet(broker) /\ \A a, b \in broker : a.id = b.id => a = b
  BY DEF Typed
<1>2. \A b \in broker : b.id \in Nat BY <1>1 DEF Record
<1>3. R \in SUBSET (broker \X broker) /\ \A a, b \in broker : <<a, b>> \in R <=> a.id < b.id OBVIOUS
<1>4. /\ \A a \in broker : <<a, a>> \notin R
      /\ \A a, b, d \in broker : <<a, b>> \in R /\ <<b, d>> \in R => <<a, d>> \in R
      /\ \A a, b \in broker : a = b \/ <<a, b>> \in R \/ <<b, a>> \in R
  <2> HIDE DEF R
  <2>1. \A a, b \in broker : a = b \/ a.id < b.id \/ b.id < a.id BY <1>1, <1>2
  <2> QED BY <1>2, <1>3, <2>1
<1>5. \A it \in broker : UpTo(broker, R, it) = Upto(it)
  <2> SUFFICES ASSUME NEW it \in broker PROVE UpTo(broker, R, it) = Upto(it) OBVIOUS
  <2>1. \A b \in broker : (b = it \/ <<b, it>> \in R) <=> b.id <= it.id BY <1>1, <1>2, <1>3
  <2> HIDE DEF R
  <2> QED BY <2>1 DEF UpTo
<1>6. \A n \in 1..c : \E it \in broker : Cardinality(Upto(it)) = n
  <2> HIDE DEF R
  <2>1. R \in SUBSET (broker \X broker) /\ IsFiniteSet(broker) BY <1>1, <1>3
  <2>2. \A n \in 1..Cardinality(broker) : \E it \in broker : Cardinality(UpTo(broker, R, it)) = n
    BY <1>4, <2>1, Ranks
  <2> QED BY <1>5, <2>2
<1>7. c \in Nat BY <1>1, FS_CardinalityType
<1>8. History = [n \in 1..c |-> CHOOSE it \in broker : Cardinality(Upto(it)) = n] BY DEF History
<1> HIDE DEF c, Upto
<1>9. History \in Seq(broker)
  <2>1. \A n \in 1..c : (CHOOSE it \in broker : Cardinality(Upto(it)) = n) \in broker BY <1>6
  <2> DEFINE e(n) == CHOOSE it \in broker : Cardinality(Upto(it)) = n
  <2>2. History = [n \in 1..c |-> e(n)] /\ \A n \in 1..c : e(n) \in broker BY <1>8, <2>1
  <2> HIDE DEF e
  <2> QED BY <1>7, <2>2
<1>10. again \in Seq(broker)
  <2>1. CASE again = <<>> BY <2>1
  <2>2. ASSUME NEW it \in broker, again = <<it>> PROVE again \in Seq(broker) BY <2>2
  <2> QED BY <2>1, <2>2
<1>11. History \o again \in Seq(broker) BY <1>9, <1>10, ConcatProperties
<1> DEFINE items == History \o again
<1> HIDE DEF items
<1>12. items \in Seq(broker) BY <1>11 DEF items
<1>13. \A i \in DOMAIN items : items[i] \in broker BY <1>12
<1>14. OneEach(items) BY <1>1, <1>13 DEF OneEach
<1>15. items \in Seq(Record)
  <2>1. DOMAIN items = 1..Len(items) /\ Len(items) \in Nat /\ items = [i \in 1..Len(items) |-> items[i]]
    BY <1>12
  <2> QED BY <1>1, <1>13, <2>1
<1> QED BY <1>14, <1>15 DEF items

-----------------------------------------------------------------------------
(* The steps, one by one. *)
LEMMA WorldStays ==
  ASSUME [Next]_vars
  PROVE  /\ world' = world /\ Record' = Record /\ Keys' = Keys /\ RowType' = RowType
<1>1. world' = world
  <2>1. CASE BrokerChanges BY <2>1 DEF BrokerChanges
  <2>2. ASSUME NEW r \in Runs, Syncs(r) PROVE world' = world
    BY <2>2 DEF Syncs, Read, SyncMirror, RunLost
  <2>3. CASE Explains BY <2>3 DEF Explains, CheckRows, CreateExplanations, Unexplain
  <2>4. CASE DeleteConnection \/ UNCHANGED vars BY <2>4 DEF DeleteConnection, vars
  <2> QED BY <2>1, <2>2, <2>3, <2>4 DEF Next
<1>2. Bodies' = Bodies BY <1>1 DEF Bodies
<1> QED BY <1>1, <1>2 DEF Record, Keys, RowType

LEMMA BrokerTyped == ASSUME Typed, [Next]_vars, BrokerChanges PROVE Typed'
<1>1. UNCHANGED <<world, reading, clock, rows, connected>> BY DEF BrokerChanges
<1>2. Record' = Record /\ RowType' = RowType BY WorldStays
<1>3. broker \subseteq Record /\ IsFiniteSet(broker) BY DEF Typed
<1>4. broker' \subseteq Record /\ IsFiniteSet(broker') /\ \A a, b \in broker' : a.id = b.id => a = b
  <2>1. ASSUME NEW S, S \subseteq Record, IsFiniteSet(S), Holds(S)
        PROVE  broker' \subseteq Record /\ IsFiniteSet(broker') /\ \A a, b \in broker' : a.id = b.id => a = b
    BY <2>1 DEF Holds
  <2>2. ASSUME NEW it \in Record \ broker, Holds(broker \cup {it})
        PROVE  broker \cup {it} \subseteq Record /\ IsFiniteSet(broker \cup {it})
    BY <1>3, FS_AddElement
  <2>3. ASSUME NEW it \in broker
        PROVE  broker \ {it} \subseteq Record /\ IsFiniteSet(broker \ {it})
    BY <1>3, FS_RemoveElement
  <2>4. ASSUME NEW it \in broker, NEW new \in Rewritten(it) \ {it}
        PROVE  (broker \ {it}) \cup {new} \subseteq Record /\ IsFiniteSet((broker \ {it}) \cup {new})
    <3>1. it \in Record BY <1>3
    <3>2. new \in Record BY <3>1 DEF Rewritten, Record
    <3>3. IsFiniteSet((broker \ {it}) \cup {new}) BY <2>3, FS_AddElement
    <3> QED BY <1>3, <3>2, <3>3
  <2> QED BY <2>1, <2>2, <2>3, <2>4 DEF BrokerChanges
<1> QED BY <1>1, <1>2, <1>4 DEF Typed

LEMMA ReadTyped == ASSUME Typed, [Next]_vars, NEW r \in Runs, Read(r) PROVE Typed'
<1>1. UNCHANGED <<world, broker, rows, connected>> BY DEF Read
<1>2. Record' = Record /\ RowType' = RowType BY WorldStays
<1>3. clock' \in Nat BY DEF Read, Typed
<1>4. PICK again \in {<<>>} \cup {<<it>> : it \in broker} :
        reading' = [reading EXCEPT ![r] = [at |-> clock', items |-> History \o again]]
  BY DEF Read
<1> DEFINE items == History \o again
<1>5. items \in Seq(Record) /\ OneEach(items) BY HistoryRead
<1> HIDE DEF items
<1>6. reading' = [reading EXCEPT ![r] = [at |-> clock', items |-> items]] BY <1>4 DEF items
<1>7. reading \in [Runs -> [at : Nat, items : Seq(Record)]] /\ \A q \in Runs : OneEach(reading[q].items)
  BY DEF Typed
<1>8. reading' \in [Runs -> [at : Nat, items : Seq(Record)]] /\ \A q \in Runs : OneEach(reading'[q].items)
  <2>1. [at |-> clock', items |-> items] \in [at : Nat, items : Seq(Record)] BY <1>3, <1>5
  <2>2. \A q \in Runs : reading'[q].items = IF q = r THEN items ELSE reading[q].items BY <1>6, <1>7
  <2> QED BY <1>5, <1>6, <1>7, <2>1, <2>2
<1> QED BY <1>1, <1>2, <1>3, <1>8 DEF Typed

LEMMA NoReadingTyped == NoReading \in [at : Nat, items : Seq(Record)] /\ OneEach(NoReading.items)
<1>1. <<>> \in Seq(Record) /\ DOMAIN (<<>>) = {} OBVIOUS
<1> QED BY <1>1 DEF NoReading, OneEach

(* A run that ends leaves its reading. *)
LEMMA LeavesTyped ==
  ASSUME Typed, [Next]_vars, NEW r \in Runs, reading' = [reading EXCEPT ![r] = NoReading]
  PROVE  reading' \in [Runs -> [at : Nat, items : Seq(Record)]] /\ \A q \in Runs : OneEach(reading'[q].items)
BY NoReadingTyped DEF Typed

LEMMA SyncIsSynced ==
  ASSUME Typed, NEW r \in Runs, SyncMirror(r)
  PROVE  LET items == Deduped(reading[r].items)
         IN  /\ Single(items) /\ Range(items) = Range(reading[r].items) /\ reading[r].at \in Nat
             /\ \E order : Synced(items, reading[r].at, order)
<1> DEFINE items == Deduped(reading[r].items)
<1>1. reading[r].items \in Seq(Record) /\ OneEach(reading[r].items) /\ reading[r].at \in Nat BY DEF Typed
<1>2. Single(items) /\ Range(items) = Range(reading[r].items) BY <1>1, DedupedOnce
<1>3. PICK new \in Inserted(items, reading[r].at) : rows' = [n \in DOMAIN rows |-> Kept(n, items)] \o new
  BY DEF SyncMirror
<1> HIDE DEF items
<1>4. PICK order \in Bijection(1..Cardinality(Fresh(items)), Fresh(items)) :
        new = [n \in DOMAIN order |-> Row(items[order[n]], reading[r].at)]
  BY DEF Inserted
<1>5. Synced(items, reading[r].at, order) BY <1>3, <1>4 DEF Synced
<1> QED BY <1>1, <1>2, <1>5 DEF items

LEMMA StepTyped == ASSUME Typed, [Next]_vars PROVE Typed'
<1>1. Record' = Record /\ RowType' = RowType BY WorldStays
<1>2. ASSUME NEW r \in Runs, SyncMirror(r) PROVE Typed'
  <2>1. rows' \in Seq(RowType)
    <3> DEFINE items == Deduped(reading[r].items)
    <3>1. /\ Single(items) /\ reading[r].at \in Nat /\ \E order : Synced(items, reading[r].at, order)
      BY <1>2, SyncIsSynced
    <3> HIDE DEF items
    <3> QED BY <3>1, SyncedRows
  <2>2. UNCHANGED <<world, broker, clock, connected>> /\ reading' = [reading EXCEPT ![r] = NoReading]
    BY <1>2 DEF SyncMirror
  <2> QED BY <1>1, <2>1, <2>2, LeavesTyped DEF Typed
<1>3. ASSUME NEW r \in Runs, RunLost(r) PROVE Typed'
  <2>1. UNCHANGED <<world, broker, rows, clock, connected>> /\ reading' = [reading EXCEPT ![r] = NoReading]
    BY <1>3 DEF RunLost
  <2> QED BY <1>1, <2>1, LeavesTyped DEF Typed
<1>4. CASE Explains \/ UNCHANGED vars
  <2>1. UNCHANGED <<world, broker, reading, rows, clock, connected>>
    BY <1>4 DEF Explains, CheckRows, CreateExplanations, Unexplain, vars
  <2> QED BY <1>1, <2>1 DEF Typed
<1>5. CASE DeleteConnection
  <2>1. /\ UNCHANGED <<world, broker, reading, clock>> /\ rows' = <<>> /\ connected' = FALSE
    BY <1>5 DEF DeleteConnection
  <2>2. rows' \in Seq(RowType) BY <2>1
  <2> QED BY <1>1, <2>1, <2>2 DEF Typed
<1> QED BY <1>2, <1>3, <1>4, <1>5, BrokerTyped, ReadTyped DEF Next, Syncs

LEMMA InitTyped == Init => Typed
<1> SUFFICES ASSUME Init PROVE Typed OBVIOUS
<1>1. /\ world \in DOMAIN Worlds /\ broker = {} /\ clock = 0 /\ connected = TRUE /\ rows = <<>>
      /\ reading = [r \in Runs |-> NoReading]
  BY DEF Init
<1>2. IsFiniteSet(broker) BY <1>1, FS_EmptySet
<1>3. rows \in Seq(RowType) BY <1>1
<1>4. reading \in [Runs -> [at : Nat, items : Seq(Record)]] /\ \A q \in Runs : OneEach(reading[q].items)
  BY <1>1, NoReadingTyped
<1> QED BY <1>1, <1>2, <1>3, <1>4 DEF Typed

-----------------------------------------------------------------------------
(* The copy the mirror implements. *)
Heard == [r \in Runs |-> IF reading[r] = NoReading THEN Unread ELSE SetToBag(Range(reading[r].items))]

LEMMA BagsOfSets == ASSUME NEW S PROVE IsABag(SetToBag(S)) /\ DOMAIN SetToBag(S) = S
BY DEF SetToBag, IsABag

LEMMA HeardIsRead ==
  ASSUME Typed, NEW r \in Runs, reading[r] # NoReading
  PROVE  Heard[r] = SetToBag(Range(reading[r].items)) /\ Heard[r] # Unread
<1> DEFINE zero == [id |-> 0, body |-> 0, paper |-> 0, mark |-> 0]
<1>1. Heard[r] = SetToBag(Range(reading[r].items)) BY DEF Heard
<1>2. zero \notin Range(reading[r].items)
  <2>1. reading[r].items \in Seq(Record) BY DEF Typed
  <2>2. \A it \in Range(reading[r].items) : it \in Record BY <2>1 DEF Range
  <2>3. zero \notin Record BY DEF Record
  <2> QED BY <2>2, <2>3
<1>3. DOMAIN Unread = {zero} BY BagsOfSets DEF Unread
<1>4. DOMAIN Heard[r] = Range(reading[r].items) BY <1>1, BagsOfSets
<1> HIDE DEF zero
<1> QED BY <1>1, <1>2, <1>3, <1>4

LEMMA HeardIsABag == ASSUME NEW r \in Runs PROVE IsABag(Heard[r]) /\ IsABag(Heard'[r])
BY BagsOfSets DEF Heard, Unread

(* What a run does with its own reading is no business of the others'. *)
LEMMA HeardOfOne ==
  ASSUME Typed, NEW r \in Runs, NEW v, reading' = [reading EXCEPT ![r] = v]
  PROVE  /\ \A q \in Runs \ {r} : Heard'[q] = Heard[q]
         /\ v = NoReading => Heard' = [Heard EXCEPT ![r] = Unread]
<1>1. \A q \in Runs \ {r} : reading'[q] = reading[q] BY DEF Typed
<1>2. reading'[r] = v BY DEF Typed
<1>3. \A q \in Runs \ {r} : Heard'[q] = Heard[q] BY <1>1 DEF Heard
<1>4. ASSUME v = NoReading PROVE Heard' = [Heard EXCEPT ![r] = Unread]
  <2>1. Heard'[r] = Unread BY <1>2, <1>4 DEF Heard
  <2>2. /\ Heard' = [q \in Runs |-> Heard'[q]] /\ Heard = [q \in Runs |-> Heard[q]]
    BY DEF Heard
  <2> DEFINE f == Heard
             g == Heard'
  <2>3. f = [q \in Runs |-> f[q]] /\ g = [q \in Runs |-> g[q]] /\ g[r] = Unread
        /\ \A q \in Runs \ {r} : g[q] = f[q]
    BY <1>3, <2>1, <2>2
  <2> HIDE DEF f, g
  <2>4. g = [f EXCEPT ![r] = Unread] BY <2>3
  <2> QED BY <2>4 DEF f, g
<1> QED BY <1>3, <1>4

LEMMA CopySteps == ASSUME Typed, [Next]_vars PROVE [Copy!Next]_Copy!copyvars
<1>1. ASSUME NEW r \in Runs, SyncMirror(r) PROVE Copy!Next
  <2> DEFINE items == Deduped(reading[r].items)
  <2>1. /\ Single(items) /\ Range(items) = Range(reading[r].items) /\ reading[r].at \in Nat
        /\ \E order : Synced(items, reading[r].at, order)
    BY <1>1, SyncIsSynced
  <2> HIDE DEF items
  <2>2. Live' = SetToBag(Range(reading[r].items)) BY <2>1, SyncedLive
  <2>3. /\ connected /\ connected' = connected /\ reading[r] # NoReading
        /\ reading' = [reading EXCEPT ![r] = NoReading]
    BY <1>1 DEF SyncMirror
  <2>4. Heard[r] # Unread /\ Live' = Heard[r] BY <2>2, <2>3, HeardIsRead
  <2>5. Heard' = [Heard EXCEPT ![r] = Unread] BY <2>3, HeardOfOne
  <2>6. Copy!Replace(r) BY <2>3, <2>4, <2>5 DEF Copy!Replace, Heard
  <2> QED BY <2>6 DEF Copy!Next
<1>2. ASSUME NEW r \in Runs, Read(r) \/ RunLost(r) PROVE Copy!Next
  <2>1. UNCHANGED <<rows, connected>> /\ \E v : reading' = [reading EXCEPT ![r] = v]
    BY <1>2 DEF Read, RunLost
  <2>2. Live' = Live BY <2>1 DEF Live, LiveRows, Shown
  <2>3. \A q \in Runs \ {r} : Heard'[q] = Heard[q] BY <2>1, HeardOfOne
  <2>4. IsABag(Heard'[r]) BY HeardIsABag
  <2>5. Copy!IsABag(Heard'[r]) BY <2>4 DEF IsABag, Copy!IsABag
  <2>6. Copy!Hear(r) BY <2>1, <2>2, <2>3, <2>5 DEF Copy!Hear, Heard
  <2> QED BY <2>6 DEF Copy!Next
<1>3. CASE DeleteConnection
  <2>1. connected /\ connected' = FALSE /\ rows' = <<>> /\ reading' = reading
    BY <1>3 DEF DeleteConnection
  <2>2. LiveRows' = {} BY <2>1 DEF LiveRows
  <2>3. Live' = EmptyBag BY <2>2 DEF Live, EmptyBag, SetToBag
  <2>4. Heard' = Heard BY <2>1 DEF Heard
  <2>5. Copy!Forget BY <2>1, <2>3, <2>4 DEF Copy!Forget, Heard, EmptyBag, SetToBag, Copy!EmptyBag, Copy!SetToBag
  <2> QED BY <2>5 DEF Copy!Next
<1>4. CASE BrokerChanges \/ Explains \/ UNCHANGED vars
  <2>1. UNCHANGED <<rows, connected, reading>>
    BY <1>4 DEF BrokerChanges, Explains, CheckRows, CreateExplanations, Unexplain, vars
  <2>2. Live' = Live BY <2>1 DEF Live, LiveRows, Shown
  <2>3. Heard' = Heard BY <2>1 DEF Heard
  <2> QED BY <2>1, <2>2, <2>3 DEF Copy!copyvars, Heard
<1> QED BY <1>1, <1>2, <1>3, <1>4 DEF Next, Syncs

(* SyncMirror implements the copy it promises: whatever the mirror held, and *)
(* however readings overtake each other, its live rows become the records of *)
(* one reading, each as often as it was read and with all it said.           *)
THEOREM MirrorIsACopy == Spec => ImplementsBrokerCopy
<1>1. Init => Copy!Init
  <2> SUFFICES ASSUME Init PROVE Copy!Init OBVIOUS
  <2>1. rows = <<>> /\ connected = TRUE /\ reading = [r \in Runs |-> NoReading] BY DEF Init
  <2>2. LiveRows = {} BY <2>1 DEF LiveRows
  <2>3. Live = EmptyBag BY <2>2 DEF Live, EmptyBag, SetToBag
  <2>4. Heard = [r \in Runs |-> Unread] BY <2>1 DEF Heard
  <2> QED BY <2>1, <2>3, <2>4 DEF Copy!Init, Heard, EmptyBag, SetToBag, Copy!EmptyBag, Copy!SetToBag
<1>2. Typed /\ [Next]_vars => Typed' BY StepTyped
<1>3. Typed /\ [Next]_vars => [Copy!Next]_Copy!copyvars BY CopySteps
<1> QED BY InitTyped, <1>1, <1>2, <1>3, PTL DEF Spec, ImplementsBrokerCopy, Copy!Spec

-----------------------------------------------------------------------------
(* What stays of the rows of a key. *)
LEMMA SameSize ==
  ASSUME NEW S, NEW T, IsFiniteSet(S), NEW f \in [S -> T],
         \A x, y \in S : f[x] = f[y] => x = y, \A t \in T : \E x \in S : f[x] = t
  PROVE  IsFiniteSet(T) /\ Cardinality(T) = Cardinality(S)
<1>1. f \in Surjection(S, T) /\ f \in Injection(S, T) BY DEF Surjection, Injection, IsInjective
<1> QED BY <1>1, FS_Surjection

LEMMA Smaller ==
  ASSUME NEW m \in Nat, NEW n \in Nat
  PROVE  LET k == IF m <= n THEN m ELSE n IN k \in Nat /\ Min({m, n}) = k
<1> DEFINE k == IF m <= n THEN m ELSE n
<1>1. k \in {m, n} /\ \A y \in {m, n} : k <= y OBVIOUS
<1>2. \A x \in {m, n} : (\A y \in {m, n} : x <= y) => x = k OBVIOUS
<1> HIDE DEF k
<1>3. Min({m, n}) = k BY <1>1, <1>2 DEF Min
<1> QED BY <1>3 DEF k

(* The places of a key are filled from the first: a live row is left over    *)
(* and an item unfiled only under different keys.                            *)
LEMMA FoundByPlace ==
  ASSUME Typed, NEW items, Single(items), NEW k,
         NEW r \in FiledAs(k)
  PROVE  (\E j : <<r, j>> \in Found(items)) <=> Standing(r) <= Cardinality(ReadAs(items, k))
<1> DEFINE m == Cardinality(ReadAs(items, k))
<1>1. m \in Nat BY Places, FS_CardinalityType
<1>2. Standing(r) \in 1..Cardinality(FiledAs(k)) BY Standings
<1>3. r \in DOMAIN rows /\ rows[r].key = k BY DEF FiledAs
<1>4. ASSUME NEW j, <<r, j>> \in Found(items) PROVE Standing(r) <= m
  <2>1. j \in ReadAs(items, k) /\ Standing(r) = Place(items, j) BY <1>3, <1>4 DEF Found, ReadAs
  <2>2. Place(items, j) \in 1..m BY <2>1, Places
  <2> QED BY <1>1, <2>1, <2>2
<1>5. ASSUME Standing(r) <= m PROVE \E j : <<r, j>> \in Found(items)
  <2>1. Standing(r) \in 1..m BY <1>1, <1>2, <1>5
  <2>2. PICK j \in ReadAs(items, k) : Place(items, j) = Standing(r) BY <2>1, Places
  <2>3. <<r, j>> \in Found(items) BY <1>3, <2>2 DEF Found, ReadAs
  <2> QED BY <2>3
<1> QED BY <1>4, <1>5

LEMMA UnfiledIsUnlike ==
  ASSUME Typed, NEW items, Single(items), NEW r \in Leftover(items), NEW j \in Unfiled(items)
  PROVE  rows[r].key # KeyOf(items[j])
<1> SUFFICES ASSUME rows[r].key = KeyOf(items[j]) PROVE FALSE OBVIOUS
<1> DEFINE k == KeyOf(items[j])
<1>1. r \in FiledAs(k) /\ j \in ReadAs(items, k) BY DEF Leftover, Unfiled, FiledAs, ReadAs
<1>2. ~\E i : <<r, i>> \in Found(items)
  <2> SUFFICES ASSUME NEW i, <<r, i>> \in Found(items) PROVE FALSE OBVIOUS
  <2>1. <<r, i>>[1] = r OBVIOUS
  <2> QED BY <2>1 DEF Leftover
<1>3. ~\E q : <<q, j>> \in Found(items)
  <2> SUFFICES ASSUME NEW q, <<q, j>> \in Found(items) PROVE FALSE OBVIOUS
  <2>1. <<q, j>>[2] = j OBVIOUS
  <2> QED BY <2>1 DEF Unfiled
<1> DEFINE m == Cardinality(ReadAs(items, k))
           n == Cardinality(FiledAs(k))
<1>4. m \in Nat /\ n \in Nat BY Places, Standings, FS_CardinalityType
<1>5. Standing(r) \in 1..n /\ ~(Standing(r) <= m) BY <1>1, <1>2, FoundByPlace, Standings
<1>6. Place(items, j) \in 1..m BY <1>1, Places
<1> HIDE DEF m, n
<1>7. Place(items, j) \in 1..n BY <1>4, <1>5, <1>6
<1>8. PICK q \in FiledAs(k) : Standing(q) = Place(items, j) BY <1>7, Standings DEF n
<1>9. <<q, j>> \in Found(items)
  <2>1. q \in DOMAIN rows /\ j \in DOMAIN items /\ rows[q].key = KeyOf(items[j])
    BY <1>8 DEF FiledAs, Unfiled
  <2> QED BY <1>8, <2>1 DEF Found
<1> QED BY <1>3, <1>9

(* The live rows of a key stand first, in places of their own. *)
LEMMA LiveFirst ==
  ASSUME Typed, NEW k
  PROVE  LET L == LiveOf(rows, k)
         IN  /\ IsFiniteSet(L) /\ L \subseteq FiledAs(k)
             /\ \A r \in L : Standing(r) \in 1..Cardinality(L)
             /\ \A r, q \in L : Standing(r) = Standing(q) => r = q
             /\ \A n \in 1..Cardinality(L) : \E r \in L : Standing(r) = n
<1> DEFINE L == LiveOf(rows, k)
           R == {m \in L \X L : Before(m[1], m[2])}
<1>1. L \subseteq FiledAs(k) /\ IsFiniteSet(L)
  <2>1. L \in SUBSET FiledAs(k) BY DEF LiveOf, FiledAs
  <2> QED BY <2>1, Standings, FS_Subset
<1>2. \A a \in DOMAIN rows : a \in Nat /\ rows[a].gone \in BOOLEAN /\ rows[a].seen \in Nat
  <2>1. \A a \in DOMAIN rows : a \in Nat /\ rows[a] \in RowType BY DEF Typed
  <2> QED BY <2>1 DEF RowType
<1>3. \A a \in L : a \in DOMAIN rows /\ rows[a].key = k /\ ~rows[a].gone BY DEF LiveOf
<1>4. R \in SUBSET (L \X L) /\ \A a, b \in L : <<a, b>> \in R <=> Before(a, b) OBVIOUS
<1>5. /\ \A a \in L : ~Before(a, a)
      /\ \A a, b, c \in L : Before(a, b) /\ Before(b, c) => Before(a, c)
      /\ \A a, b \in L : a = b \/ Before(a, b) \/ Before(b, a)
  <2> HIDE DEF L
  <2> QED BY <1>2, <1>3 DEF Before
<1>6. \A r \in L : Standing(r) = Cardinality(UpTo(L, R, r))
  <2> SUFFICES ASSUME NEW r \in L PROVE Standing(r) = Cardinality(UpTo(L, R, r)) OBVIOUS
  <2>1. \A q \in DOMAIN rows : Before(q, r) => ~rows[q].gone BY <1>2, <1>3 DEF Before
  <2>2. \A q \in DOMAIN rows : rows[q].key = k /\ ~rows[q].gone => q \in L BY DEF LiveOf
  <2> HIDE DEF L
  <2>3. {q \in DOMAIN rows : rows[q].key = rows[r].key /\ (q = r \/ Before(q, r))}
          = {q \in L : q = r \/ Before(q, r)}
    BY <1>3, <2>1, <2>2
  <2>4. {q \in L : q = r \/ Before(q, r)} = UpTo(L, R, r) BY <1>4 DEF UpTo
  <2> QED BY <2>3, <2>4 DEF Standing
<1> HIDE DEF L, R
<1>7. /\ \A x \in L : Cardinality(UpTo(L, R, x)) \in 1..Cardinality(L)
      /\ \A x, y \in L : Cardinality(UpTo(L, R, x)) = Cardinality(UpTo(L, R, y)) => x = y
      /\ \A n \in 1..Cardinality(L) : \E x \in L : Cardinality(UpTo(L, R, x)) = n
  <2>1. /\ \A a \in L : <<a, a>> \notin R
        /\ \A a, b, c \in L : <<a, b>> \in R /\ <<b, c>> \in R => <<a, c>> \in R
        /\ \A a, b \in L : a = b \/ <<a, b>> \in R \/ <<b, a>> \in R
    BY <1>4, <1>5
  <2>2. IsFiniteSet(L) /\ R \in SUBSET (L \X L) BY <1>1, <1>4
  <2>3. \A x \in L : Cardinality(UpTo(L, R, x)) \in 1..Cardinality(L) BY <2>1, <2>2, Ranks
  <2>4. \A x, y \in L : Cardinality(UpTo(L, R, x)) = Cardinality(UpTo(L, R, y)) => x = y
    BY <2>1, <2>2, Ranks
  <2>5. \A n \in 1..Cardinality(L) : \E x \in L : Cardinality(UpTo(L, R, x)) = n
    BY <2>1, <2>2, Ranks, SMTT(90)
  <2> QED BY <2>3, <2>4, <2>5
<1>8. \A r \in L : Standing(r) \in 1..Cardinality(L) BY <1>6, <1>7
<1>9. \A r, q \in L : Standing(r) = Standing(q) => r = q BY <1>6, <1>7
<1>10. \A n \in 1..Cardinality(L) : \E r \in L : Standing(r) = n BY <1>6, <1>7
<1> QED BY <1>1, <1>8, <1>9, <1>10 DEF L

LEMMA RowsOfAKey ==
  ASSUME Typed, NEW items, Single(items), NEW at \in Nat, NEW order, Synced(items, at, order), NEW k
  PROVE  LET L == LiveOf(rows, k)
             M == LiveOf(rows', k)
         IN  Cardinality(L \cap M) = Min({Cardinality(L), Cardinality(M)})
<1> DEFINE L == LiveOf(rows, k)
           M == LiveOf(rows', k)
           I == ReadAs(items, k)
           m == Cardinality(I)
           l == Cardinality(L)
           A == {r \in L : Standing(r) <= m}
           St(n, j) == Stands(items, order, n, j)
<1>1. /\ \A n, j : St(n, j) => /\ n \in DOMAIN rows' /\ j \in DOMAIN items /\ ~rows'[n].gone
                               /\ Shown(n)' = items[j] /\ rows'[n].key = KeyOf(items[j])
      /\ \A n \in DOMAIN rows' : ~rows'[n].gone => \E j : St(n, j)
      /\ \A j \in DOMAIN items : \E n : St(n, j)
      /\ \A n, q, j : St(n, j) /\ St(q, j) => n = q
  BY SyncedRows
<1>2. /\ \A i, j \in DOMAIN items : items[i] = items[j] => i = j
  BY DEF Single
<1>3. IsFiniteSet(I) /\ m \in Nat BY Places, FS_CardinalityType
<1>4. IsFiniteSet(L) /\ l \in Nat BY LiveFirst, FS_CardinalityType
<1>5. Cardinality(M) = m
  <2> DEFINE f == [j \in I |-> CHOOSE n : St(n, j)]
  <2>1. \A j \in I : j \in DOMAIN items /\ KeyOf(items[j]) = k BY DEF ReadAs
  <2>2. \A j \in DOMAIN items : KeyOf(items[j]) = k => j \in I BY DEF ReadAs
  <2>3. \A n : n \in M <=> n \in DOMAIN rows' /\ rows'[n].key = k /\ ~rows'[n].gone BY DEF LiveOf
  <2> HIDE DEF I, M, St
  <2>4. \A j \in I : St(f[j], j) BY <1>1, <2>1
  <2>5. \A j \in I : f[j] \in M BY <1>1, <2>1, <2>3, <2>4
  <2>6. \A i, j \in I : f[i] = f[j] => i = j
    <3> HIDE DEF f
    <3> SUFFICES ASSUME NEW i \in I, NEW j \in I, f[i] = f[j] PROVE i = j OBVIOUS
    <3>1. items[i] = items[j] BY <1>1, <2>4
    <3> QED BY <1>2, <2>1, <3>1
  <2>7. \A n \in M : \E j \in I : f[j] = n
    <3> HIDE DEF f
    <3> SUFFICES ASSUME NEW n \in M PROVE \E j \in I : f[j] = n OBVIOUS
    <3>1. PICK j : St(n, j) BY <1>1, <2>3
    <3>2. j \in I BY <1>1, <2>2, <2>3, <3>1
    <3> QED BY <1>1, <2>4, <3>1, <3>2
  <2>8. f \in [I -> M] BY <2>5
  <2> HIDE DEF f, m
  <2>9. Cardinality(M) = Cardinality(I) BY <1>3, <2>6, <2>7, <2>8, SameSize
  <2> QED BY <2>9 DEF m
<1>6. \A r \in L : r \in FiledAs(k) /\ r \in DOMAIN rows /\ rows[r].key = k BY DEF LiveOf, FiledAs
<1>7. \A r \in L : (\E j : <<r, j>> \in Found(items)) <=> Standing(r) <= m BY <1>6, FoundByPlace
<1>8. L \cap M = A
  <2>1. ASSUME NEW r \in L, r \in M PROVE Standing(r) <= m
    <3>1. r \in DOMAIN rows' /\ ~rows'[r].gone /\ rows'[r].key = k BY <2>1 DEF LiveOf
    <3>2. PICK j : St(r, j) BY <1>1, <3>1
    <3>3. j \in DOMAIN items /\ KeyOf(items[j]) = k BY <1>1, <3>1, <3>2
    <3>4. <<r, j>> \in Matched(items)
      <4>1. r \in 1..Len(rows) /\ Len(rows) \in Nat BY <1>6 DEF Typed
      <4>2. \A i \in DOMAIN order : i \in Nat /\ i >= 1
        <5>1. order \in Injection(1..Cardinality(Fresh(items)), Fresh(items)) BY DEF Synced, Bijection
        <5>2. DOMAIN order = 1..Cardinality(Fresh(items)) BY <5>1 DEF Injection
        <5>3. Cardinality(Fresh(items)) \in Nat
          <6>1. Fresh(items) \in SUBSET (DOMAIN items) BY DEF Fresh, Unfiled
          <6> QED BY <6>1, FS_Subset, FS_CardinalityType DEF Single
        <5> QED BY <5>2, <5>3
      <4> QED BY <3>2, <4>1, <4>2 DEF Stands
    <3>5. CASE <<r, j>> \in Found(items) BY <1>7, <3>5
    <3>6. CASE <<r, j>> \in Reidentified(items)
      <4>1. r \in Leftover(items) /\ j \in Unfiled(items) BY <3>6 DEF Reidentified
      <4> QED BY <1>6, <3>3, <4>1, UnfiledIsUnlike
    <3> QED BY <3>4, <3>5, <3>6 DEF Matched
  <2>2. ASSUME NEW r \in L, Standing(r) <= m PROVE r \in M
    <3>1. PICK j : <<r, j>> \in Found(items) BY <1>7, <2>2
    <3>2. St(r, j) BY <3>1 DEF Stands, Matched
    <3>3. rows[r].key = KeyOf(items[j]) BY <3>1 DEF Found
    <3> QED BY <1>1, <1>6, <3>2, <3>3 DEF LiveOf
  <2> HIDE DEF L, M, m
  <2> QED BY <2>1, <2>2
<1> DEFINE c == IF l <= m THEN l ELSE m
<1>9. c \in Nat /\ Min({l, m}) = c
  <2> HIDE DEF l, m
  <2> QED BY <1>3, <1>4, Smaller
<1>10. Cardinality(A) = c
  <2>1. /\ \A r \in L : Standing(r) \in 1..l
        /\ \A r, q \in L : Standing(r) = Standing(q) => r = q
        /\ \A n \in 1..l : \E r \in L : Standing(r) = n
    BY LiveFirst
  <2> HIDE DEF L, l, m
  <2> DEFINE g == [r \in A |-> Standing(r)]
  <2>2. A \in SUBSET L /\ \A r \in A : Standing(r) <= m OBVIOUS
  <2>3. \A r \in L : Standing(r) <= m => r \in A OBVIOUS
  <2>4. IsFiniteSet(A) BY <1>4, <2>2, FS_Subset
  <2> HIDE DEF A
  <2>5. \A r \in A : g[r] \in 1..c BY <1>3, <1>4, <2>1, <2>2
  <2>6. \A r, q \in A : g[r] = g[q] => r = q BY <2>1, <2>2
  <2>7. \A n \in 1..c : \E r \in A : g[r] = n
    <3> SUFFICES ASSUME NEW n \in 1..c PROVE \E r \in A : g[r] = n OBVIOUS
    <3>1. n \in 1..l /\ n <= m BY <1>3, <1>4
    <3>2. PICK r \in L : Standing(r) = n BY <2>1, <3>1
    <3> QED BY <2>3, <3>1, <3>2
  <2>8. g \in [A -> 1..c] BY <2>5
  <2> HIDE DEF g, c
  <2>9. Cardinality(1..c) = Cardinality(A) BY <2>4, <2>6, <2>7, <2>8, SameSize
  <2>10. Cardinality(1..c) = c
    <3>1. c \in Int /\ 1 \in Int BY <1>9
    <3> QED BY <1>9, <3>1, FS_Interval
  <2> QED BY <2>9, <2>10
<1> HIDE DEF L, M, A, c, m, l
<1>11. Cardinality(L \cap M) = Min({l, m}) BY <1>8, <1>9, <1>10
<1> QED BY <1>5, <1>11 DEF l, L, M

(* A row is the identity of an operation: of the live rows of a key as many  *)
(* stay as the reading has records of it, and none is given up for a row     *)
(* that had gone, or for a new one.                                          *)
THEOREM RowsAreKept == Spec => KeepsRows
<1>1. Typed /\ [Next]_vars =>
        [connected' => \A k \in Keys :
           Cardinality(LiveOf(rows, k) \cap LiveOf(rows', k)) =
             Min({Cardinality(LiveOf(rows, k)), Cardinality(LiveOf(rows', k))})]_rows
  <2> SUFFICES ASSUME Typed, [Next]_vars, rows' # rows, connected', NEW k \in Keys
      PROVE  Cardinality(LiveOf(rows, k) \cap LiveOf(rows', k)) =
               Min({Cardinality(LiveOf(rows, k)), Cardinality(LiveOf(rows', k))})
    OBVIOUS
  <2>1. PICK r \in Runs : SyncMirror(r)
    BY DEF Next, Syncs, Read, RunLost, BrokerChanges, Explains, CheckRows, CreateExplanations, Unexplain,
           DeleteConnection, vars
  <2> DEFINE items == Deduped(reading[r].items)
  <2>2. Single(items) /\ reading[r].at \in Nat /\ \E order : Synced(items, reading[r].at, order)
    BY <2>1, SyncIsSynced
  <2> HIDE DEF items
  <2> QED BY <2>2, RowsOfAKey
<1> QED BY <1>1, InitTyped, StepTyped, PTL DEF Spec, KeepsRows

-----------------------------------------------------------------------------
(* What becomes of explanations. *)
Keyed == {K \in SUBSET Keys : IsFiniteSet(K)}
Explained ==
  /\ IsFiniteSet(DOMAIN explains)
  /\ asked \in [Requests -> [entry : Explaining \cup {"none"}, keys : Keyed]]

LEMMA MovesApart ==
  ASSUME NEW items
  PROVE  /\ \A m \in Moves(items) : m.from \in DOMAIN explains /\ m.to \notin DOMAIN explains
         /\ \A m, p \in Moves(items) : m.from = p.from \/ m.to = p.to => m = p
<1>1. \A m \in Moves(items) :
        /\ m.from \in DOMAIN explains /\ m.to \notin DOMAIN explains
        /\ \E a \in Reidentified(items) : m = [from |-> rows[a[1]].key, to |-> KeyOf(items[a[2]])]
  BY DEF Moves
<1>2. ASSUME NEW m \in Moves(items), NEW p \in Moves(items), m.from = p.from \/ m.to = p.to
      PROVE  m = p
  <2>1. PICK a \in Reidentified(items) : m = [from |-> rows[a[1]].key, to |-> KeyOf(items[a[2]])] BY <1>1
  <2>2. PICK b \in Reidentified(items) : p = [from |-> rows[b[1]].key, to |-> KeyOf(items[b[2]])] BY <1>1
  <2>3. /\ {r \in Leftover(items) : BodyOf(rows[r].key) = items[a[2]].body} = {a[1]}
        /\ {j \in Unfiled(items) : items[j].body = items[a[2]].body} = {a[2]}
        /\ {r \in Leftover(items) : BodyOf(rows[r].key) = items[b[2]].body} = {b[1]}
        /\ {j \in Unfiled(items) : items[j].body = items[b[2]].body} = {b[2]}
    BY DEF Reidentified
  <2>4. BodyOf(m.from) = items[a[2]].body /\ BodyOf(p.from) = items[b[2]].body
    <3>1. BodyOf(rows[a[1]].key) = items[a[2]].body /\ BodyOf(rows[b[1]].key) = items[b[2]].body
      BY <2>3
    <3> QED BY <2>1, <2>2, <3>1
  <2>5. BodyOf(m.to) = items[a[2]].body /\ BodyOf(p.to) = items[b[2]].body
    BY <2>1, <2>2 DEF BodyOf, KeyOf
  <2>6. items[a[2]].body = items[b[2]].body BY <1>2, <2>4, <2>5
  <2>7. a[1] = b[1] /\ a[2] = b[2] BY <2>3, <2>6
  <2> QED BY <2>1, <2>2, <2>7
<1> QED BY <1>1, <1>2

(* A sync moves explanations from key to key, one to one. *)
LEMMA ExplanationsMove ==
  ASSUME NEW items, IsFiniteSet(DOMAIN explains), explains' = Moved(items)
  PROVE  /\ IsFiniteSet(DOMAIN explains')
         /\ \A e : Cardinality({k \in DOMAIN explains : explains[k] = e})
                     = Cardinality({k \in DOMAIN explains' : explains'[k] = e})
<1> DEFINE D == DOMAIN explains
           E == DOMAIN explains'
           from == {m.from : m \in Moves(items)}
           to == {m.to : m \in Moves(items)}
           b == [k \in D |-> IF k \in from THEN (CHOOSE m \in Moves(items) : m.from = k).to ELSE k]
<1>1. /\ \A m \in Moves(items) : m.from \in D /\ m.to \notin D
      /\ \A m, p \in Moves(items) : m.from = p.from \/ m.to = p.to => m = p
  BY MovesApart
<1>2. /\ E = (D \ from) \cup to
      /\ \A k \in E : explains'[k] = IF k \in D THEN explains[k]
                                     ELSE explains[(CHOOSE m \in Moves(items) : m.to = k).from]
  BY DEF Moved
<1> HIDE DEF D, E
<1>3. \A m \in Moves(items) : m.to \in E /\ explains'[m.to] = explains[m.from]
  <2> SUFFICES ASSUME NEW m \in Moves(items) PROVE m.to \in E /\ explains'[m.to] = explains[m.from] OBVIOUS
  <2>1. m.to \in E /\ m.to \notin D BY <1>1, <1>2
  <2>2. (CHOOSE p \in Moves(items) : p.to = m.to) = m BY <1>1
  <2> QED BY <1>2, <2>1, <2>2
<1>4. \A m \in Moves(items) : b[m.from] = m.to
  <2> SUFFICES ASSUME NEW m \in Moves(items) PROVE b[m.from] = m.to OBVIOUS
  <2>1. (CHOOSE p \in Moves(items) : p.from = m.from) = m BY <1>1
  <2> QED BY <1>1, <2>1
<1>5. \A k \in D : k \notin from => b[k] = k /\ k \in E /\ explains'[k] = explains[k]
  BY <1>2
<1>6. \A k \in from : \E m \in Moves(items) : m.from = k OBVIOUS
<1>7. \A k \in to : \E m \in Moves(items) : m.to = k OBVIOUS
<1>8. DOMAIN b = D /\ b = [k \in D |-> b[k]] OBVIOUS
<1> HIDE DEF b, from, to
<1>9. \A k \in D : b[k] \in E /\ explains'[b[k]] = explains[k] BY <1>3, <1>4, <1>5, <1>6
<1>10. \A k, l \in D : b[k] = b[l] => k = l
  <2> SUFFICES ASSUME NEW k \in D, NEW l \in D, b[k] = b[l] PROVE k = l OBVIOUS
  <2>1. CASE k \in from /\ l \in from
    <3>1. PICK m \in Moves(items) : m.from = k BY <1>6, <2>1
    <3>2. PICK p \in Moves(items) : p.from = l BY <1>6, <2>1
    <3>3. m.to = p.to BY <1>4, <3>1, <3>2
    <3>4. m = p BY <1>1, <3>3
    <3> QED BY <3>1, <3>2, <3>4
  <2>2. CASE k \notin from /\ l \notin from BY <1>5, <2>2
  <2>3. CASE k \in from /\ l \notin from BY <1>1, <1>4, <1>5, <1>6, <2>3
  <2>4. CASE k \notin from /\ l \in from BY <1>1, <1>4, <1>5, <1>6, <2>4
  <2> QED BY <2>1, <2>2, <2>3, <2>4
<1>11. \A k \in E : \E j \in D : b[j] = k
  <2> SUFFICES ASSUME NEW k \in E PROVE \E j \in D : b[j] = k OBVIOUS
  <2>1. CASE k \in to
    <3>1. PICK m \in Moves(items) : m.to = k BY <1>7, <2>1
    <3> QED BY <1>1, <1>4, <3>1
  <2>2. CASE k \in D /\ k \notin from BY <1>5, <2>2
  <2> QED BY <1>2, <2>1, <2>2
<1>12. IsFiniteSet(D) BY DEF D
<1>13. IsFiniteSet(E)
  <2>1. b \in [D -> E] BY <1>8, <1>9
  <2> QED BY <1>10, <1>11, <1>12, <2>1, SameSize
<1>14. ASSUME NEW e
       PROVE  Cardinality({k \in D : explains[k] = e}) = Cardinality({k \in E : explains'[k] = e})
  <2> DEFINE S == {k \in D : explains[k] = e}
             T == {k \in E : explains'[k] = e}
             f == [k \in S |-> b[k]]
  <2>1. S \in SUBSET D /\ IsFiniteSet(S) BY <1>12, FS_Subset
  <2>2. f \in [S -> T] BY <1>9
  <2>3. \A x, y \in S : f[x] = f[y] => x = y BY <1>10
  <2>4. \A t \in T : \E x \in S : f[x] = t BY <1>9, <1>11
  <2> HIDE DEF S, T, f
  <2>5. Cardinality(T) = Cardinality(S) BY <2>1, <2>2, <2>3, <2>4, SameSize
  <2> QED BY <2>5 DEF S, T
<1> QED BY <1>13, <1>14 DEF D, E

LEMMA ExplainedStays == ASSUME Typed, Explained, [Next]_vars PROVE Explained'
<1>1. world' = world /\ Keys' = Keys BY WorldStays
<1>2. Explaining' = Explaining /\ Keyed' = Keyed BY <1>1 DEF Explaining, Keyed
<1> DEFINE Asks == [entry : Explaining \cup {"none"}, keys : Keyed]
<1>3. asked \in [Requests -> Asks] /\ IsFiniteSet(DOMAIN explains) BY DEF Explained
<1>4. NothingAsked \in Asks
  <2>1. {} \in Keyed BY FS_EmptySet DEF Keyed
  <2> QED BY <2>1 DEF NothingAsked
<1>5. CASE UNCHANGED <<explains, asked>> BY <1>1, <1>2, <1>5 DEF Explained
<1>6. ASSUME NEW r \in Runs, SyncMirror(r) PROVE Explained'
  <2>1. explains' = Moved(Deduped(reading[r].items)) /\ asked' = asked BY <1>6 DEF SyncMirror
  <2>2. IsFiniteSet(DOMAIN explains') BY <1>3, <2>1, ExplanationsMove
  <2> QED BY <1>2, <2>1, <2>2 DEF Explained
<1>7. ASSUME NEW q \in Requests, NEW entry \in Explaining, NEW keys \in (SUBSET Keys) \ {{}},
             CheckRows(q, entry, keys)
      PROVE  Explained'
  <2>1. /\ keys \subseteq {rows[r].key : r \in DOMAIN rows} /\ explains' = explains
        /\ asked' = [asked EXCEPT ![q] = [entry |-> entry, keys |-> keys]]
    BY <1>7 DEF CheckRows
  <2>2. IsFiniteSet({rows[r].key : r \in DOMAIN rows})
    <3> DEFINE f == [r \in DOMAIN rows |-> rows[r].key]
               T == {rows[r].key : r \in DOMAIN rows}
    <3>1. IsFiniteSet(DOMAIN rows)
      <4>1. DOMAIN rows = 1..Len(rows) /\ Len(rows) \in Nat BY DEF Typed
      <4> QED BY <4>1, FS_Interval
    <3>2. f \in Surjection(DOMAIN rows, T) BY DEF Surjection
    <3> HIDE DEF f, T
    <3>3. IsFiniteSet(T) BY <3>1, <3>2, FS_Surjection
    <3> QED BY <3>3 DEF T
  <2>3. IsFiniteSet(keys) BY <2>1, <2>2, FS_Subset
  <2>4. [entry |-> entry, keys |-> keys] \in Asks BY <2>3 DEF Keyed
  <2> HIDE DEF Asks
  <2>5. asked' \in [Requests -> Asks] BY <1>3, <2>1, <2>4
  <2> QED BY <1>2, <1>3, <2>1, <2>5 DEF Explained, Asks
<1>8. ASSUME NEW q \in Requests, CreateExplanations(q) PROVE Explained'
  <2>1. /\ asked' = [asked EXCEPT ![q] = NothingAsked]
        /\ \/ explains' = explains
           \/ explains' = [k \in asked[q].keys \cup DOMAIN explains |->
                             IF k \in asked[q].keys THEN asked[q].entry ELSE explains[k]]
    BY <1>8 DEF CreateExplanations
  <2>2. IsFiniteSet(asked[q].keys)
    <3>1. asked[q] \in Asks BY <1>3
    <3> QED BY <3>1 DEF Keyed
  <2>3. IsFiniteSet(asked[q].keys \cup DOMAIN explains) BY <1>3, <2>2, FS_Union
  <2>4. CASE explains' = [k \in asked[q].keys \cup DOMAIN explains |->
                            IF k \in asked[q].keys THEN asked[q].entry ELSE explains[k]]
    <3>1. DOMAIN explains' = asked[q].keys \cup DOMAIN explains BY <2>4
    <3>2. IsFiniteSet(DOMAIN explains') BY <2>3, <3>1
    <3> HIDE DEF Asks
    <3>3. asked' \in [Requests -> Asks] BY <1>3, <1>4, <2>1
    <3> QED BY <1>2, <3>2, <3>3 DEF Explained, Asks
  <2>5. CASE explains' = explains
    <3> HIDE DEF Asks
    <3>1. asked' \in [Requests -> Asks] BY <1>3, <1>4, <2>1
    <3> QED BY <1>2, <1>3, <2>5, <3>1 DEF Explained, Asks
  <2> QED BY <2>1, <2>4, <2>5
<1>9. ASSUME NEW entry \in Entries, Unexplain(entry) PROVE Explained'
  <2>1. DOMAIN explains' \in SUBSET DOMAIN explains /\ asked' = asked BY <1>9 DEF Unexplain
  <2>2. IsFiniteSet(DOMAIN explains') BY <1>3, <2>1, FS_Subset
  <2> QED BY <1>2, <2>1, <2>2 DEF Explained
<1>10. CASE DeleteConnection
  <2>1. explains' = <<>> /\ asked' = asked BY <1>10 DEF DeleteConnection
  <2>2. DOMAIN explains' = {} BY <2>1
  <2>3. IsFiniteSet(DOMAIN explains') BY <2>2, FS_EmptySet
  <2> QED BY <1>2, <2>1, <2>3 DEF Explained
<1>11. CASE BrokerChanges \/ UNCHANGED vars BY <1>5, <1>11 DEF BrokerChanges, vars
<1>12. ASSUME NEW r \in Runs, Read(r) \/ RunLost(r) PROVE Explained' BY <1>5, <1>12 DEF Read, RunLost
<1> QED BY <1>6, <1>7, <1>8, <1>9, <1>10, <1>11, <1>12 DEF Next, Syncs, Explains

(* A row that is filed under a new key is explained there. *)
LEMMA RowFollowed ==
  ASSUME Typed, NEW items, Single(items), NEW at \in Nat, NEW order, Synced(items, at, order),
         explains' = Moved(items), NEW n \in DOMAIN rows,
         rows'[n].key # rows[n].key, rows[n].key \in DOMAIN explains
  PROVE  rows'[n].key \in DOMAIN explains'
<1>1. rows'[n] = Kept(n, items) BY SyncedRows
<1>2. PICK p \in Reidentified(items) : p[1] = n /\ rows'[n].key = KeyOf(items[p[2]])
  BY <1>1, MatchedRows
<1> DEFINE k == KeyOf(items[p[2]])
           from == {m.from : m \in Moves(items)}
           to == {m.to : m \in Moves(items)}
           move == [from |-> rows[p[1]].key, to |-> k]
<1>3. p[1] \in Leftover(items) /\ p[2] \in Unfiled(items) BY DEF Reidentified
<1>4. DOMAIN explains' = (DOMAIN explains \ from) \cup to BY DEF Moved
<1>5. CASE k \in DOMAIN explains
  <2>1. k \notin from
    <3> SUFFICES ASSUME NEW m \in Moves(items), m.from = k PROVE FALSE OBVIOUS
    <3>1. PICK a \in Reidentified(items) : m = [from |-> rows[a[1]].key, to |-> KeyOf(items[a[2]])]
      BY DEF Moves
    <3>2. a[1] \in Leftover(items) /\ rows[a[1]].key = k BY <3>1 DEF Reidentified
    <3> QED BY <1>3, <3>2, UnfiledIsUnlike
  <2> QED BY <1>2, <1>4, <1>5, <2>1
<1>6. CASE k \notin DOMAIN explains
  <2>1. move \in {[from |-> rows[a[1]].key, to |-> KeyOf(items[a[2]])] : a \in Reidentified(items)}
    OBVIOUS
  <2>2. move.from = rows[n].key /\ move.to = k BY <1>2
  <2>3. move \in Moves(items) BY <1>6, <2>1, <2>2 DEF Moves
  <2>4. k \in to BY <2>2, <2>3
  <2> QED BY <1>2, <1>4, <2>4
<1> QED BY <1>5, <1>6

(* A row the broker rewrote is still explained under its new key, and a sync *)
(* neither adds to nor takes from what an operation stands for.              *)
THEOREM ExplanationsFollow == Spec => ExplanationFollows
<1>1. Init => Explained
  <2> SUFFICES ASSUME Init PROVE Explained OBVIOUS
  <2>1. explains = <<>> /\ asked = [q \in Requests |-> NothingAsked] BY DEF Init
  <2>2. DOMAIN explains = {} BY <2>1
  <2>3. IsFiniteSet(DOMAIN explains) BY <2>2, FS_EmptySet
  <2>4. {} \in Keyed BY FS_EmptySet DEF Keyed
  <2> QED BY <2>1, <2>3, <2>4 DEF Explained, NothingAsked
<1>2. Typed /\ Explained /\ [Next]_vars =>
        [connected' =>
           /\ \A n \in DOMAIN rows : rows'[n].key # rows[n].key /\ rows[n].key \in DOMAIN explains
                                     => rows'[n].key \in DOMAIN explains'
           /\ \A e \in Entries : Cardinality({k \in DOMAIN explains : explains[k] = e})
                                   = Cardinality({k \in DOMAIN explains' : explains'[k] = e})]_rows
  <2> SUFFICES ASSUME Typed, Explained, [Next]_vars, rows' # rows, connected'
      PROVE  /\ \A n \in DOMAIN rows : rows'[n].key # rows[n].key /\ rows[n].key \in DOMAIN explains
                                       => rows'[n].key \in DOMAIN explains'
             /\ \A e \in Entries : Cardinality({k \in DOMAIN explains : explains[k] = e})
                                     = Cardinality({k \in DOMAIN explains' : explains'[k] = e})
    OBVIOUS
  <2>1. PICK r \in Runs : SyncMirror(r)
    BY DEF Next, Syncs, Read, RunLost, BrokerChanges, Explains, CheckRows, CreateExplanations, Unexplain,
           DeleteConnection, vars
  <2> DEFINE items == Deduped(reading[r].items)
  <2>2. Single(items) /\ reading[r].at \in Nat /\ \E order : Synced(items, reading[r].at, order)
    BY <2>1, SyncIsSynced
  <2>3. explains' = Moved(items) BY <2>1 DEF SyncMirror
  <2> HIDE DEF items
  <2>4. IsFiniteSet(DOMAIN explains) BY DEF Explained
  <2>5. \A e \in Entries : Cardinality({k \in DOMAIN explains : explains[k] = e})
                             = Cardinality({k \in DOMAIN explains' : explains'[k] = e})
    BY <2>3, <2>4, ExplanationsMove
  <2>6. \A n \in DOMAIN rows : rows'[n].key # rows[n].key /\ rows[n].key \in DOMAIN explains
                               => rows'[n].key \in DOMAIN explains'
    BY <2>2, <2>3, RowFollowed
  <2> QED BY <2>5, <2>6
<1> QED BY <1>1, <1>2, InitTyped, StepTyped, ExplainedStays, PTL DEF Spec, ExplanationFollows
=============================================================================
