----------------------------- MODULE FoldProofs -----------------------------
(***************************************************************************)
(* Theorems of the portfolio engine: whatever an account's operations are, *)
(* a position is what its lots add up to, no unit of cost is lost, and a   *)
(* departure replays from its record as it was released.                   *)
(***************************************************************************)
EXTENDS Fold, LedgerProofs

-----------------------------------------------------------------------------
(* First in, first out. *)

\* The units of each lot of one number, and none of the others'.
OfOne(lots, lot) == [i \in DOMAIN lots |-> IF lots[i].lot = lot THEN lots[i].qty ELSE 0]

LEMMA OfOneIs ==
  ASSUME NEW lots \in Seq(Piece), NEW lot
  PROVE  /\ OfOne(lots, lot) \in Seq(Int) /\ Len(OfOne(lots, lot)) = Len(lots)
         /\ \A i \in 1..Len(lots) :
              OfOne(lots, lot)[i] = IF lots[i].lot = lot THEN lots[i].qty ELSE 0
         /\ UnitsOf(lots, lot) = Total(OfOne(lots, lot))
<1> DEFINE x(i) == IF lots[i].lot = lot THEN lots[i].qty ELSE 0
<1>1. /\ Len(lots) \in Nat /\ DOMAIN lots = 1..Len(lots)
      /\ \A i \in 1..Len(lots) : lots[i].qty \in Nat
  BY PiecesAdd, PieceIs
<1>2. UnitsOf(lots, lot) = Total(OfOne(lots, lot))
  BY Zenon DEF UnitsOf, OfOne
<1>3. \A i \in 1..Len(lots) : x(i) \in Int
  BY <1>1
<1>4. OfOne(lots, lot) = [i \in 1..Len(lots) |-> x(i)]
  BY <1>1, Zenon DEF OfOne
<1> HIDE DEF x
<1>5. /\ OfOne(lots, lot) \in Seq(Int) /\ Len(OfOne(lots, lot)) = Len(lots)
      /\ \A i \in 1..Len(lots) : OfOne(lots, lot)[i] = x(i)
  BY <1>1, <1>3, <1>4
<1> QED BY <1>2, <1>5 DEF x

\* Lots without units add none.
LEMMA OfOneJoin ==
  ASSUME NEW a \in Seq(Piece), NEW b \in Seq(Piece), NEW lot,
         \A i \in 1..Len(b) : b[i].qty = 0
  PROVE  UnitsOf(a \o b, lot) = UnitsOf(a, lot)
<1> DEFINE s == OfOne(a, lot)
           t == OfOne(b, lot)
           c == a \o b
           u == OfOne(c, lot)
           m == Len(a)
           w == s \o t
<1>1. /\ c \in Seq(Piece) /\ Len(c) = m + Len(b)
      /\ \A i \in 1..m : c[i] = a[i]
      /\ \A i \in 1..Len(c) : i > m => c[i] = b[i - m]
  BY JoinIs
<1> HIDE DEF c
<1>2. /\ s \in Seq(Int) /\ Len(s) = m /\ UnitsOf(a, lot) = Total(s)
      /\ \A i \in 1..m : s[i] = IF a[i].lot = lot THEN a[i].qty ELSE 0
  BY OfOneIs
<1>3. /\ t \in Seq(Int) /\ Len(t) = Len(b)
      /\ \A i \in 1..Len(b) : t[i] = IF b[i].lot = lot THEN b[i].qty ELSE 0
  BY OfOneIs
<1>4. /\ u \in Seq(Int) /\ Len(u) = Len(c) /\ UnitsOf(c, lot) = Total(u)
      /\ \A i \in 1..Len(c) : u[i] = IF c[i].lot = lot THEN c[i].qty ELSE 0
  BY <1>1, OfOneIs
<1>5. \A i \in 1..Len(b) : t[i] = 0
  BY <1>3
<1> HIDE DEF s, t, u
<1>6. /\ w \in Seq(Int) /\ Len(w) = Len(s) + Len(t)
      /\ \A i \in 1..Len(s) : w[i] = s[i]
      /\ \A i \in 1..Len(w) : i > Len(s) => w[i] = t[i - Len(s)]
  <2>1. s \in Seq(Int) /\ t \in Seq(Int)
    BY <1>2, <1>3
  <2> QED BY <2>1, JoinIs
<1>7. Total(w) = Total(s) + Total(t)
  BY <1>2, <1>3, BothAdd
<1>8. m \in Nat /\ Len(b) \in Nat
  OBVIOUS
<1> HIDE DEF m, w
<1>9. \A i \in 1..Len(c) : u[i] = w[i]
  <2> SUFFICES ASSUME NEW i \in 1..Len(c) PROVE u[i] = w[i]
    OBVIOUS
  <2>1. i \in Nat /\ 1 <= i /\ i <= m + Len(b) /\ i \in 1..Len(w)
    BY <1>1, <1>2, <1>3, <1>6, <1>8
  <2>2. CASE i <= m
    <3>1. i \in 1..m
      BY <1>8, <2>1, <2>2
    <3>2. c[i] = a[i] /\ w[i] = s[i]
      BY <1>1, <1>2, <1>6, <3>1
    <3> QED BY <1>2, <1>4, <3>1, <3>2
  <2>3. CASE i > m
    <3>1. i - m \in 1..Len(b)
      BY <1>8, <2>1, <2>3
    <3>2. c[i] = b[i - m] /\ w[i] = t[i - m]
      BY <1>1, <1>2, <1>6, <2>1, <2>3
    <3>3. b[i - m].qty = 0 /\ t[i - m] = 0
      BY <1>5, <3>1
    <3> QED BY <1>4, <3>2, <3>3
  <2> QED BY <1>8, <2>1, <2>2, <2>3
<1>10. u = w
  <2>1. Len(u) = Len(w) /\ \A i \in 1..Len(u) : u[i] = w[i]
    BY <1>1, <1>2, <1>3, <1>4, <1>6, <1>9
  <2> QED BY <1>4, <1>6, <2>1, SameElements
<1>11. Total(t) = 0
  <2>1. Len(t) \in 0..Len(t) /\ Total(t) = Prefix(t)[Len(t)] /\ \A i \in 1..Len(t) : t[i] = 0
    BY <1>3, <1>5, <1>8, TotalIs
  <2> QED BY <1>3, <2>1, ZerosAdd
<1>12. Total(s) \in Int
  BY <1>2, TotalIs
<1> QED BY <1>2, <1>4, <1>7, <1>10, <1>11, <1>12 DEF c

\* The lot whose units the k-th is among.
LEMMA OwnerIs ==
  ASSUME NEW lots \in Seq(Piece), NEW i \in 1..Len(lots), NEW k \in Nat,
         Prefix(Units(lots))[i - 1] < k, k <= Prefix(Units(lots))[i]
  PROVE  OwnerOf(lots, k) = lots[i].lot
<1> DEFINE before == Prefix(Units(lots))
           Holds(j) == before[j - 1] < k /\ k <= before[j]
<1>1. /\ Len(lots) \in Nat /\ DOMAIN lots = 1..Len(lots)
      /\ Units(lots) \in Seq(Nat) /\ Len(Units(lots)) = Len(lots)
  BY PiecesAdd
<1>2. /\ \A j \in 0..Len(lots) : before[j] \in Nat
      /\ \A j, m \in 0..Len(lots) : j <= m => before[j] <= before[m]
  BY <1>1, SumsGrow
<1>3. Holds(i)
  OBVIOUS
<1>4. ASSUME NEW j \in 1..Len(lots), Holds(j) PROVE j = i
  <2>1. /\ i \in 0..Len(lots) /\ j \in 0..Len(lots) /\ i - 1 \in 0..Len(lots) /\ j - 1 \in 0..Len(lots)
        /\ i < j => i <= j - 1
        /\ j < i => j <= i - 1
    BY <1>1
  <2>2. ASSUME i < j PROVE FALSE
    <3>1. before[i] <= before[j - 1]
      BY <1>2, <2>1, <2>2
    <3>2. before[i] \in Nat /\ before[j - 1] \in Nat /\ k <= before[i] /\ before[j - 1] < k
      BY <1>2, <1>3, <1>4, <2>1
    <3> HIDE DEF before
    <3> QED BY <3>1, <3>2
  <2>3. ASSUME j < i PROVE FALSE
    <3>1. before[j] <= before[i - 1]
      BY <1>2, <2>1, <2>3
    <3>2. before[j] \in Nat /\ before[i - 1] \in Nat /\ k <= before[j] /\ before[i - 1] < k
      BY <1>2, <1>3, <1>4, <2>1
    <3> HIDE DEF before
    <3> QED BY <3>1, <3>2
  <2> QED BY <2>1, <2>2, <2>3
<1> HIDE DEF Holds
<1>5. (CHOOSE j \in 1..Len(lots) : Holds(j)) = i
  BY <1>3, <1>4
<1>6. OwnerOf(lots, k) = lots[CHOOSE j \in 1..Len(lots) : Holds(j)].lot
  BY <1>1, Zenon DEF OwnerOf, Holds
<1> QED BY <1>5, <1>6

\* Of the q units that reach the lots, a lot's number takes those it owns.
LEMMA TakesOldest ==
  ASSUME NEW lots \in Seq(Piece), NEW q \in Nat \ {0}, q <= LotsUnits(lots), NEW lot
  PROVE  UnitsOf(Reached(lots, q, Prefix(Units(lots))), lot)
           = Cardinality({k \in 1..q : OwnerOf(lots, k) = lot})
<1> DEFINE before == Prefix(Units(lots))
           pieces == Reached(lots, q, before)
           m == Len(pieces)
           P == Prefix(Units(pieces))
           s == OfOne(pieces, lot)
           H(i) == {k \in 1..P[i] : OwnerOf(lots, k) = lot}
           G == {i \in 0..m : IsFiniteSet(H(i)) /\ Prefix(s)[i] = Cardinality(H(i))}
<1>1. /\ pieces \in Seq(Piece) /\ m <= Len(lots) /\ LotsUnits(pieces) = q
      /\ \A i \in 1..m : /\ pieces[i].qty <= lots[i].qty /\ pieces[i].lot = lots[i].lot
                         /\ i < m => pieces[i].qty = lots[i].qty
  BY ReachedIs
<1> HIDE DEF pieces
<1>2. /\ Len(lots) \in Nat /\ m \in Nat /\ Units(lots) \in Seq(Nat) /\ Units(pieces) \in Seq(Nat)
      /\ Len(Units(lots)) = Len(lots) /\ Len(Units(pieces)) = m
      /\ \A i \in 1..Len(lots) : Units(lots)[i] = lots[i].qty /\ lots[i].qty \in Nat
      /\ \A i \in 1..m : Units(pieces)[i] = pieces[i].qty /\ pieces[i].qty \in Nat
      /\ P[m] = q
  <2>1. /\ Len(lots) \in Nat /\ Units(lots) \in Seq(Nat) /\ Len(Units(lots)) = Len(lots)
        /\ \A i \in 1..Len(lots) : Units(lots)[i] = lots[i].qty /\ lots[i] \in Piece
    BY PiecesAdd
  <2>2. /\ m \in Nat /\ Units(pieces) \in Seq(Nat) /\ Len(Units(pieces)) = m
        /\ \A i \in 1..m : Units(pieces)[i] = pieces[i].qty /\ pieces[i] \in Piece
        /\ P[m] = q
    BY <1>1, PiecesAdd
  <2> QED BY <2>1, <2>2, PieceIs
<1>3. /\ Units(lots) \in Seq(Int) /\ Units(pieces) \in Seq(Int)
      /\ \A i \in 0..Len(lots) : before[i] \in Nat
      /\ \A i \in 0..m : P[i] \in Nat
  BY <1>2, SumsGrow
<1>4. /\ before[0] = 0 /\ \A i \in 1..Len(lots) : before[i] = before[i - 1] + lots[i].qty
      /\ P[0] = 0 /\ \A i \in 1..m : P[i] = P[i - 1] + pieces[i].qty
  BY <1>2, <1>3, PrefixIs
<1>5. /\ s \in Seq(Int) /\ Len(s) = m /\ UnitsOf(pieces, lot) = Total(s)
      /\ \A i \in 1..m : s[i] = IF pieces[i].lot = lot THEN pieces[i].qty ELSE 0
  BY <1>1, OfOneIs
<1>6. Prefix(s)[0] = 0 /\ \A i \in 1..m : Prefix(s)[i] = Prefix(s)[i - 1] + s[i]
  BY <1>5, PrefixIs
<1> HIDE DEF before, m, P, s
<1>7. \A i \in 0..m : i < m => P[i] = before[i]
  <2> DEFINE A == {i \in 0..m : i < m => P[i] = before[i]}
  <2>1. 0 \in A
    BY <1>2, <1>4
  <2>2. ASSUME NEW i \in 1..m, i - 1 \in A PROVE i \in A
    <3>1. i \in 1..Len(lots) /\ i \in 0..m /\ i - 1 < m
      BY <1>1, <1>2
    <3>2. P[i - 1] = before[i - 1]
      BY <2>2, <3>1
    <3>3. i < m => pieces[i].qty = lots[i].qty
      BY <1>1
    <3> QED BY <1>4, <3>1, <3>2, <3>3
  <2> HIDE DEF A
  <2>3. \A i \in 0..m : i \in A
    BY <1>2, <2>1, <2>2, Climbing
  <2> QED BY <2>3 DEF A
<1>8. 0 \in G
  <2>1. H(0) = {}
    BY <1>4
  <2>2. IsFiniteSet(H(0)) /\ Cardinality(H(0)) = 0
    BY <2>1, FS_EmptySet
  <2> HIDE DEF H
  <2> QED BY <1>2, <1>6, <2>2
<1>9. ASSUME NEW i \in 1..m, i - 1 \in G PROVE i \in G
  <2> DEFINE x == P[i - 1]
             y == P[i]
             e == pieces[i].qty
             N == {k \in (x + 1)..y : OwnerOf(lots, k) = lot}
  <2>1. i \in 1..Len(lots) /\ i \in 0..m /\ i - 1 \in 0..m /\ i - 1 < m
    BY <1>1, <1>2
  <2>2. x \in Nat /\ y = x + e /\ e \in Nat
    BY <1>2, <1>3, <1>4, <2>1
  <2>3. x = before[i - 1] /\ y <= before[i]
    <3>1. x = before[i - 1]
      BY <1>7, <2>1
    <3>2. before[i] = before[i - 1] + lots[i].qty /\ e <= lots[i].qty /\ lots[i].qty \in Nat
      BY <1>1, <1>2, <1>4, <2>1
    <3> HIDE DEF x, y, e
    <3> QED BY <2>2, <3>1, <3>2
  <2>4. \A k \in (x + 1)..y : OwnerOf(lots, k) = pieces[i].lot
    <3> SUFFICES ASSUME NEW k \in (x + 1)..y PROVE OwnerOf(lots, k) = pieces[i].lot
      BY Zenon
    <3>1. before[i] \in Nat /\ i \in 0..Len(lots)
      BY <1>2, <1>3, <2>1
    <3>2. k \in Nat /\ before[i - 1] < k /\ k <= before[i]
      <4> HIDE DEF x, y, e
      <4> QED BY <2>2, <2>3, <3>1, SMTT(30)
    <3>3. OwnerOf(lots, k) = lots[i].lot
      BY <2>1, <3>2, OwnerIs DEF before
    <3> QED BY <1>1, <3>3 DEF m
  <2> HIDE DEF x, y, e
  <2>5. IsFiniteSet((x + 1)..y) /\ Cardinality((x + 1)..y) = e
    <3>1. x + 1 \in Int /\ y \in Int
      BY <2>2
    <3>2. IsFiniteSet((x + 1)..y) /\ Cardinality((x + 1)..y) = IF x + 1 > y THEN 0 ELSE y - (x + 1) + 1
      BY <3>1, FS_Interval
    <3> QED BY <2>2, <3>2
  <2>6. IsFiniteSet(N) /\ Cardinality(N) = s[i]
    <3>1. CASE pieces[i].lot = lot
      <4>1. N = (x + 1)..y
        BY <2>4, <3>1
      <4>2. s[i] = e
        BY <1>5, <3>1 DEF e
      <4> QED BY <2>5, <4>1, <4>2
    <3>2. CASE pieces[i].lot # lot
      <4>1. N = {}
        BY <2>4, <3>2
      <4>2. s[i] = 0
        BY <1>5, <3>2
      <4> QED BY <4>1, <4>2, FS_EmptySet
    <3> QED BY <3>1, <3>2
  <2>7. H(i) = H(i - 1) \cup N /\ H(i - 1) \cap N = {}
    <3>1. /\ 1..y = (1..x) \cup ((x + 1)..y)
          /\ (1..x) \cap ((x + 1)..y) = {}
      BY <2>2
    <3> QED BY <3>1 DEF x, y
  <2>8. IsFiniteSet(H(i - 1)) /\ Prefix(s)[i - 1] = Cardinality(H(i - 1))
    BY <1>9
  <2> HIDE DEF H, N
  <2>9. /\ IsFiniteSet(H(i - 1) \cup N)
        /\ Cardinality(H(i - 1) \cup N)
             = Cardinality(H(i - 1)) + Cardinality(N) - Cardinality(H(i - 1) \cap N)
    BY <2>6, <2>8, FS_Union
  <2>10. Cardinality(H(i - 1)) \in Nat /\ Cardinality(N) \in Nat /\ Cardinality(H(i - 1) \cap N) = 0
    BY <2>6, <2>7, <2>8, FS_CardinalityType, FS_EmptySet
  <2>11. IsFiniteSet(H(i)) /\ Cardinality(H(i)) = Cardinality(H(i - 1)) + Cardinality(N)
    BY <2>7, <2>9, <2>10
  <2>12. Prefix(s)[i] = Prefix(s)[i - 1] + s[i]
    BY <1>6
  <2> QED BY <2>1, <2>6, <2>8, <2>11, <2>12
<1>10. m \in G
  <2> HIDE DEF G
  <2>1. \A i \in 0..m : i \in G
    BY <1>2, <1>8, <1>9, Climbing
  <2> QED BY <1>2, <2>1
<1>11. Total(s) = Prefix(s)[m]
  BY <1>5, TotalIs
<1>12. H(m) = {k \in 1..q : OwnerOf(lots, k) = lot}
  BY <1>2
<1> QED BY <1>5, <1>10, <1>11, <1>12 DEF pieces, before

\* The pieces swept with the last unit have none.
LEMMA SweptAreBare ==
  ASSUME NEW lots \in Seq(Piece)
  PROVE  Sweep(lots) \in Seq(Piece) /\ \A i \in 1..Len(Sweep(lots)) : Sweep(lots)[i].qty = 0
<1> DEFINE bare == WithoutUnits(lots)
           keep == {i \in DOMAIN lots : lots[i].cost # 0}
<1>1. /\ bare \in Seq(Piece) /\ Len(bare) = Len(lots)
      /\ \A i \in 1..Len(lots) : bare[i].qty = 0
  BY WithoutUnitsIs
<1>2. Sweep(lots) = Only(bare, keep)
  BY Zenon DEF Sweep
<1> HIDE DEF bare, keep
<1>3. /\ Only(bare, keep) \in Seq(Piece)
      /\ \A j \in 1..Len(Only(bare, keep)) : \E i \in 1..Len(bare) : Only(bare, keep)[j] = bare[i]
  BY <1>1, OnlyIs
<1> QED BY <1>1, <1>2, <1>3

\* A release takes of every lot the units of it among the oldest.
LEMMA ReleaseTakesOldest ==
  ASSUME NEW d \in Nat, NEW p, IsPosition(p, d), NEW q \in Nat \ {0}, q <= p.qty, NEW lot
  PROVE  UnitsOf(ReleaseFIFO(p, q).pieces, lot)
           = Cardinality({k \in 1..q : OwnerOf(p.lots, k) = lot})
<1> DEFINE lots == p.lots
           reached == Reached(lots, q, Prefix(Units(lots)))
           left == LeftBy(lots, reached)
           r == ReleaseFIFO(p, q)
<1>1. r.pieces = IF q = p.qty THEN reached \o Sweep(left) ELSE reached
  BY Zenon DEF ReleaseFIFO, Withdrawn
<1>2. lots \in Seq(Piece) /\ InOrder(lots) /\ LotsUnits(lots) = p.qty
  BY SoundIs
<1>3. /\ reached \in Seq(Piece) /\ Len(reached) <= Len(lots)
      /\ \A i \in 1..Len(reached) :
           /\ reached[i].qty <= lots[i].qty /\ reached[i].cost <= lots[i].cost
           /\ reached[i].qty = lots[i].qty => reached[i].cost = lots[i].cost
           /\ i < Len(reached) => reached[i].qty = lots[i].qty
  BY <1>2, ReachedIs
<1>4. UnitsOf(reached, lot) = Cardinality({k \in 1..q : OwnerOf(lots, k) = lot})
  BY <1>2, TakesOldest
<1> HIDE DEF lots, reached
<1>5. left \in Seq(Piece)
  BY <1>2, <1>3, LeftIs
<1> HIDE DEF left, r
<1>6. Sweep(left) \in Seq(Piece) /\ \A i \in 1..Len(Sweep(left)) : Sweep(left)[i].qty = 0
  BY <1>5, SweptAreBare
<1>7. UnitsOf(reached \o Sweep(left), lot) = UnitsOf(reached, lot)
  BY <1>3, <1>6, OfOneJoin
<1> QED BY <1>1, <1>4, <1>7 DEF lots, r

-----------------------------------------------------------------------------
(* Lots that are spent. *)

LEMMA UnspentIs ==
  ASSUME NEW lots \in Seq(Piece)
  PROVE  LET s == Unspent(lots)
         IN /\ s \in Seq(Piece)
            /\ LotsUnits(s) = LotsUnits(lots) /\ LotsCost(s) = LotsCost(lots)
            /\ \A a \in 1..Len(s) :
                 ~Spent(s[a]) /\ \E i \in 1..Len(lots) : s[a] = lots[i]
            /\ \A i \in 1..Len(lots) :
                 ~Spent(lots[i]) => \E a \in 1..Len(s) : s[a] = lots[i]
            /\ \A M : NumberedBy(lots, M) => NumberedBy(s, M)
<1> DEFINE keep == {i \in DOMAIN lots : ~Spent(lots[i])}
           s == Only(lots, keep)
<1>1. Unspent(lots) = s
  BY Zenon DEF Unspent
<1>2. \A i \in 1..Len(lots) : i \in keep <=> ~Spent(lots[i])
  BY PiecesAdd
<1> HIDE DEF keep
<1>3. \A i \in 1..Len(lots) \ keep : lots[i].qty = 0 /\ lots[i].cost = 0
  BY <1>2 DEF Spent
<1>4. /\ s \in Seq(Piece)
      /\ LotsUnits(s) = LotsUnits(lots) /\ LotsCost(s) = LotsCost(lots)
  BY <1>3, OnlyIs
<1>5. /\ \A a \in 1..Len(s) : \E i \in 1..Len(lots) : i \in keep /\ s[a] = lots[i]
      /\ \A i \in 1..Len(lots) : i \in keep => \E a \in 1..Len(s) : s[a] = lots[i]
      /\ \A M : NumberedBy(lots, M) => NumberedBy(s, M)
  BY OnlyKeeps
<1> HIDE DEF s
<1>6. \A a \in 1..Len(s) : ~Spent(s[a]) /\ \E i \in 1..Len(lots) : s[a] = lots[i]
  BY <1>2, <1>5
<1>7. \A i \in 1..Len(lots) : ~Spent(lots[i]) => \E a \in 1..Len(s) : s[a] = lots[i]
  BY <1>2, <1>5
<1> QED BY <1>1, <1>4, <1>5, <1>6, <1>7

LEMMA AllSpent ==
  ASSUME NEW lots \in Seq(Piece), \A i \in 1..Len(lots) : Spent(lots[i])
  PROVE  Unspent(lots) = <<>>
<1> DEFINE s == Unspent(lots)
<1>1. s \in Seq(Piece) /\ \A a \in 1..Len(s) : ~Spent(s[a]) /\ \E i \in 1..Len(lots) : s[a] = lots[i]
  BY UnspentIs
<1> HIDE DEF s
<1>2. Len(s) = 0
  <2> SUFFICES ASSUME Len(s) # 0 PROVE FALSE
    OBVIOUS
  <2>1. 1 \in 1..Len(s)
    BY <1>1
  <2> QED BY <1>1, <2>1
<1> QED BY <1>1, <1>2 DEF s

LEMMA NoneSpent ==
  ASSUME NEW lots \in Seq(Piece), \A i \in 1..Len(lots) : ~Spent(lots[i])
  PROVE  Unspent(lots) = lots
<1> DEFINE m == Len(lots)
           keep == {i \in DOMAIN lots : ~Spent(lots[i])}
<1>1. m \in Nat /\ \A i \in 1..m : lots[i] \in Piece /\ i \in keep
  BY PiecesAdd
<1>2. Unspent(lots) = Only(lots, keep)
  BY Zenon DEF Unspent
<1> HIDE DEF keep
<1>3. PICK f : /\ DOMAIN f = 0..m /\ f[0] = <<>> /\ Only(lots, keep) = f[m]
               /\ \A i \in 1..m : f[i] = IF i \in keep THEN Append(f[i - 1], lots[i]) ELSE f[i - 1]
  BY OnlyWalks
<1> DEFINE G == {i \in 0..m : /\ f[i] \in Seq(Piece) /\ Len(f[i]) = i
                              /\ \A j \in 1..i : f[i][j] = lots[j]}
<1>4. 0 \in G
  <2>1. f[0] \in Seq(Piece) /\ Len(f[0]) = 0
    BY <1>3
  <2> QED BY <1>1, <2>1
<1>5. ASSUME NEW i \in 1..m, i - 1 \in G PROVE i \in G
  <2> DEFINE s == f[i - 1]
             t == f[i]
             x == lots[i]
  <2>1. s \in Seq(Piece) /\ Len(s) = i - 1 /\ \A j \in 1..(i - 1) : s[j] = lots[j]
    BY <1>5
  <2>2. t = Append(s, x) /\ x \in Piece /\ i \in Nat /\ i \in 0..m
    <3>1. i \in keep /\ x \in Piece /\ i \in Nat /\ i \in 0..m
      BY <1>1
    <3>2. t = Append(s, x)
      BY <1>3, <3>1
    <3> QED BY <3>1, <3>2
  <2> HIDE DEF s, t
  <2>3. t \in Seq(Piece) /\ Len(t) = i /\ t[i] = lots[i] /\ \A j \in 1..(i - 1) : t[j] = s[j]
    <3> HIDE DEF x
    <3>1. t \in Seq(Piece) /\ Len(t) = i /\ t[i] = x /\ \A j \in 1..(i - 1) : t[j] = s[j]
      BY <2>1, <2>2
    <3> QED BY <3>1 DEF x
  <2>4. \A j \in 1..i : j = i \/ j \in 1..(i - 1)
    BY <2>2
  <2>5. \A j \in 1..i : t[j] = lots[j]
    BY <2>1, <2>3, <2>4
  <2> QED BY <2>2, <2>3, <2>5 DEF t
<1>6. m \in G
  <2> HIDE DEF G
  <2>1. \A i \in 0..m : i \in G
    BY <1>1, <1>4, <1>5, Climbing
  <2> QED BY <1>1, <2>1
<1> DEFINE t == f[m]
<1>7. t \in Seq(Piece) /\ Len(t) = Len(lots) /\ \A j \in 1..Len(lots) : t[j] = lots[j]
  BY <1>6
<1>8. t = Unspent(lots)
  BY <1>2, <1>3
<1> HIDE DEF t
<1>9. lots = t
  BY <1>7, SameElements
<1> QED BY <1>8, <1>9

\* Nothing is left to drop.
LEMMA UnspentOnce ==
  ASSUME NEW lots \in Seq(Piece)
  PROVE  Unspent(Unspent(lots)) = Unspent(lots)
<1> DEFINE s == Unspent(lots)
<1>1. s \in Seq(Piece) /\ \A a \in 1..Len(s) : ~Spent(s[a])
  BY UnspentIs
<1> HIDE DEF s
<1>2. Unspent(s) = s
  BY <1>1, NoneSpent
<1> QED BY <1>2 DEF s

\* The first lots, when they are spent, might as well not be there.
LEMMA FirstSpent ==
  ASSUME NEW lots \in Seq(Piece), NEW w \in 0..Len(lots), \A i \in 1..w : Spent(lots[i])
  PROVE  Unspent(SubSeq(lots, w + 1, Len(lots))) = Unspent(lots)
<1> DEFINE m == Len(lots)
           cut == SubSeq(lots, w + 1, m)
           keep == {i \in DOMAIN lots : ~Spent(lots[i])}
           kept == {i \in DOMAIN cut : ~Spent(cut[i])}
<1>1. m \in Nat /\ w \in Nat /\ w <= m /\ m - w \in Nat /\ DOMAIN lots = 1..m
  OBVIOUS
<1>2. cut \in Seq(Piece) /\ Len(cut) = m - w /\ \A i \in 1..(m - w) : cut[i] = lots[w + i]
  <2>1. \A i \in 1..w : lots[i].qty = 0 /\ lots[i].cost = 0
    BY DEF Spent
  <2> QED BY <2>1, WithoutFirst
<1> HIDE DEF cut
<1>3. DOMAIN cut = 1..(m - w)
  BY <1>2
<1>4. \A i \in 1..m : i \in keep <=> ~Spent(lots[i])
  BY <1>1
<1>5. \A i \in 1..(m - w) : w + i \in 1..m
  BY <1>1
<1>6. \A i \in 1..(m - w) : i \in kept <=> w + i \in keep
  BY <1>1, <1>2, <1>3, <1>5
<1>7. Unspent(lots) = Only(lots, keep) /\ Unspent(cut) = Only(cut, kept)
  BY Zenon DEF Unspent
<1> HIDE DEF keep, kept
<1>8. PICK f : /\ DOMAIN f = 0..Len(lots) /\ f[0] = <<>> /\ Only(lots, keep) = f[Len(lots)]
               /\ \A i \in 1..Len(lots) :
                    f[i] = IF i \in keep THEN Append(f[i - 1], lots[i]) ELSE f[i - 1]
  BY OnlyWalks
<1>9. PICK g : /\ DOMAIN g = 0..Len(cut) /\ g[0] = <<>> /\ Only(cut, kept) = g[Len(cut)]
               /\ \A i \in 1..Len(cut) :
                    g[i] = IF i \in kept THEN Append(g[i - 1], cut[i]) ELSE g[i - 1]
  <2>1. cut \in Seq(Piece)
    BY <1>2
  <2> QED BY <2>1, OnlyWalks
<1>10. f[w] = <<>>
  <2> DEFINE G == {i \in 0..w : f[i] = <<>>}
  <2>1. 0 \in G
    BY <1>1, <1>8
  <2>2. ASSUME NEW i \in 1..w, i - 1 \in G PROVE i \in G
    <3>1. i \in 1..Len(lots) /\ i \in 0..w
      BY <1>1
    <3>2. i \notin keep
      BY <1>4, <3>1
    <3>3. f[i] = f[i - 1]
      BY <1>8, <3>1, <3>2
    <3> QED BY <2>2, <3>1, <3>3
  <2> HIDE DEF G
  <2>3. \A i \in 0..w : i \in G
    BY <1>1, <2>1, <2>2, Climbing
  <2>4. w \in G
    BY <1>1, <2>3
  <2> QED BY <2>4 DEF G
<1>11. \A i \in 0..(m - w) : g[i] = f[w + i]
  <2> DEFINE G == {i \in 0..(m - w) : g[i] = f[w + i]}
  <2>1. 0 \in G
    BY <1>1, <1>9, <1>10
  <2>2. ASSUME NEW i \in 1..(m - w), i - 1 \in G PROVE i \in G
    <3>1. /\ w + i \in 1..m /\ i \in 0..(m - w) /\ (w + i) - 1 = w + (i - 1)
          /\ g[i - 1] = f[w + (i - 1)]
      BY <1>1, <2>2
    <3>2. f[w + i] = IF w + i \in keep THEN Append(f[w + (i - 1)], lots[w + i]) ELSE f[w + (i - 1)]
      <4>1. w + i \in 1..Len(lots)
        BY <3>1
      <4>2. f[w + i] = IF w + i \in keep THEN Append(f[(w + i) - 1], lots[w + i]) ELSE f[(w + i) - 1]
        BY <1>8, <4>1
      <4> QED BY <3>1, <4>2
    <3>3. g[i] = IF i \in kept THEN Append(g[i - 1], cut[i]) ELSE g[i - 1]
      BY <1>2, <1>9
    <3>4. cut[i] = lots[w + i] /\ (i \in kept <=> w + i \in keep)
      BY <1>2, <1>6
    <3>5. g[i] = f[w + i]
      BY <3>1, <3>2, <3>3, <3>4
    <3> QED BY <3>1, <3>5
  <2> HIDE DEF G
  <2>3. \A i \in 0..(m - w) : i \in G
    BY <1>1, <2>1, <2>2, Climbing
  <2> QED BY <2>3 DEF G
<1>12. g[m - w] = f[m]
  <2>1. m - w \in 0..(m - w) /\ w + (m - w) = m
    BY <1>1
  <2> QED BY <1>11, <2>1
<1> QED BY <1>2, <1>7, <1>8, <1>9, <1>12 DEF cut

-----------------------------------------------------------------------------
(* A departure as it is written down. *)

\* A recorded piece this lot answers for.
FitsIn(pc, lot) ==
  /\ pc.lot = lot.lot /\ pc.day = lot.day
  /\ pc.qty <= lot.qty /\ pc.cost <= lot.cost /\ pc.cost >= LotShare(lot, pc.qty)

\* Lots of different numbers, and pieces of some of them, one of each.
Told(lots) == lots \in Seq(Piece) /\ NumberedBy(lots, (Int \X Int) \ {NoLot})

PiecesOf(s, lots) ==
  /\ s \in Seq(Piece) /\ NumberedBy(s, Int \X Int)
  /\ \A a \in 1..Len(s) : \E i \in 1..Len(lots) : FitsIn(s[a], lots[i])

LEMMA TakePieceGoes ==
  ASSUME NEW p, Told(p.lots), NEW pc, NEW at \in 1..Len(p.lots), FitsIn(pc, p.lots[at])
  PROVE  TakePiece(p, pc).ok /\ TakePiece(p, pc).pos = TakenFrom(p, at, pc)
<1> DEFINE S == {i \in DOMAIN p.lots : p.lots[i].lot = pc.lot}
           named == NamedLot(p, pc)
           lot == p.lots[at]
           q == TakenFrom(p, at, pc)
           Fits(x) == /\ pc.qty <= x.qty /\ pc.cost <= x.cost
                      /\ pc.cost >= LotShare(x, pc.qty)
<1>1. /\ DOMAIN p.lots = 1..Len(p.lots) /\ Len(p.lots) \in Nat
      /\ \A i, j \in 1..Len(p.lots) : p.lots[i].lot = p.lots[j].lot => i = j
      /\ lot.lot # NoLot
  BY DEF Told, NumberedBy
<1>2. S = {at}
  BY <1>1 DEF FitsIn
<1>3. Min(S) = at
  BY <1>2 DEF Min
<1>4. named = at /\ at # 0
  <2>1. named = IF S = {} THEN 0 ELSE Min(S)
    BY Zenon DEF NamedLot
  <2>2. S # {}
    BY <1>2
  <2> HIDE DEF S, named
  <2> QED BY <1>1, <1>3, <2>1, <2>2
<1>5. TakePiece(p, pc) = IF named = 0 THEN Provided(FALSE, p)
                         ELSE Provided(Names(p, pc, named) /\ Fits(p.lots[named]),
                                       TakenFrom(p, named, pc))
  BY Zenon DEF TakePiece
<1> HIDE DEF named
<1>6. TakePiece(p, pc) = Provided(Names(p, pc, at) /\ Fits(lot), q)
  <2> HIDE DEF Fits, q
  <2>1. TakePiece(p, pc) = Provided(Names(p, pc, named) /\ Fits(p.lots[named]),
                                    TakenFrom(p, named, pc))
    BY <1>4, <1>5, Zenon
  <2> QED BY <1>4, <2>1, Zenon DEF q
<1>7. Names(p, pc, at) /\ Fits(lot)
  <2>1. Fits(lot)
    BY Zenon DEF FitsIn
  <2>2. Names(p, pc, at)
    BY <1>1, Zenon DEF Names, FitsIn
  <2> QED BY <2>1, <2>2
<1> DEFINE fits == Names(p, pc, at) /\ Fits(lot)
<1>8. fits /\ TakePiece(p, pc) = Provided(fits, q)
  BY <1>6, <1>7, Zenon
<1> HIDE DEF fits, q
<1>9. TakePiece(p, pc).ok = fits /\ TakePiece(p, pc).pos = q
  <2>1. Provided(fits, q).ok = fits /\ Provided(fits, q).pos = q
    BY GateIs, Zenon
  <2> QED BY <1>8, <2>1, Zenon
<1> QED BY <1>8, <1>9, Zenon DEF q

LEMMA TakenFromIs ==
  ASSUME NEW d \in Nat, NEW p, IsPosition(p, d), NEW at \in 1..Len(p.lots), NEW pc
  PROVE  \A i \in 1..Len(p.lots) :
           TakenFrom(p, at, pc).lots[i] = IF i = at THEN Rest(p.lots[i], pc) ELSE p.lots[i]
<1> DEFINE left == [i \in DOMAIN p.lots |-> IF i = at THEN Rest(p.lots[i], pc) ELSE p.lots[i]]
           r == TakenFrom(p, at, pc)
<1>1. r = [p EXCEPT !.lots = left, !.qty = @ - pc.qty, !.cost = @ - pc.cost]
  BY Zenon DEF TakenFrom
<1>2. DOMAIN p = DOMAIN NoPosition /\ DOMAIN p.lots = 1..Len(p.lots)
  BY SoundIs
<1>3. \A i \in 1..Len(p.lots) : left[i] = IF i = at THEN Rest(p.lots[i], pc) ELSE p.lots[i]
  BY <1>2, Zenon
<1> HIDE DEF left, r
<1>4. r.lots = left
  BY <1>1, <1>2, FieldsAre
<1> QED BY <1>3, <1>4 DEF r

\* What the pieces taken so far have left of the lots.
LessPieces(new, old, s, i) ==
  \A j \in 1..Len(old) :
    /\ (\A a \in 1..i : s[a].lot # old[j].lot) => new[j] = old[j]
    /\ \A a \in 1..i : s[a].lot = old[j].lot => new[j] = Rest(old[j], s[a])

\* Pieces of the lots can be taken from them one by one.
LEMMA RunGoes ==
  ASSUME NEW d \in Nat, NEW p, IsPosition(p, d), Told(p.lots), NEW s, PiecesOf(s, p.lots)
  PROVE  Taken(p, s).ok /\ LessPieces(Taken(p, s).pos.lots, p.lots, s, Len(s))
<1> DEFINE lots == p.lots
           m == Len(s)
<1>1. /\ s \in Seq(Piece) /\ m \in Nat
      /\ \A a, b \in 1..m : s[a].lot = s[b].lot => a = b
      /\ \A a \in 1..m : s[a] \in Piece /\ \E i \in 1..Len(lots) : FitsIn(s[a], lots[i])
  BY DEF PiecesOf, NumberedBy
<1>2. PICK f : /\ f[0] = [ok |-> TRUE, pos |-> p] /\ Taken(p, s) = f[m]
               /\ \A i \in 1..m :
                    f[i] = IF f[i - 1].ok THEN TakePiece(f[i - 1].pos, s[i]) ELSE f[i - 1]
  BY <1>1, TakesWalk
<1>3. /\ lots \in Seq(Piece) /\ Len(lots) \in Nat /\ DOMAIN lots = 1..Len(lots)
      /\ \A i, j \in 1..Len(lots) : lots[i].lot = lots[j].lot => i = j
  BY DEF Told, NumberedBy
<1> DEFINE Good(i) == /\ f[i].ok /\ IsPosition(f[i].pos, d) /\ SameNumbers(f[i].pos.lots, lots)
                      /\ LessPieces(f[i].pos.lots, lots, s, i)
           G == {i \in 0..m : Good(i)}
<1>4. 0 \in G
  <2>1. f[0].ok /\ f[0].pos = p
    BY <1>2
  <2>2. SameNumbers(lots, lots)
    BY Zenon DEF SameNumbers
  <2>3. LessPieces(lots, lots, s, 0)
    BY DEF LessPieces
  <2> QED BY <1>1, <2>1, <2>2, <2>3
<1>5. ASSUME NEW i \in 1..m, i - 1 \in G PROVE i \in G
  <2> DEFINE b == f[i - 1].pos
             pc == s[i]
  <2>1. /\ f[i - 1].ok /\ IsPosition(b, d) /\ SameNumbers(b.lots, lots)
        /\ LessPieces(b.lots, lots, s, i - 1)
    BY <1>5
  <2>2. PICK at \in 1..Len(lots) : FitsIn(pc, lots[at])
    BY <1>1
  <2>3. f[i] = TakePiece(b, pc)
    BY <1>2, <2>1
  <2>4. /\ i \in Nat /\ i \in 0..m /\ \A a \in 1..(i - 1) : a \in 1..m /\ a # i
        /\ \A a \in 1..i : a = i \/ a \in 1..(i - 1)
    BY <1>1
  <2> HIDE DEF b
  <2>5. \A a \in 1..(i - 1) : s[a].lot # pc.lot
    BY <1>1, <2>4
  <2>6. b.lots[at] = lots[at]
    BY <2>1, <2>2, <2>5 DEF LessPieces, FitsIn
  <2>7. b.lots \in Seq(Piece) /\ DOMAIN b.lots = 1..Len(b.lots)
    BY <2>1, SoundIs
  <2>8. DOMAIN b.lots = DOMAIN lots /\ Len(b.lots) = Len(lots)
    BY <1>3, <2>1, <2>7 DEF SameNumbers
  <2>9. Told(b.lots)
    <3>1. KeepsNumbers(b.lots, lots)
      BY <2>1, SameKeeps
    <3> QED BY <2>7, <3>1 DEF Told, KeepsNumbers
  <2>10. TakePiece(b, pc).ok /\ TakePiece(b, pc).pos = TakenFrom(b, at, pc)
    BY <2>2, <2>6, <2>8, <2>9, TakePieceGoes
  <2> DEFINE c == f[i].pos
  <2>11. f[i].ok /\ c = TakenFrom(b, at, pc)
    BY <2>3, <2>10
  <2>12. IsPosition(c, d) /\ SameNumbers(c.lots, b.lots)
    <3>1. pc \in Piece
      BY <1>1
    <3>2. LET r == TakePiece(b, pc).pos IN IsPosition(r, d) /\ SameNumbers(r.lots, b.lots)
      BY <2>1, <2>10, <3>1, TakePieceSound
    <3> QED BY <2>3, <3>2
  <2>13. \A j \in 1..Len(lots) : c.lots[j] = IF j = at THEN Rest(b.lots[j], pc) ELSE b.lots[j]
    BY <2>1, <2>8, <2>11, TakenFromIs
  <2> HIDE DEF c
  <2>14. SameNumbers(c.lots, lots)
    BY <2>1, <2>12 DEF SameNumbers
  <2>15. ASSUME NEW j \in 1..Len(lots)
         PROVE  /\ (\A a \in 1..i : s[a].lot # lots[j].lot) => c.lots[j] = lots[j]
                /\ \A a \in 1..i : s[a].lot = lots[j].lot => c.lots[j] = Rest(lots[j], s[a])
    <3>1. CASE j = at
      <4>1. c.lots[j] = Rest(lots[j], s[i]) /\ s[i].lot = lots[j].lot /\ i \in 1..i
        BY <2>2, <2>4, <2>6, <2>13, <3>1 DEF FitsIn
      <4>2. \A a \in 1..i : s[a].lot = lots[j].lot => a = i
        BY <2>4, <2>5, <4>1
      <4> QED BY <4>1, <4>2
    <3>2. CASE j # at
      <4>1. c.lots[j] = b.lots[j] /\ s[i].lot # lots[j].lot
        BY <1>3, <2>2, <2>13, <3>2 DEF FitsIn
      <4>2. /\ (\A a \in 1..(i - 1) : s[a].lot # lots[j].lot) => b.lots[j] = lots[j]
            /\ \A a \in 1..(i - 1) : s[a].lot = lots[j].lot => b.lots[j] = Rest(lots[j], s[a])
        BY <2>1 DEF LessPieces
      <4>3. \A a \in 1..(i - 1) : a \in 1..i
        BY <2>4
      <4> HIDE DEF lots, pc
      <4> QED BY <2>4, <4>1, <4>2, <4>3
    <3> QED BY <3>1, <3>2
  <2>16. LessPieces(c.lots, lots, s, i)
    BY <2>15, Zenon DEF LessPieces
  <2> QED BY <2>4, <2>11, <2>12, <2>14, <2>16 DEF c
<1>6. m \in G
  <2> HIDE DEF G
  <2>1. \A i \in 0..m : i \in G
    BY <1>1, <1>4, <1>5, Climbing
  <2> QED BY <1>1, <2>1
<1> QED BY <1>2, <1>6

-----------------------------------------------------------------------------
(* What a release leaves, and what its breakdown leaves. *)

LEMMA NothingAdds ==
  ASSUME NEW s \in Seq(Nat), Total(s) = 0
  PROVE  \A i \in 1..Len(s) : s[i] = 0
<1>1. /\ s \in Seq(Int) /\ \A i \in 0..Len(s) : Prefix(s)[i] \in Nat
      /\ \A i, j \in 0..Len(s) : i <= j => Prefix(s)[i] <= Prefix(s)[j]
  BY SumsGrow
<1>2. Len(s) \in Nat /\ Prefix(s)[Len(s)] = 0
  BY <1>1, TotalIs
<1> SUFFICES ASSUME NEW i \in 1..Len(s) PROVE s[i] = 0
  OBVIOUS
<1>3. /\ i \in 0..Len(s) /\ i - 1 \in 0..Len(s) /\ Len(s) \in 0..Len(s)
      /\ i <= Len(s) /\ i - 1 <= Len(s)
  BY <1>2
<1>4. Prefix(s)[i] = 0 /\ Prefix(s)[i - 1] = 0
  <2>1. Prefix(s)[i] <= 0 /\ Prefix(s)[i] \in Nat
    BY <1>1, <1>2, <1>3
  <2>2. Prefix(s)[i - 1] <= 0 /\ Prefix(s)[i - 1] \in Nat
    BY <1>1, <1>2, <1>3
  <2> QED BY <2>1, <2>2
<1>5. Prefix(s)[i] = Prefix(s)[i - 1] + s[i] /\ s[i] \in Nat
  BY <1>1, PrefixIs
<1> QED BY <1>4, <1>5

\* A queue without units and without cost has nothing but spent lots.
LEMMA NothingLeft ==
  ASSUME NEW lots \in Seq(Piece)
  PROVE  /\ LotsUnits(lots) = 0 => \A i \in 1..Len(lots) : lots[i].qty = 0
         /\ LotsUnits(lots) = 0 /\ LotsCost(lots) = 0 => Unspent(lots) = <<>>
<1>1. /\ Units(lots) \in Seq(Nat) /\ Len(Units(lots)) = Len(lots)
      /\ \A i \in 1..Len(lots) : Units(lots)[i] = lots[i].qty
      /\ Costs(lots) \in Seq(Nat) /\ Len(Costs(lots)) = Len(lots)
      /\ \A i \in 1..Len(lots) : Costs(lots)[i] = lots[i].cost
  BY PiecesAdd
<1>2. ASSUME LotsUnits(lots) = 0 PROVE \A i \in 1..Len(lots) : lots[i].qty = 0
  BY <1>1, <1>2, NothingAdds DEF LotsUnits
<1>3. ASSUME LotsUnits(lots) = 0, LotsCost(lots) = 0 PROVE Unspent(lots) = <<>>
  <2>1. \A i \in 1..Len(lots) : lots[i].cost = 0
    BY <1>1, <1>3, NothingAdds DEF LotsCost
  <2>2. \A i \in 1..Len(lots) : Spent(lots[i])
    BY <1>2, <1>3, <2>1 DEF Spent
  <2> QED BY <2>2, AllSpent
<1> QED BY <1>2, <1>3

\* The breakdown of pieces that fit their lots, once the spent are dropped.
LEMMA BreakdownFits ==
  ASSUME NEW lots, NEW all, PiecesOf(all, lots)
  PROVE  PiecesOf(Unspent(all), lots)
<1> DEFINE s == Unspent(all)
<1>1. all \in Seq(Piece) /\ NumberedBy(all, Int \X Int)
  BY Zenon DEF PiecesOf
<1>2. /\ s \in Seq(Piece) /\ NumberedBy(s, Int \X Int)
      /\ \A a \in 1..Len(s) : \E i \in 1..Len(all) : s[a] = all[i]
  BY <1>1, UnspentIs
<1>3. \A a \in 1..Len(all) : \E i \in 1..Len(lots) : FitsIn(all[a], lots[i])
  BY Zenon DEF PiecesOf
<1> HIDE DEF s
<1>4. \A a \in 1..Len(s) : \E i \in 1..Len(lots) : FitsIn(s[a], lots[i])
  BY <1>2, <1>3
<1>5. PiecesOf(s, lots)
  BY <1>2, <1>4 DEF PiecesOf
<1> QED BY <1>5 DEF s

\* The pieces of a release, and the breakdown they are recorded as.
LEMMA ReachedFits ==
  ASSUME NEW lots, Told(lots), NEW qty \in Nat \ {0}, qty <= LotsUnits(lots)
  PROVE  PiecesOf(Reached(lots, qty, Prefix(Units(lots))), lots)
<1> DEFINE all == Reached(lots, qty, Prefix(Units(lots)))
<1>1. /\ lots \in Seq(Piece) /\ Len(lots) \in Nat
      /\ \A i, j \in 1..Len(lots) : lots[i].lot = lots[j].lot => i = j
      /\ \A i \in 1..Len(lots) : lots[i].lot \in Int \X Int
  BY DEF Told, NumberedBy
<1>2. /\ all \in Seq(Piece) /\ Len(all) <= Len(lots)
      /\ \A i \in 1..Len(all) :
           /\ all[i].qty <= lots[i].qty /\ all[i].cost <= lots[i].cost
           /\ all[i].lot = lots[i].lot /\ all[i].day = lots[i].day
           /\ all[i].cost = LotShare(lots[i], all[i].qty)
  BY <1>1, ReachedIs
<1> HIDE DEF all
<1>3. DOMAIN all = 1..Len(all) /\ Len(all) \in Nat /\ \A a \in 1..Len(all) : a \in 1..Len(lots)
  BY <1>1, <1>2
<1>4. NumberedBy(all, Int \X Int)
  BY <1>1, <1>2, <1>3 DEF NumberedBy
<1>5. \A a \in 1..Len(all) : all[a].cost \in Nat
  BY <1>2, PiecesAdd, PieceIs
<1>6. \A a \in 1..Len(all) : FitsIn(all[a], lots[a])
  BY <1>2, <1>5 DEF FitsIn
<1>7. PiecesOf(all, lots)
  BY <1>2, <1>3, <1>4, <1>6 DEF PiecesOf
<1> QED BY <1>7 DEF all

\* Nothing taken of a lot leaves the lot.
LEMMA RestOfNothing ==
  ASSUME NEW x \in Piece, NEW pc, pc.qty = 0, pc.cost = 0
  PROVE  Rest(x, pc) = x
<1>1. Rest(x, pc) = [x EXCEPT !.qty = @ - pc.qty, !.cost = @ - pc.cost]
  BY Zenon DEF Rest
<1>2. x = [lot |-> x.lot, qty |-> x.qty, cost |-> x.cost, day |-> x.day]
      /\ x.qty \in Nat /\ x.cost \in Nat
  BY DEF Piece
<1>3. x.qty - pc.qty = x.qty /\ x.cost - pc.cost = x.cost
  BY <1>2
<1> QED BY <1>1, <1>2, <1>3

\* Taking the breakdown of the first lots by their numbers leaves what taking
\* their pieces by their places leaves.
LEMMA ByNumberAsByPlace ==
  ASSUME NEW lots, Told(lots), NEW all \in Seq(Piece), Len(all) <= Len(lots),
         \A a \in 1..Len(all) : all[a].lot = lots[a].lot,
         NEW new \in Seq(Piece), Len(new) = Len(lots),
         LessPieces(new, lots, Unspent(all), Len(Unspent(all)))
  PROVE  new = [i \in DOMAIN lots |->
                  IF i \in DOMAIN all THEN Rest(lots[i], all[i]) ELSE lots[i]]
<1> DEFINE s == Unspent(all)
           k == Len(all)
           m == Len(lots)
           rest == [i \in DOMAIN lots |->
                      IF i \in DOMAIN all THEN Rest(lots[i], all[i]) ELSE lots[i]]
<1>1. /\ lots \in Seq(Piece) /\ m \in Nat /\ DOMAIN lots = 1..m
      /\ \A i, j \in 1..m : lots[i].lot = lots[j].lot => i = j
      /\ \A i \in 1..m : lots[i] \in Piece
  <2>1. lots \in Seq(Piece) /\ \A i, j \in DOMAIN lots : lots[i].lot = lots[j].lot => i = j
    BY DEF Told, NumberedBy
  <2>2. m \in Nat /\ DOMAIN lots = 1..m /\ \A i \in 1..m : lots[i] \in Piece
    BY <2>1, PiecesAdd
  <2> QED BY <2>1, <2>2
<1>2. k \in Nat /\ DOMAIN all = 1..k /\ \A i \in 1..k : i \in 1..m
  BY <1>1
<1>3. /\ \A a \in 1..Len(s) : ~Spent(s[a]) /\ \E i \in 1..k : s[a] = all[i]
      /\ \A i \in 1..k : ~Spent(all[i]) => \E a \in 1..Len(s) : s[a] = all[i]
  BY UnspentIs
<1>4. \A j \in 1..m : /\ (\A a \in 1..Len(s) : s[a].lot # lots[j].lot) => new[j] = lots[j]
                      /\ \A a \in 1..Len(s) : s[a].lot = lots[j].lot
                                                => new[j] = Rest(lots[j], s[a])
  BY DEF LessPieces
<1> HIDE DEF s, k, m
<1>5. \A a \in 1..k : all[a].lot = lots[a].lot
  BY DEF k
<1>6. ASSUME NEW j \in 1..m, j \notin 1..k PROVE new[j] = lots[j]
  <2>1. ASSUME NEW a \in 1..Len(s), s[a].lot = lots[j].lot PROVE FALSE
    <3>1. PICK i \in 1..k : s[a] = all[i]
      BY <1>3
    <3>2. i = j
      BY <1>1, <1>2, <1>5, <2>1, <3>1
    <3> QED BY <1>6, <3>2
  <2> QED BY <1>4, <2>1
<1>7. ASSUME NEW j \in 1..k PROVE new[j] = Rest(lots[j], all[j])
  <2>1. j \in 1..m
    BY <1>2
  <2>2. CASE Spent(all[j])
    <3>1. ASSUME NEW a \in 1..Len(s), s[a].lot = lots[j].lot PROVE FALSE
      <4>1. PICK i \in 1..k : s[a] = all[i]
        BY <1>3
      <4>2. i = j
        BY <1>1, <1>2, <1>5, <2>1, <3>1, <4>1
      <4> QED BY <1>3, <2>2, <4>1, <4>2
    <3>2. new[j] = lots[j]
      BY <1>4, <2>1, <3>1
    <3>3. Rest(lots[j], all[j]) = lots[j]
      BY <1>1, <2>1, <2>2, RestOfNothing DEF Spent
    <3> QED BY <3>2, <3>3
  <2>3. CASE ~Spent(all[j])
    <3>1. PICK a \in 1..Len(s) : s[a] = all[j]
      BY <1>3, <2>3
    <3> QED BY <1>4, <1>5, <2>1, <3>1
  <2> QED BY <2>2, <2>3
<1>8. \A i \in 1..m : new[i] = IF i \in 1..k THEN Rest(lots[i], all[i]) ELSE lots[i]
  BY <1>6, <1>7
<1>9. DOMAIN new = 1..m /\ new = [i \in 1..m |-> new[i]]
  BY <1>1 DEF m
<1>10. rest = [i \in 1..m |-> IF i \in 1..k THEN Rest(lots[i], all[i]) ELSE lots[i]]
  BY <1>1, <1>2
<1> QED BY <1>8, <1>9, <1>10

\* When every unit leaves, the pieces are the lots, but for those that cost
\* nothing: the reached lots go whole, the others have no units.
LEMMA AllFits ==
  ASSUME NEW lots, Told(lots), NEW qty \in Nat \ {0}, qty = LotsUnits(lots)
  PROVE  LET reached == Reached(lots, qty, Prefix(Units(lots)))
         IN PiecesOf(reached \o Sweep(LeftBy(lots, reached)), lots)
<1> DEFINE reached == Reached(lots, qty, Prefix(Units(lots)))
           left == LeftBy(lots, reached)
           rest == [i \in DOMAIN lots |->
                      IF i \in DOMAIN reached THEN Rest(lots[i], reached[i]) ELSE lots[i]]
           k == Len(reached)
           m == Len(lots)
           keep == {i \in DOMAIN left : left[i].cost # 0}
           bare == WithoutUnits(left)
           swept == Sweep(left)
           all == reached \o swept
<1>1. /\ lots \in Seq(Piece) /\ m \in Nat /\ DOMAIN lots = 1..m
      /\ \A i, j \in 1..m : lots[i].lot = lots[j].lot => i = j
      /\ \A i \in 1..m : lots[i] \in Piece /\ lots[i].lot \in Int \X Int
  <2>1. /\ lots \in Seq(Piece) /\ \A i, j \in DOMAIN lots : lots[i].lot = lots[j].lot => i = j
        /\ \A i \in DOMAIN lots : lots[i].lot \in Int \X Int
    BY DEF Told, NumberedBy
  <2>2. m \in Nat /\ DOMAIN lots = 1..m /\ \A i \in 1..m : lots[i] \in Piece
    BY <2>1, PiecesAdd
  <2> QED BY <2>1, <2>2
<1>2. /\ reached \in Seq(Piece) /\ Len(reached) <= Len(lots) /\ LotsUnits(reached) = qty
      /\ \A i \in 1..Len(reached) :
           /\ reached[i].qty <= lots[i].qty /\ reached[i].cost <= lots[i].cost
           /\ reached[i].lot = lots[i].lot /\ reached[i].day = lots[i].day
           /\ reached[i].cost = LotShare(lots[i], reached[i].qty)
           /\ i < Len(reached) => reached[i].qty = lots[i].qty
  BY <1>1, ReachedIs
<1>3. PICK w \in 0..k : /\ left = SubSeq(rest, w + 1, m)
                        /\ \A i \in 1..k : i <= w <=> reached[i].qty = lots[i].qty
  <2> HIDE DEF reached
  <2> QED BY <1>1, <1>2, CutIs, ZenonT(60)
<1>4. PiecesOf(reached, lots)
  BY ReachedFits
<1> HIDE DEF reached
<1>5. /\ rest \in Seq(Piece) /\ Len(rest) = m /\ LotsUnits(rest) = 0
      /\ SameNumbers(rest, lots)
      /\ \A i \in 1..k : rest[i].qty = lots[i].qty - reached[i].qty
  <2>1. LotsUnits(lots) - LotsUnits(reached) = 0
    BY <1>2
  <2>2. \A i \in 1..Len(reached) :
          reached[i].qty <= lots[i].qty /\ reached[i].cost <= lots[i].cost
    BY <1>2
  <2>3. /\ rest \in Seq(Piece) /\ Len(rest) = Len(lots)
        /\ LotsUnits(rest) = LotsUnits(lots) - LotsUnits(reached)
        /\ SameNumbers(rest, lots)
        /\ \A i \in 1..Len(reached) : rest[i].qty = lots[i].qty - reached[i].qty
    <3>1. lots \in Seq(Piece) /\ reached \in Seq(Piece) /\ Len(reached) <= Len(lots)
      BY <1>1, <1>2
    <3> HIDE DEF m, k
    <3> QED BY <2>2, <3>1, RestIs, ZenonT(60)
  <2> HIDE DEF rest
  <2> QED BY <2>1, <2>3
<1>6. k \in Nat /\ k <= m /\ DOMAIN reached = 1..k /\ w \in Nat /\ w <= k
  BY <1>1, <1>2, <1>3
<1>7. \A i \in 1..m : i \notin 1..k => rest[i] = lots[i]
  BY <1>1, <1>6
<1> HIDE DEF left, rest, all, swept, bare, k, m
<1>8. \A i \in 1..m : rest[i].qty = 0
  BY <1>5, NothingLeft
<1>9. w = k
  <2>1. CASE k = 0
    BY <1>6, <2>1
  <2>2. CASE k # 0
    <3>1. k \in 1..k /\ k \in 1..m
      BY <1>1, <1>6, <2>2
    <3>2. lots[k].qty \in Nat /\ reached[k].qty \in Nat
      BY <1>1, <1>2, <3>1, PiecesAdd, PieceIs DEF k
    <3>3. lots[k].qty - reached[k].qty = 0
      BY <1>5, <1>8, <3>1
    <3>4. reached[k].qty = lots[k].qty
      BY <3>2, <3>3
    <3>5. k <= w
      BY <1>3, <3>1, <3>4
    <3> QED BY <1>6, <3>5
  <2> QED BY <2>1, <2>2
<1>10. /\ left \in Seq(Piece) /\ Len(left) = m - k
       /\ \A i \in 1..(m - k) : k + i \in 1..m /\ k + i \notin 1..k /\ left[i] = lots[k + i]
  <2>1. left = SubSeq(rest, k + 1, m)
    BY <1>3, <1>9
  <2>2. /\ left \in Seq(Piece) /\ Len(left) = m - k
        /\ \A i \in 1..(m - k) : left[i] = rest[k + i]
    BY <1>1, <1>5, <1>6, <2>1
  <2>3. \A i \in 1..(m - k) : k + i \in 1..m /\ k + i \notin 1..k
    BY <1>1, <1>6
  <2> QED BY <1>7, <2>2, <2>3
<1>11. \A i \in 1..(m - k) : left[i].qty = 0 /\ left[i] \in Piece
  BY <1>1, <1>7, <1>8, <1>10
<1>12. bare = left
  <2>1. DOMAIN left = 1..(m - k) /\ left = [i \in 1..(m - k) |-> left[i]]
    BY <1>10
  <2>2. ASSUME NEW i \in 1..(m - k) PROVE [left[i] EXCEPT !.qty = 0] = left[i]
    <3>1. left[i] \in Piece /\ left[i].qty = 0
      BY <1>11
    <3> QED BY <3>1 DEF Piece
  <2>3. bare = [i \in 1..(m - k) |-> [left[i] EXCEPT !.qty = 0]]
    BY <2>1, Zenon DEF bare, WithoutUnits
  <2> QED BY <2>1, <2>2, <2>3
<1>13. swept = Only(left, keep)
  BY <1>12, Zenon DEF swept, Sweep, bare
<1> HIDE DEF keep
<1>14. /\ swept \in Seq(Piece)
       /\ \A a \in 1..Len(swept) : \E i \in 1..(m - k) : swept[a] = left[i]
       /\ \A M : NumberedBy(left, M) => NumberedBy(swept, M)
  <2>1. /\ swept \in Seq(Piece)
        /\ \A a \in 1..Len(swept) : \E i \in 1..Len(left) : swept[a] = left[i]
    BY <1>10, <1>13, OnlyIs, SMTT(30)
  <2>2. ASSUME NEW M, NumberedBy(left, M) PROVE NumberedBy(swept, M)
    BY <1>10, <1>13, <2>2, OnlyKeeps
  <2> QED BY <1>10, <2>1, <2>2
<1>15. NumberedBy(left, Int \X Int)
  <2>1. DOMAIN left = 1..(m - k)
    BY <1>10
  <2>2. ASSUME NEW i \in 1..(m - k), NEW j \in 1..(m - k), left[i].lot = left[j].lot PROVE i = j
    <3>1. k + i = k + j
      BY <1>1, <1>10, <2>2
    <3> QED BY <1>6, <3>1
  <2> QED BY <1>1, <1>10, <2>1, <2>2, SMTT(30) DEF NumberedBy
<1>16. \A a \in 1..Len(swept) : \E i \in 1..m : i \notin 1..k /\ swept[a] = lots[i]
  BY <1>10, <1>14
<1>17. /\ all \in Seq(Piece) /\ Len(all) = k + Len(swept)
       /\ \A a \in 1..k : all[a] = reached[a]
       /\ \A a \in 1..Len(all) : a > k => all[a] = swept[a - k]
  BY <1>2, <1>14, JoinIs DEF all, k
<1>18. \A a \in 1..Len(all) : \/ a \in 1..k
                              \/ a > k /\ a - k \in 1..Len(swept) /\ all[a] = swept[a - k]
  BY <1>6, <1>14, <1>17
<1>19. /\ \A a \in 1..k : a \in 1..m /\ all[a].lot = lots[a].lot
       /\ \A a \in 1..k : \E i \in 1..m : FitsIn(all[a], lots[i])
  BY <1>2, <1>4, <1>6, <1>17 DEF PiecesOf, k, m
<1>20. \A a \in 1..Len(all) : \E i \in 1..m : FitsIn(all[a], lots[i])
  <2>1. ASSUME NEW i \in 1..m PROVE FitsIn(lots[i], lots[i])
    <3> DEFINE x == lots[i]
    <3>1. x \in Piece /\ x.qty \in Nat /\ x.cost \in Nat
      BY <1>1, PieceIs
    <3> HIDE DEF x
    <3>2. x.qty \in 0..x.qty
      BY <3>1
    <3>3. LotShare(x, x.qty) = x.cost
      BY <3>1, <3>2, LotShareIs
    <3>4. FitsIn(x, x)
      BY <3>1, <3>3 DEF FitsIn
    <3> QED BY <3>4 DEF x
  <2> QED BY <1>16, <1>18, <1>19, <2>1
<1>21. NumberedBy(all, Int \X Int)
  <2>1. DOMAIN all = 1..Len(all)
    BY <1>17
  <2>2. \A a \in 1..Len(all) : all[a].lot \in Int \X Int
    <3>1. ASSUME NEW a \in 1..k PROVE all[a].lot \in Int \X Int
      BY <1>1, <1>19
    <3>2. ASSUME NEW a \in 1..Len(all), a > k PROVE all[a].lot \in Int \X Int
      <4>1. PICK i \in 1..m : all[a] = lots[i]
        BY <1>6, <1>16, <1>18, <3>2
      <4> QED BY <1>1, <4>1
    <3> QED BY <1>18, <3>1, <3>2
  <2>3. \A a, b \in 1..Len(swept) : swept[a].lot = swept[b].lot => a = b
    <3>1. NumberedBy(swept, Int \X Int) /\ DOMAIN swept = 1..Len(swept)
      BY <1>14, <1>15
    <3> QED BY <3>1 DEF NumberedBy
  <2>4. ASSUME NEW a \in 1..k, NEW b \in 1..Len(all), b \notin 1..k, all[a].lot = all[b].lot
        PROVE  FALSE
    <3>1. PICK i \in 1..m : i \notin 1..k /\ all[b] = lots[i]
      BY <1>16, <1>18, <2>4
    <3>2. a = i
      BY <1>1, <1>19, <2>4, <3>1
    <3> QED BY <3>1, <3>2
  <2>5. ASSUME NEW a \in 1..Len(all), NEW b \in 1..Len(all), all[a].lot = all[b].lot
        PROVE  a = b
    <3>1. CASE a \in 1..k /\ b \in 1..k
      BY <1>1, <1>19, <2>5, <3>1
    <3>2. CASE a \in 1..k /\ b \notin 1..k
      BY <2>4, <2>5, <3>2
    <3>3. CASE a \notin 1..k /\ b \in 1..k
      BY <2>4, <2>5, <3>3
    <3>4. CASE a \notin 1..k /\ b \notin 1..k
      <4>1. a - k = b - k
        BY <1>18, <2>3, <2>5, <3>4
      <4> QED BY <1>6, <1>17, <4>1
    <3> QED BY <3>1, <3>2, <3>3, <3>4
  <2> QED BY <2>1, <2>2, <2>5 DEF NumberedBy
<1>22. PiecesOf(all, lots)
  BY <1>17, <1>20, <1>21 DEF PiecesOf, m
<1> QED BY <1>22 DEF all, swept, left, reached

-----------------------------------------------------------------------------
(* A departure replayed. *)

LEMMA ReleasedAs ==
  ASSUME NEW d \in Nat, NEW p, IsPosition(p, d), NEW qty \in Nat \ {0}
  PROVE  LET r       == ReleaseFIFO(p, qty)
             reached == Reached(p.lots, qty, Prefix(Units(p.lots)))
             left    == LeftBy(p.lots, reached)
         IN /\ qty = p.qty => r.pieces = reached \o Sweep(left) /\ r.pos.lots = <<>>
            /\ qty # p.qty => r.pieces = reached /\ r.pos.lots = left
<1> DEFINE lots == p.lots
           reached == Reached(lots, qty, Prefix(Units(lots)))
           left == LeftBy(lots, reached)
           all == reached \o Sweep(left)
           fits == qty <= p.qty
           r == ReleaseFIFO(p, qty)
           Took(pieces, rest) ==
             [ok |-> fits,
              pos |-> [p EXCEPT !.qty = @ - qty, !.cost = @ - LotsCost(pieces), !.lots = rest],
              pieces |-> pieces]
<1>1. r = IF qty = p.qty THEN Took(all, <<>>) ELSE Took(reached, left)
  BY Zenon DEF ReleaseFIFO, Withdrawn
<1>2. DOMAIN p = DOMAIN NoPosition
  BY SoundIs
<1> HIDE DEF lots, reached, left, all, fits, r
<1>3. \A pieces, rest : Took(pieces, rest).pieces = pieces /\ Took(pieces, rest).pos.lots = rest
  BY <1>2, FieldsAre
<1> HIDE DEF Took
<1>4. qty = p.qty => r.pieces = all /\ r.pos.lots = <<>>
  BY <1>1, <1>3
<1>5. qty # p.qty => r.pieces = reached /\ r.pos.lots = left
  BY <1>1, <1>3
<1> QED BY <1>4, <1>5 DEF r, all, left, reached, lots

\* Pieces of the lots are released as recorded.
LEMMA RecordedIs ==
  ASSUME NEW p, NEW o, o.qty <= p.qty, Taken(p, o.lots).ok
  PROVE  LET r == ReleaseRecorded(p, o)
         IN r.ok /\ r.pos = WithoutSpent(Taken(p, o.lots).pos)
<1> DEFINE out == Taken(p, o.lots)
           left == WithoutSpent(out.pos)
           enough == o.qty <= p.qty
           released == ReleaseRecorded(p, o)
<1>1. released = IF Provided(enough, p).ok
                 THEN Then(Run(TakePiece, Provided(enough, p).pos, o.lots),
                           LAMBDA q : Provided(TRUE, WithoutSpent(q)))
                 ELSE Provided(enough, p)
  BY Zenon DEF ReleaseRecorded, Then
<1>2. Provided(enough, p).ok = enough /\ Provided(enough, p).pos = p
  BY GateIs
<1>3. enough
  OBVIOUS
<1>4. released = Then(out, LAMBDA q : Provided(TRUE, WithoutSpent(q)))
  BY <1>1, <1>2, <1>3, Zenon DEF Taken
<1>5. Then(out, LAMBDA q : Provided(TRUE, WithoutSpent(q)))
        = IF out.ok THEN Provided(TRUE, left) ELSE out
  BY Zenon DEF Then
<1>6. out.ok
  OBVIOUS
<1> HIDE DEF enough, released, out, left
<1>7. released = Provided(TRUE, left)
  BY <1>4, <1>5, <1>6, Zenon
<1>8. released.ok = TRUE /\ released.pos = left
  <2>1. Provided(TRUE, left).ok = TRUE /\ Provided(TRUE, left).pos = left
    BY GateIs, Zenon
  <2> QED BY <1>7, <2>1, Zenon
<1> QED BY <1>8, Zenon DEF released, left, out

\* Taking the breakdown of a release leaves what the release leaves.
LEMMA BreakdownLeaves ==
  ASSUME NEW d \in Nat, NEW p, IsPosition(p, d), Told(p.lots), NEW q \in Nat \ {0}, q <= p.qty
  PROVE  LET fifo == ReleaseFIFO(p, q)
             out  == Taken(p, Unspent(fifo.pieces))
         IN /\ out.ok /\ IsPosition(out.pos, d)
            /\ out.pos.qty = fifo.pos.qty /\ out.pos.cost = fifo.pos.cost
            /\ Unspent(out.pos.lots) = Unspent(fifo.pos.lots)
<1> DEFINE lots == p.lots
           reached == Reached(lots, q, Prefix(Units(lots)))
           left == LeftBy(lots, reached)
           all == reached \o Sweep(left)
           fifo == ReleaseFIFO(p, q)
           s == Unspent(fifo.pieces)
           out == Taken(p, s)
<1>1. /\ lots \in Seq(Piece) /\ Len(lots) \in Nat /\ LotsUnits(lots) = p.qty
      /\ p.qty \in Nat /\ p.cost \in Nat
  BY SoundIs
<1>2. /\ q = p.qty => fifo.pieces = all /\ fifo.pos.lots = <<>>
      /\ q # p.qty => fifo.pieces = reached /\ fifo.pos.lots = left
  BY ReleasedAs
<1>3. /\ fifo.pieces \in Seq(Piece) /\ LotsUnits(fifo.pieces) = q
      /\ IsPosition(fifo.pos, d) /\ fifo.pos.cost = p.cost - LotsCost(fifo.pieces)
      /\ fifo.pos.qty = p.qty - q
  BY ReleaseIs
<1>4. PiecesOf(fifo.pieces, lots)
  <2>1. CASE q = p.qty
    <3>1. PiecesOf(all, lots)
      <4>1. q = LotsUnits(lots)
        BY <1>1, <2>1
      <4> QED BY <4>1, AllFits
    <3> QED BY <1>2, <2>1, <3>1
  <2>2. CASE q # p.qty
    <3>1. PiecesOf(reached, lots)
      BY <1>1, ReachedFits
    <3> QED BY <1>2, <2>2, <3>1
  <2> QED BY <2>1, <2>2
<1> HIDE DEF fifo, all, left, reached
<1>5. PiecesOf(s, lots) /\ s \in Seq(Piece)
      /\ LotsUnits(s) = q /\ LotsCost(s) = LotsCost(fifo.pieces)
  BY <1>3, <1>4, BreakdownFits, UnspentIs
<1> HIDE DEF s
<1>6. out.ok /\ LessPieces(out.pos.lots, lots, s, Len(s))
  BY <1>5, RunGoes
<1>7. /\ IsPosition(out.pos, d) /\ out.pos.cost = p.cost - LotsCost(s)
      /\ out.pos.qty = p.qty - LotsUnits(s) /\ SameNumbers(out.pos.lots, lots)
  BY <1>5, <1>6, RunTakes
<1>8. out.pos.qty = fifo.pos.qty /\ out.pos.cost = fifo.pos.cost
  BY <1>3, <1>5, <1>7
<1> HIDE DEF out
<1> DEFINE new == out.pos.lots
<1>9. /\ new \in Seq(Piece) /\ LotsUnits(new) = out.pos.qty /\ LotsCost(new) = out.pos.cost
      /\ DOMAIN new = 1..Len(new) /\ Len(new) \in Nat
  BY <1>7, SoundIs
<1>10. Unspent(new) = Unspent(fifo.pos.lots)
  <2>1. CASE q = p.qty
    <3>1. fifo.pos.lots = <<>>
      BY <1>2, <2>1
    <3>2. LotsUnits(<<>>) = 0 /\ LotsCost(<<>>) = 0 /\ <<>> \in Seq(Piece)
      <4>1. <<>> \in Seq(Piece) /\ Len(<<>>) = 0
        OBVIOUS
      <4>2. /\ Units(<<>>) \in Seq(Int) /\ Len(Units(<<>>)) = 0
            /\ Costs(<<>>) \in Seq(Int) /\ Len(Costs(<<>>)) = 0
        BY <4>1, PiecesAdd, SumsGrow
      <4> QED BY <4>1, <4>2, TotalIs DEF LotsUnits, LotsCost
    <3>3. fifo.pos.qty = 0 /\ fifo.pos.cost = 0
      <4>1. LotsUnits(fifo.pos.lots) = fifo.pos.qty /\ LotsCost(fifo.pos.lots) = fifo.pos.cost
        BY <1>3, SoundIs
      <4> QED BY <3>1, <3>2, <4>1
    <3>4. Unspent(new) = <<>> /\ Unspent(<<>>) = <<>>
      BY <1>8, <1>9, <3>2, <3>3, NothingLeft
    <3> QED BY <3>1, <3>4
  <2>2. CASE q # p.qty
    <3> DEFINE rest == [i \in DOMAIN lots |->
                          IF i \in DOMAIN reached THEN Rest(lots[i], reached[i]) ELSE lots[i]]
    <3>1. /\ reached \in Seq(Piece) /\ Len(reached) <= Len(lots)
          /\ \A i \in 1..Len(reached) :
               /\ reached[i].qty <= lots[i].qty /\ reached[i].cost <= lots[i].cost
               /\ reached[i].lot = lots[i].lot
               /\ reached[i].qty = lots[i].qty => reached[i].cost = lots[i].cost
               /\ i < Len(reached) => reached[i].qty = lots[i].qty
      BY <1>1, ReachedIs DEF reached
    <3>2. PICK w \in 0..Len(reached) :
            /\ left = SubSeq(rest, w + 1, Len(lots))
            /\ \A i \in 1..Len(reached) : i <= w <=> reached[i].qty = lots[i].qty
      <4>1. \A i \in 1..Len(reached) : i < Len(reached) => reached[i].qty = lots[i].qty
        BY <3>1
      <4> QED BY <1>1, <3>1, <4>1, CutIs DEF left
    <3>3. /\ rest \in Seq(Piece) /\ Len(rest) = Len(lots)
          /\ \A i \in 1..Len(reached) : /\ rest[i].qty = lots[i].qty - reached[i].qty
                                        /\ rest[i].cost = lots[i].cost - reached[i].cost
      <4>1. \A i \in 1..Len(reached) :
              reached[i].qty <= lots[i].qty /\ reached[i].cost <= lots[i].cost
        BY <3>1
      <4>2. reached \in Seq(Piece) /\ Len(reached) <= Len(lots)
        BY <3>1
      <4> HIDE DEF lots
      <4> QED BY <1>1, <4>1, <4>2, RestIs
    <3>4. new = rest
      <4>1. Len(new) = Len(lots)
        <5>1. DOMAIN new = DOMAIN lots
          BY <1>7 DEF SameNumbers
        <5>2. DOMAIN lots = 1..Len(lots)
          BY <1>1
        <5> DEFINE a == Len(new)
                   b == Len(lots)
        <5>3. a \in Nat /\ b \in Nat /\ 1..a = 1..b
          BY <1>1, <1>9, <5>1, <5>2
        <5> HIDE DEF a, b
        <5>4. a = b
          BY <5>3
        <5> QED BY <5>4 DEF a, b
      <4>2. s = Unspent(reached)
        BY <1>2, <2>2 DEF s
      <4>3. LessPieces(new, lots, Unspent(reached), Len(Unspent(reached)))
        BY <1>6, <4>2
      <4>4. reached \in Seq(Piece) /\ Len(reached) <= Len(lots)
            /\ \A a \in 1..Len(reached) : reached[a].lot = lots[a].lot
        BY <3>1
      <4> HIDE DEF new
      <4> QED BY <1>9, <4>1, <4>3, <4>4, ByNumberAsByPlace DEF new
    <3> HIDE DEF rest
    <3>5. ASSUME NEW i \in 1..w PROVE Spent(rest[i])
      <4>1. i \in 1..Len(reached) /\ i <= w /\ i \in 1..Len(lots)
        BY <1>1, <3>1
      <4>2. reached[i].qty = lots[i].qty /\ reached[i].cost = lots[i].cost
        BY <3>1, <3>2, <4>1
      <4>3. lots[i].qty \in Nat /\ lots[i].cost \in Nat
        BY <1>1, <4>1, PiecesAdd, PieceIs
      <4> QED BY <3>3, <4>1, <4>2, <4>3 DEF Spent
    <3>6. w \in 0..Len(rest) /\ left = SubSeq(rest, w + 1, Len(rest))
      BY <1>1, <3>1, <3>2, <3>3
    <3>7. Unspent(left) = Unspent(rest)
      BY <3>3, <3>5, <3>6, FirstSpent
    <3> QED BY <1>2, <2>2, <3>4, <3>7
  <2> QED BY <2>1, <2>2
<1> QED BY <1>6, <1>7, <1>8, <1>10 DEF out, s, fifo

\* A release written down as its quantized breakdown replays to what it left.
LEMMA ReplayIs ==
  ASSUME NEW d \in Nat, NEW p, IsPosition(p, d), Told(p.lots), NEW q \in Nat \ {0}, q <= p.qty
  PROVE  LET fifo     == ReleaseFIFO(p, q)
             pieces   == Quantize(fifo.pieces, q)
             recorded == ReleaseRecorded(p, [qty |-> q, lots |-> pieces])
         IN /\ recorded.ok
            /\ Unspent(recorded.pos.lots) = Unspent(fifo.pos.lots)
            /\ recorded.pos.qty = fifo.pos.qty /\ recorded.pos.cost = fifo.pos.cost
<1> DEFINE fifo == ReleaseFIFO(p, q)
           s == Quantize(fifo.pieces, q)
           o == [qty |-> q, lots |-> s]
           recorded == ReleaseRecorded(p, o)
           out == Taken(p, s)
<1>1. fifo.pieces \in Seq(Piece) /\ LotsUnits(fifo.pieces) = q
  BY ReleaseIs
<1>2. /\ Taken(p, Unspent(fifo.pieces)).ok /\ IsPosition(Taken(p, Unspent(fifo.pieces)).pos, d)
      /\ Taken(p, Unspent(fifo.pieces)).pos.qty = fifo.pos.qty
      /\ Taken(p, Unspent(fifo.pieces)).pos.cost = fifo.pos.cost
      /\ Unspent(Taken(p, Unspent(fifo.pieces)).pos.lots) = Unspent(fifo.pos.lots)
  BY BreakdownLeaves
<1> HIDE DEF fifo
<1>3. s = Unspent(fifo.pieces)
  BY <1>1, QuantizeIs
<1>4. /\ out.ok /\ IsPosition(out.pos, d)
      /\ out.pos.qty = fifo.pos.qty /\ out.pos.cost = fifo.pos.cost
      /\ Unspent(out.pos.lots) = Unspent(fifo.pos.lots)
  <2> HIDE DEF s
  <2> QED BY <1>2, <1>3
<1> HIDE DEF s
<1>5. o.qty = q /\ o.lots = s
  OBVIOUS
<1> HIDE DEF o, out
<1>6. recorded.ok /\ recorded.pos = WithoutSpent(out.pos)
  <2>1. o.qty <= p.qty /\ Taken(p, o.lots).ok
    BY <1>4, <1>5 DEF out
  <2> QED BY <1>5, <2>1, RecordedIs DEF out
<1> HIDE DEF recorded
<1> DEFINE left == WithoutSpent(out.pos)
<1>7. left.lots = Unspent(out.pos.lots) /\ left.qty = out.pos.qty /\ left.cost = out.pos.cost
  <2>1. DOMAIN out.pos = DOMAIN NoPosition
    BY <1>4, SoundIs
  <2> QED BY <2>1, FieldsAre DEF WithoutSpent
<1>8. Unspent(Unspent(out.pos.lots)) = Unspent(out.pos.lots)
  <2>1. out.pos.lots \in Seq(Piece)
    BY <1>4, SoundIs
  <2> QED BY <2>1, UnspentOnce
<1> HIDE DEF left
<1>9. recorded.pos = left
  BY <1>6 DEF left
<1>10. /\ Unspent(recorded.pos.lots) = Unspent(fifo.pos.lots)
       /\ recorded.pos.qty = fifo.pos.qty /\ recorded.pos.cost = fifo.pos.cost
  BY <1>4, <1>7, <1>8, <1>9
<1> QED BY <1>6, <1>10 DEF recorded, o, s, fifo

-----------------------------------------------------------------------------
(* The invariant. *)

\* What a paper holds and gave up is what it brought in less what left; a paper
\* without a position has nothing of either.
Balanced ==
  /\ \A paper \in DOMAIN book :
       /\ IsPosition(book[paper], last)
       /\ book[paper].cost + GivenUp(book[paper].realized) = paid[paper] - sent[paper]
  /\ \A paper \in Papers : paper \notin DOMAIN book => paid[paper] = sent[paper]

\* The numbers of lots that k rows may have given.
NumbersBy(k) == {m \in Int \X Int : m[1] \in (-k..k) \ {0}}

\* No two lots of a position have one number.
Apart == \A paper \in DOMAIN book : NumberedBy(book[paper].lots, NumbersBy(n))

Books ==
  /\ n \in 0..MaxOps /\ last \in Nat \ {0}
  /\ paid \in [Papers -> Nat] /\ sent \in [Papers -> Nat] /\ DOMAIN book \subseteq Papers
  /\ Balanced /\ Apart

LEMMA BooksInit == Init => Books
<1> SUFFICES ASSUME Init PROVE Books
  OBVIOUS
<1>1. MaxOps \in Nat
  BY FoldAssumption
<1>2. DOMAIN book = {}
  BY DEF Init
<1>3. paid \in [Papers -> Nat] /\ sent \in [Papers -> Nat] /\ \A x \in Papers : paid[x] = 0 /\ sent[x] = 0
  BY DEF Init
<1> QED BY <1>1, <1>2, <1>3 DEF Init, Books, Balanced, Apart

\* An accepted entry, with the basis it takes out written to sent.
LEMMA EnteredIs ==
  ASSUME Books, NEW o, IsEntry(o), o.paper \in Papers, o.typ \in Departures => o.lots # <<>>,
         BasisTaken(o) \in Nat, Entered(o),
         sent' = [sent EXCEPT ![o.paper] = @ + BasisTaken(o)]
  PROVE  Books'
<1> DEFINE e == AsRow(o)
           f == FoldOne(book, e)
           x == o.paper
<1>1. /\ n < MaxOps /\ o.day >= last /\ f.ok /\ book' = f.pos /\ n' = n + 1 /\ last' = o.day
      /\ paid' = [paid EXCEPT ![x] = @ + BasisBrought(o)]
  BY Zenon DEF Entered
<1>2. /\ n \in 0..MaxOps /\ last \in Nat \ {0}
      /\ paid \in [Papers -> Nat] /\ sent \in [Papers -> Nat] /\ DOMAIN book \subseteq Papers
      /\ \A y \in DOMAIN book :
           /\ IsPosition(book[y], last)
           /\ book[y].cost + GivenUp(book[y].realized) = paid[y] - sent[y]
      /\ \A y \in Papers : y \notin DOMAIN book => paid[y] = sent[y]
      /\ \A y \in DOMAIN book : NumberedBy(book[y].lots, NumbersBy(n))
  BY DEF Books, Balanced, Apart
<1>3. DOMAIN o = {"id", "acct", "typ", "paper", "day", "src", "at", "stamp", "qty", "amount", "fee",
                  "cur", "group", "lots", "ratio", "face", "ext"}
  BY DEF IsEntry, IsRow, Blank
<1>4. /\ DOMAIN e = DOMAIN o /\ e.typ = o.typ /\ e.paper = o.paper /\ e.day = o.day /\ e.qty = o.qty
      /\ e.amount = o.amount /\ e.fee = o.fee /\ e.cur = o.cur /\ e.lots = o.lots
      /\ e.ratio = o.ratio /\ e.face = o.face /\ e.id = n + 1
      /\ e.ext = IF o.ext = 0 THEN 0 ELSE n + 1
  BY <1>3 DEF AsRow
<1> HIDE DEF e
<1>5. Entry(e)
  <2>1. e.id \in Int /\ e.ext \in Int
    BY <1>2, <1>4
  <2>2. IsEntry(e)
    BY <1>4, <2>1 DEF IsEntry, IsRow
  <2> QED BY <2>1, <2>2 DEF Entry
<1>6. BasisBrought(e) = BasisBrought(o) /\ BasisTaken(e) = BasisTaken(o)
  BY <1>4 DEF BasisBrought, BasisTaken
<1> DEFINE d == o.day
<1>7. d \in Nat \ {0} /\ last <= d /\ e.day = d
  BY <1>1, <1>2, <1>4 DEF IsEntry
<1> DEFINE in == BasisBrought(o)
           out == BasisTaken(o)
           r == f.pos
<1> HIDE DEF f, in, out, d
<1>8. /\ in \in Nat
      /\ \/ r = book /\ in = 0 /\ out = 0
         \/ /\ DOMAIN r = DOMAIN book \cup {x}
            /\ \A y \in DOMAIN book \ {x} : r[y] = book[y]
            /\ Reckoned(PositionOf(book, x), r[x], d, in, out)
            /\ Joins(PositionOf(book, x), r[x], e)
  <2>1. e.typ \in Departures => e.lots # <<>>
    BY <1>4
  <2>2. Foldable(book, last, e)
    <3>1. IsBook(book, last)
      BY <1>2 DEF IsBook
    <3>2. last \in Nat /\ last <= e.day /\ FoldOne(book, e).ok
      BY <1>1, <1>2, <1>7 DEF f
    <3> QED BY <1>5, <3>1, <3>2 DEF Foldable
  <2>3. e.paper = x /\ BasisBrought(e) = in /\ BasisTaken(e) = out
    BY <1>4, <1>6 DEF in, out
  <2>4. FoldedInto(book, e, r)
    BY <2>2, FoldOneIs DEF f
  <2> QED BY <1>7, <2>1, <2>3, <2>4, Zenon DEF FoldedInto
<1>9. out \in Nat /\ x \in Papers
  BY DEF out
<1>10. /\ paid' \in [Papers -> Nat] /\ paid'[x] = paid[x] + in
       /\ \A y \in Papers \ {x} : paid'[y] = paid[y]
       /\ sent' \in [Papers -> Nat] /\ sent'[x] = sent[x] + out
       /\ \A y \in Papers \ {x} : sent'[y] = sent[y]
  <2>1. paid' = [paid EXCEPT ![x] = @ + in] /\ sent' = [sent EXCEPT ![x] = @ + out]
    BY <1>1 DEF in, out
  <2> QED BY <1>2, <1>8, <1>9, <2>1, SMTT(30)
<1>11. n' \in 0..MaxOps /\ last' \in Nat \ {0} /\ last' = d /\ book' = r
  <2>1. MaxOps \in Nat
    BY FoldAssumption
  <2> QED BY <1>1, <1>2, <1>7, <2>1 DEF d
<1> HIDE DEF r, x
<1>12. \A M : NumberedBy(M, NumbersBy(n)) => NumberedBy(M, NumbersBy(n'))
  <2>1. NumbersBy(n) \subseteq NumbersBy(n')
    BY <1>1, <1>2 DEF NumbersBy
  <2> QED BY <2>1 DEF NumberedBy
<1>13. /\ LotOrigin(e) # 0 /\ NumbersBy(n) \cap NumbersOf(e) = {}
       /\ NumbersOf(e) \subseteq NumbersBy(n')
  <2>1. LotOrigin(e) \in Int /\ (LotOrigin(e) = n + 1 \/ LotOrigin(e) = -(n + 1))
    BY <1>2, <1>4 DEF LotOrigin
  <2>2. \A m \in NumbersOf(e) : \E s \in Nat : m = <<LotOrigin(e), s>>
    <3>1. LotOrigin(e) # 0
      BY <1>2, <2>1
    <3> QED BY <3>1 DEF NumbersOf, NumbersGiven, LotID
  <2>3. \A m \in NumbersOf(e) : m \in Int \X Int /\ (m[1] = n + 1 \/ m[1] = -(n + 1))
    BY <2>1, <2>2
  <2>4. n \in Nat /\ n' = n + 1
    BY <1>1, <1>2
  <2> HIDE DEF e
  <2> QED BY <2>1, <2>3, <2>4 DEF NumbersBy
<1>14. CASE r = book /\ in = 0 /\ out = 0
  <2>1. \A y \in Papers : paid'[y] = paid[y] /\ sent'[y] = sent[y]
    BY <1>2, <1>9, <1>10, <1>14, SMTT(30)
  <2>2. \A y \in DOMAIN book : IsPosition(book[y], d)
    BY <1>2, <1>7, SoundLater
  <2>3. \A y \in DOMAIN book :
          book[y].cost + GivenUp(book[y].realized) = paid'[y] - sent'[y]
    BY <1>2, <2>1
  <2>4. \A y \in Papers : y \notin DOMAIN book => paid'[y] = sent'[y]
    BY <1>2, <2>1
  <2>5. Apart'
    BY <1>2, <1>11, <1>14, <1>12 DEF Apart
  <2> QED BY <1>2, <1>10, <1>11, <1>14, <2>2, <2>3, <2>4, <2>5 DEF Books, Balanced
<1>15. CASE /\ DOMAIN r = DOMAIN book \cup {x}
            /\ \A y \in DOMAIN book \ {x} : r[y] = book[y]
            /\ Reckoned(PositionOf(book, x), r[x], d, in, out)
            /\ Joins(PositionOf(book, x), r[x], e)
  <2>1. IsPosition(r[x], d) /\ r[x].cost + GivenUp(r[x].realized)
                            = PositionOf(book, x).cost + GivenUp(PositionOf(book, x).realized) + in - out
    BY <1>15 DEF Reckoned
  <2>2. PositionOf(book, x).cost + GivenUp(PositionOf(book, x).realized) = paid[x] - sent[x]
    <3>1. CASE x \in DOMAIN book
      <4>1. PositionOf(book, x) = book[x]
        BY <3>1 DEF PositionOf
      <4> QED BY <1>2, <3>1, <4>1
    <3>2. CASE x \notin DOMAIN book
      <4>1. PositionOf(book, x) = NoPosition /\ paid[x] = sent[x]
        BY <1>2, <1>9, <3>2 DEF PositionOf
      <4>2. paid[x] \in Nat /\ sent[x] \in Nat
        BY <1>2, <1>9
      <4>3. NoPosition.cost = 0 /\ GivenUp(NoPosition.realized) = 0
        BY <1>7, NoPositionIs
      <4> QED BY <4>1, <4>2, <4>3
    <3> QED BY <3>1, <3>2
  <2>3. paid[x] \in Nat /\ sent[x] \in Nat
    BY <1>2, <1>9
  <2>4. r[x].cost + GivenUp(r[x].realized) = paid'[x] - sent'[x]
    <3> DEFINE k == PositionOf(book, x).cost + GivenUp(PositionOf(book, x).realized)
    <3>1. r[x].cost + GivenUp(r[x].realized) = k + in - out /\ k = paid[x] - sent[x]
      BY <2>1, <2>2
    <3> HIDE DEF k
    <3> QED BY <1>8, <1>9, <1>10, <2>3, <3>1
  <2>5. \A y \in DOMAIN r : /\ IsPosition(r[y], d)
                            /\ r[y].cost + GivenUp(r[y].realized) = paid'[y] - sent'[y]
    <3> SUFFICES ASSUME NEW y \in DOMAIN r, y # x
                 PROVE  /\ IsPosition(r[y], d)
                        /\ r[y].cost + GivenUp(r[y].realized) = paid'[y] - sent'[y]
      BY <2>1, <2>4
    <3>1. y \in DOMAIN book /\ r[y] = book[y] /\ y \in Papers
      BY <1>2, <1>15
    <3>2. IsPosition(book[y], last) /\ book[y].cost + GivenUp(book[y].realized) = paid[y] - sent[y]
      BY <1>2, <3>1
    <3>3. IsPosition(book[y], d)
      BY <1>2, <1>7, <3>2, SoundLater
    <3>4. paid'[y] = paid[y] /\ sent'[y] = sent[y]
      BY <1>10, <3>1
    <3> QED BY <3>1, <3>2, <3>3, <3>4
  <2>6. \A y \in Papers : y \notin DOMAIN r => paid'[y] = sent'[y]
    <3> SUFFICES ASSUME NEW y \in Papers, y \notin DOMAIN r PROVE paid'[y] = sent'[y]
      OBVIOUS
    <3>1. y # x /\ y \notin DOMAIN book
      BY <1>15
    <3> QED BY <1>2, <1>10, <3>1
  <2>7. DOMAIN r \subseteq Papers
    BY <1>2, <1>9, <1>15
  <2>8. NumberedBy(PositionOf(book, x).lots, NumbersBy(n))
    <3>1. CASE x \in DOMAIN book
      BY <1>2, <3>1 DEF PositionOf
    <3>2. CASE x \notin DOMAIN book
      BY <3>2, NoneNumbered DEF PositionOf, NoPosition
    <3> QED BY <3>1, <3>2
  <2>9. NumberedBy(r[x].lots, NumbersBy(n'))
    <3>1. NumberedBy(r[x].lots, NumbersBy(n) \cup NumbersOf(e))
      BY <1>15, <1>13, <2>8, Zenon DEF Joins
    <3>2. NumbersBy(n) \subseteq NumbersBy(n')
      BY <1>1, <1>2 DEF NumbersBy
    <3> QED BY <1>13, <3>1, <3>2 DEF NumberedBy
  <2>10. Apart'
    <3>1. \A y \in DOMAIN r : y # x => y \in DOMAIN book /\ r[y] = book[y]
      BY <1>15
    <3> QED BY <1>2, <1>11, <1>12, <2>9, <3>1 DEF Apart
  <2> QED BY <1>10, <1>11, <2>5, <2>6, <2>7, <2>10 DEF Books, Balanced
<1> QED BY <1>8, <1>14, <1>15

LEMMA EnterKeeps == Books /\ Enter => Books'
<1> SUFFICES ASSUME Books, NEW o \in Catalogue, Entered(o), UNCHANGED sent PROVE Books'
  BY Zenon DEF Enter
<1>1. IsEntry(o) /\ o.typ \notin Departures \cup {"spinoff_out"}
  BY FoldAssumption
<1>2. o.paper \in Papers /\ BasisTaken(o) = 0
  BY <1>1 DEF Papers, BasisTaken
<1>3. sent' = [sent EXCEPT ![o.paper] = @ + BasisTaken(o)]
  <2>1. sent \in [Papers -> Nat]
    BY DEF Books
  <2> QED BY <1>2, <2>1
<1>4. o.typ \in Departures => o.lots # <<>>
  BY <1>1
<1>5. BasisTaken(o) \in Nat
  BY <1>2
<1> QED BY <1>1, <1>2, <1>3, <1>4, <1>5, EnteredIs

\* What is written down from the engine's answers is a row.
LEMMA WrittenIs ==
  ASSUME NEW o, DOMAIN o = DOMAIN Blank, o.day \in Nat \ {0}, o.qty \in Int,
         o.lots \in Seq(Piece), o.amount \in Int, o.fee = 0, o.cur = 1, o.ext = 0,
         o.face = 0, o.ratio = <<1, 1>>
  PROVE  IsEntry(o)
<1> DEFINE lots == o.lots
<1>1. lots \in Seq(PieceColumns)
  <2>1. \A y \in Piece : y \in PieceColumns
    BY DEF Piece, PieceColumns
  <2>2. Len(lots) \in Nat /\ DOMAIN lots = 1..Len(lots) /\ \A i \in 1..Len(lots) : lots[i] \in Piece
    BY PiecesAdd
  <2>3. \A i \in 1..Len(lots) : lots[i] \in PieceColumns
    BY <2>1, <2>2
  <2>4. lots \in Seq(Piece)
    OBVIOUS
  <2> HIDE DEF lots
  <2> QED BY <2>2, <2>3, <2>4
<1>2. {o.qty, o.amount, o.cur, o.ext, o.face} \subseteq Int
  OBVIOUS
<1>3. o.fee \in Nat /\ o.ratio \in Int \X (Nat \ {0})
  OBVIOUS
<1>4. IsRow(o)
  BY DEF IsRow
<1> QED BY <1>1, <1>2, <1>3, <1>4 DEF IsEntry

LEMMA DepartKeeps == Books /\ Depart => Books'
<1> SUFFICES ASSUME Books, Depart PROVE Books'
  OBVIOUS
<1> DEFINE lots(paper, q) == Quantize(ReleaseFIFO(book[paper], q).pieces, q)
           row(paper, q) == [Blank EXCEPT !.typ = "transfer_out", !.paper = paper, !.day = last,
                               !.qty = q, !.lots = lots(paper, q), !.amount = LotsCost(lots(paper, q))]
<1>1. PICK paper \in DOMAIN book : \E q \in 1..book[paper].qty :
        /\ Entered(row(paper, q))
        /\ sent' = [sent EXCEPT ![paper] = @ + LotsCost(lots(paper, q))]
  BY Zenon DEF Depart
<1>2. PICK q \in 1..book[paper].qty :
        /\ Entered(row(paper, q))
        /\ sent' = [sent EXCEPT ![paper] = @ + LotsCost(lots(paper, q))]
  BY <1>1
<1> DEFINE s == lots(paper, q)
           o == row(paper, q)
           fifo == ReleaseFIFO(book[paper], q)
<1>3. /\ last \in Nat \ {0} /\ IsPosition(book[paper], last) /\ paper \in Papers
  BY DEF Books, Balanced
<1>4. q \in Nat \ {0} /\ q <= book[paper].qty
  <2>1. book[paper].qty \in Nat
    BY <1>3, SoundIs
  <2> QED BY <2>1
<1>5. fifo.pieces \in Seq(Piece) /\ LotsUnits(fifo.pieces) = q
  <2>1. last \in Nat
    BY <1>3
  <2> QED BY <1>3, <1>4, <2>1, ReleaseIs
<1>6. s \in Seq(Piece) /\ s # <<>>
  <2> DEFINE pieces == fifo.pieces
  <2>1. pieces \in Seq(Piece) /\ LotsUnits(pieces) = q
    BY <1>5
  <2>2. s = Quantize(pieces, q)
    BY Zenon
  <2> HIDE DEF pieces
  <2> QED BY <1>4, <2>1, <2>2, QuantizeIs
<1>7. /\ Entered(o) /\ sent' = [sent EXCEPT ![paper] = @ + LotsCost(s)]
      /\ o = [Blank EXCEPT !.typ = "transfer_out", !.paper = paper, !.day = last,
                !.qty = q, !.lots = s, !.amount = LotsCost(s)]
  BY <1>2, Zenon
<1> HIDE DEF s, o
<1>8. IsEntry(o) /\ o.typ = "transfer_out" /\ o.paper = paper /\ o.lots = s
  <2> DEFINE c == LotsCost(s)
  <2>1. c \in Int /\ q \in Int
    BY <1>4, <1>6, PiecesAdd
  <2>2. o = [Blank EXCEPT !.typ = "transfer_out", !.paper = paper, !.day = last,
               !.qty = q, !.lots = s, !.amount = c]
    BY <1>7
  <2> HIDE DEF c
  <2>3. /\ DOMAIN o = DOMAIN Blank /\ o.typ = "transfer_out" /\ o.paper = paper /\ o.day = last
        /\ o.qty = q /\ o.lots = s /\ o.amount = c /\ o.fee = 0 /\ o.cur = 1 /\ o.ext = 0
        /\ o.face = 0 /\ o.ratio = <<1, 1>>
    BY <2>2 DEF Blank
  <2> QED BY <1>3, <1>6, <2>1, <2>3, WrittenIs
<1>9. LotsCost(s) \in Nat
  BY <1>6, PiecesAdd
<1>10. BasisTaken(o) = LotsCost(s)
  BY <1>8 DEF BasisTaken, Departures
<1> QED BY <1>3, <1>6, <1>7, <1>8, <1>9, <1>10, EnteredIs

LEMMA CarveOutKeeps == Books /\ CarveOut => Books'
<1> SUFFICES ASSUME Books, CarveOut PROVE Books'
  OBVIOUS
<1> DEFINE pieces(paper, share) == SpinoffPieces(book[paper].lots, share)
           row(paper, share) == [Blank EXCEPT !.typ = "spinoff_out", !.paper = paper, !.day = last,
                                   !.lots = pieces(paper, share),
                                   !.amount = LotsCost(pieces(paper, share))]
<1>1. PICK paper \in DOMAIN book, share \in Shares :
        /\ Entered(row(paper, share))
        /\ sent' = [sent EXCEPT ![paper] = @ + LotsCost(pieces(paper, share))]
  BY Zenon DEF CarveOut
<1> DEFINE s == pieces(paper, share)
           o == row(paper, share)
<1>2. /\ last \in Nat \ {0} /\ IsPosition(book[paper], last) /\ paper \in Papers
  BY DEF Books, Balanced
<1>3. share \in 0..DivScale
  BY FoldAssumption
<1>4. s \in Seq(Piece)
  <2>1. book[paper].lots \in Seq(Piece)
    <3>1. last \in Nat
      BY <1>2
    <3> QED BY <1>2, <3>1, SoundIs
  <2> QED BY <1>3, <2>1, SpinoffPiecesIs
<1>5. /\ Entered(o) /\ sent' = [sent EXCEPT ![paper] = @ + LotsCost(s)]
      /\ o = [Blank EXCEPT !.typ = "spinoff_out", !.paper = paper, !.day = last,
                !.lots = s, !.amount = LotsCost(s)]
  BY <1>1, Zenon
<1> HIDE DEF s, o
<1>6. IsEntry(o) /\ o.typ = "spinoff_out" /\ o.paper = paper /\ o.lots = s
  <2> DEFINE c == LotsCost(s)
  <2>1. c \in Int
    BY <1>4, PiecesAdd
  <2>2. o = [Blank EXCEPT !.typ = "spinoff_out", !.paper = paper, !.day = last,
               !.lots = s, !.amount = c]
    BY <1>5
  <2> HIDE DEF c
  <2>3. /\ DOMAIN o = DOMAIN Blank /\ o.typ = "spinoff_out" /\ o.paper = paper /\ o.day = last
        /\ o.qty = 0 /\ o.lots = s /\ o.amount = c /\ o.fee = 0 /\ o.cur = 1 /\ o.ext = 0
        /\ o.face = 0 /\ o.ratio = <<1, 1>>
    BY <2>2 DEF Blank
  <2> QED BY <1>2, <1>4, <2>1, <2>3, WrittenIs
<1>7. LotsCost(s) \in Nat
  BY <1>4, PiecesAdd
<1>8. BasisTaken(o) = LotsCost(s) /\ o.typ \notin Departures
  BY <1>6 DEF BasisTaken, Departures
<1> QED BY <1>2, <1>4, <1>5, <1>6, <1>7, <1>8, EnteredIs

LEMMA BooksStep == Books /\ [Next]_vars => Books'
<1> SUFFICES ASSUME Books, [Next]_vars PROVE Books'
  OBVIOUS
<1>1. CASE UNCHANGED vars
  BY <1>1 DEF vars, Books, Balanced, Apart
<1> QED BY <1>1, EnterKeeps, DepartKeeps, CarveOutKeeps DEF Next

\* The invariant gives what the runs check.
LEMMA BooksGive == Books => NothingLost /\ CarvedExactly
<1> SUFFICES ASSUME Books PROVE NothingLost /\ CarvedExactly
  OBVIOUS
<1>1. /\ last \in Nat /\ \A paper \in DOMAIN book : IsPosition(book[paper], last)
  BY DEF Books, Balanced
<1>2. TypeOK
  <2> SUFFICES ASSUME NEW paper \in DOMAIN book
               PROVE  /\ DOMAIN book[paper] = DOMAIN NoPosition
                      /\ book[paper].qty \in Nat /\ book[paper].cost \in Nat
                      /\ \A i \in DOMAIN book[paper].lots :
                           /\ book[paper].lots[i].qty \in Nat /\ book[paper].lots[i].cost \in Nat
                           /\ book[paper].lots[i].day \in 0..last
    BY DEF TypeOK, Books
  <2> DEFINE p == book[paper]
  <2>1. IsPosition(p, last)
    BY <1>1
  <2> HIDE DEF p
  <2>2. /\ DOMAIN p = DOMAIN NoPosition /\ p.qty \in Nat /\ p.cost \in Nat
        /\ \A i \in DOMAIN p.lots : /\ p.lots[i].qty \in Nat /\ p.lots[i].cost \in Nat
                                    /\ p.lots[i].day \in Nat /\ p.lots[i].day <= last
    BY <1>1, <2>1, SoundIs
  <2> QED BY <1>1, <2>2 DEF p
<1>3. QueueAddsUp
  BY <1>1, SoundIs DEF QueueAddsUp, InOrder
<1>4. CostAccounted
  <2>1. \A p : Given(p) = GivenUp(p.realized)
    BY Zenon DEF Given, GivenUp
  <2> SUFFICES ASSUME NEW paper \in Papers
               PROVE  paid[paper] - sent[paper] =
                        IF paper \in DOMAIN book THEN book[paper].cost + Given(book[paper]) ELSE 0
    BY Zenon DEF CostAccounted
  <2>2. paid[paper] \in Nat /\ sent[paper] \in Nat
    BY DEF Books
  <2>3. CASE paper \in DOMAIN book
    BY <2>1, <2>3 DEF Books, Balanced
  <2>4. CASE paper \notin DOMAIN book
    <3>1. paid[paper] = sent[paper]
      BY <2>4 DEF Books, Balanced
    <3> QED BY <2>2, <2>4, <3>1
  <2> QED BY <2>3, <2>4
<1>5. CarvedExactly
  <2> SUFFICES ASSUME NEW paper \in DOMAIN book, NEW share \in Shares
               PROVE  LET pieces == SpinoffPieces(book[paper].lots, share)
                      IN /\ LotsCost(pieces) = (book[paper].cost * share) \div DivScale
                         /\ \A i \in DOMAIN pieces : pieces[i].cost \in 0..book[paper].lots[i].cost
    BY Zenon DEF CarvedExactly
  <2> DEFINE p == book[paper]
             pieces == SpinoffPieces(p.lots, share)
  <2>1. IsPosition(p, last)
    BY <1>1
  <2>2. share \in 0..DivScale
    BY FoldAssumption
  <2> HIDE DEF p
  <2>3. p.lots \in Seq(Piece) /\ LotsCost(p.lots) = p.cost
    BY <1>1, <2>1, SoundIs
  <2>4. /\ pieces \in Seq(Piece) /\ Len(pieces) = Len(p.lots)
        /\ LotsCost(pieces) = (LotsCost(p.lots) * share) \div DivScale
        /\ \A i \in 1..Len(p.lots) : pieces[i].cost \in 0..p.lots[i].cost
    BY <2>2, <2>3, SpinoffPiecesIs
  <2>5. DOMAIN pieces = 1..Len(p.lots)
    BY <2>4
  <2> QED BY <2>3, <2>4, <2>5 DEF p
<1> QED BY <1>2, <1>3, <1>4, <1>5 DEF NothingLost

LEMMA BooksTakeOldest == Books => OldestFirst
<1> SUFFICES ASSUME Books, NEW paper \in DOMAIN book, NEW q \in 1..book[paper].qty
             PROVE  LET p     == book[paper]
                        r     == ReleaseFIFO(p, q)
                        names == {p.lots[i].lot : i \in DOMAIN p.lots}
                    IN /\ \A lot \in names :
                            UnitsOf(r.pieces, lot) = Cardinality({k \in 1..q : OwnerOf(p.lots, k) = lot})
                       /\ LotsCost(r.pieces) + LotsCost(r.pos.lots) = p.cost
  BY Zenon DEF OldestFirst
<1> DEFINE p == book[paper]
           r == ReleaseFIFO(p, q)
<1>1. last \in Nat /\ IsPosition(p, last)
  BY DEF Books, Balanced
<1>2. p.qty \in Nat /\ p.cost \in Nat
  BY <1>1, SoundIs
<1>3. q \in Nat \ {0} /\ q <= p.qty
  BY <1>2
<1> HIDE DEF p
<1>4. \A lot : UnitsOf(r.pieces, lot) = Cardinality({k \in 1..q : OwnerOf(p.lots, k) = lot})
  BY <1>1, <1>3, ReleaseTakesOldest
<1>5. /\ r.pieces \in Seq(Piece) /\ IsPosition(r.pos, last)
      /\ r.pos.cost = p.cost - LotsCost(r.pieces)
  BY <1>1, <1>3, ReleaseIs
<1> HIDE DEF r
<1>6. LotsCost(r.pos.lots) = r.pos.cost
  BY <1>1, <1>5, SoundIs
<1>7. LotsCost(r.pieces) \in Nat
  BY <1>5, PiecesAdd
<1>8. LotsCost(r.pieces) + LotsCost(r.pos.lots) = p.cost
  BY <1>2, <1>5, <1>6, <1>7
<1> QED BY <1>4, <1>8 DEF p, r

LEMMA BooksReplay == Books => RecordedAsReleased
<1> SUFFICES ASSUME Books, NEW paper \in DOMAIN book, NEW q \in 1..book[paper].qty
             PROVE  LET p        == book[paper]
                        fifo     == ReleaseFIFO(p, q)
                        pieces   == Quantize(fifo.pieces, q)
                        recorded == ReleaseRecorded(p, [qty |-> q, lots |-> pieces])
                    IN /\ recorded.ok
                       /\ Unspent(recorded.pos.lots) = Unspent(fifo.pos.lots)
                       /\ recorded.pos.qty = fifo.pos.qty
                       /\ recorded.pos.cost = fifo.pos.cost
  BY Zenon DEF RecordedAsReleased
<1> DEFINE p == book[paper]
<1>1. last \in Nat /\ IsPosition(p, last) /\ NumberedBy(p.lots, NumbersBy(n))
  BY DEF Books, Balanced, Apart
<1>2. p.qty \in Nat /\ p.lots \in Seq(Piece)
  BY <1>1, SoundIs
<1>3. q \in Nat \ {0} /\ q <= p.qty
  BY <1>2
<1> HIDE DEF p
<1>4. NumbersBy(n) \subseteq (Int \X Int) \ {NoLot}
  BY DEF NumbersBy, NoLot
<1>5. Told(p.lots)
  BY <1>1, <1>2, <1>4 DEF Told, NumberedBy
<1> DEFINE fifo == ReleaseFIFO(p, q)
           recorded == ReleaseRecorded(p, [qty |-> q, lots |-> Quantize(fifo.pieces, q)])
<1>6. /\ recorded.ok
      /\ Unspent(recorded.pos.lots) = Unspent(fifo.pos.lots)
      /\ recorded.pos.qty = fifo.pos.qty /\ recorded.pos.cost = fifo.pos.cost
  BY <1>1, <1>3, <1>5, ReplayIs
<1> HIDE DEF fifo, recorded
<1> QED BY <1>6 DEF recorded, fifo, p

\* Whatever operations an account has and however its lots are truncated, no
\* unit and no cost is lost: a position is what its queue adds up to, in order
\* of acquisition, and the basis brought in is held, was given up by a disposal
\* or left with a parcel (Compute, #60).
THEOREM NothingIsLost == Spec => []NothingLost
<1>1. Init => Books
  BY BooksInit
<1>2. Books /\ [Next]_vars => Books'
  BY BooksStep
<1>3. Books => NothingLost
  BY BooksGive
<1> QED BY <1>1, <1>2, <1>3, PTL DEF Spec

\* Every spin-off carries exactly its share of the basis held, rounded once, and
\* of no lot more than it cost (SpinoffPieces).
THEOREM SharesAreExact == Spec => []CarvedExactly
<1>1. Init => Books
  BY BooksInit
<1>2. Books /\ [Next]_vars => Books'
  BY BooksStep
<1>3. Books => CarvedExactly
  BY BooksGive
<1> QED BY <1>1, <1>2, <1>3, PTL DEF Spec

\* First in, first out, unit by unit: whatever an account's operations, releasing
\* q units takes from each lot the units of it among the q oldest and splits the
\* cost without losing any (releaseFIFO).
THEOREM OldestUnitsFirst == Spec => []OldestFirst
<1>1. Init => Books
  BY BooksInit
<1>2. Books /\ [Next]_vars => Books'
  BY BooksStep
<1>3. Books => OldestFirst
  BY BooksTakeOldest
<1> QED BY <1>1, <1>2, <1>3, PTL DEF Spec

\* A departure written down as its quantized breakdown replays to the queue the
\* release left, whatever the operations before it were and whatever quantity is
\* asked for: no two lots of a position have one number, so each piece finds its
\* lot (quantizeLots, releaseRecorded, #60).
THEOREM DeparturesReplay == Spec => []RecordedAsReleased
<1>1. Init => Books
  BY BooksInit
<1>2. Books /\ [Next]_vars => Books'
  BY BooksStep
<1>3. Books => RecordedAsReleased
  BY BooksReplay
<1> QED BY <1>1, <1>2, <1>3, PTL DEF Spec

=============================================================================
