---------------------------- MODULE LedgerProofs ----------------------------
(***************************************************************************)
(* What the operators of the ledger guarantee, whatever they are given.    *)
(* First the engine: a position is what its lots add up to, and what an    *)
(* operation brings into the basis and takes out of it is what the books   *)
(* show.  Then the deltas of the two doors: the journals of the accounts a *)
(* delta touches fold, with the rows exactly as they are written, and the  *)
(* rows it writes are numbered and stamped by the clocks; and what an      *)
(* import writes: events, each whole or not at all.                        *)
(***************************************************************************)
EXTENDS HandEntries, ImportDelta, FiniteSetTheorems, NaturalsInduction,
        WellFoundedInduction, TLAPS

-----------------------------------------------------------------------------
(* Counting up. *)

\* A set of numbers that is not empty has a least one.
LEMMA SmallestOf ==
  ASSUME NEW T \in SUBSET Nat, T # {}
  PROVE  \E k \in T : \A m \in T : k <= m
<1> DEFINE R == OpToRel(<, Nat)
<1>1. IsWellFoundedOn(R, Nat)
  BY NatLessThanWellFounded
<1>2. \A x, y \in Nat : <<y, x>> \in R <=> y < x
  BY DEF OpToRel
<1> HIDE DEF R
<1>3. PICK k \in T : \A m \in T : ~(<<m, k>> \in R)
  BY <1>1, WFMin
<1>4. \A m \in T : ~(m < k)
  BY <1>2, <1>3
<1> QED BY <1>4

\* What holds at 0 and holds at the next place whenever it holds at a place,
\* holds at every place: G is the set of places where it does.
LEMMA Climbing ==
  ASSUME NEW m \in Nat, NEW G, 0 \in G, \A i \in 1..m : i - 1 \in G => i \in G
  PROVE  \A i \in 0..m : i \in G
<1> DEFINE Bad == {i \in 0..m : i \notin G}
<1>1. SUFFICES ASSUME Bad # {} PROVE FALSE
  OBVIOUS
<1>2. Bad \in SUBSET Nat
  OBVIOUS
<1>3. PICK i \in Bad : \A j \in Bad : i <= j
  BY <1>1, <1>2, SmallestOf
<1>4. i \in 1..m /\ i - 1 \in 0..m /\ ~(i <= i - 1)
  BY <1>3
<1>5. i - 1 \in G
  BY <1>3, <1>4
<1> QED BY <1>3, <1>4, <1>5

\* The walks along a sequence s that the engine's definitions take: v is what
\* the walk has come to before place i.
Onward(walk, s, keep, v, i) ==
  CASE walk = "sum"   -> v + s[i]
    [] walk = "keep"  -> IF i \in keep THEN Append(v, s[i]) ELSE v
    [] walk = "take"  -> IF v.ok THEN TakePiece(v.pos, s[i]) ELSE v
    [] walk = "carve" -> IF v.ok THEN Carved(v.pos, s[i]) ELSE v
    [] walk = "add"   -> IF v.ok THEN Provided(TRUE, AddLot(v.pos, s[i])) ELSE v

Walk(walk, s, keep, first, m, f) ==
  f = [i \in 0..m |-> IF i = 0 THEN first ELSE Onward(walk, s, keep, f[i - 1], i)]

\* Every walk has its places.
LEMMA WalkExists ==
  ASSUME NEW walk, NEW s, NEW keep, NEW first, NEW m \in Nat
  PROVE  \E f : Walk(walk, s, keep, first, m, f)
<1> DEFINE At(f, i) == IF i = 0 THEN first ELSE Onward(walk, s, keep, f[i - 1], i)
           Goes(f, j) == f = [i \in 0..j |-> At(f, i)]
           G == {j \in 0..m : \E f : Goes(f, j)}
<1>1. 0 \in G
  <2> DEFINE f == [i \in 0..0 |-> first]
  <2>1. \A i \in 0..0 : At(f, i) = first
    <3>1. \A i \in 0..0 : i = 0
      OBVIOUS
    <3> QED BY <3>1, Zenon
  <2>2. Goes(f, 0)
    <3> HIDE DEF At
    <3> QED BY <2>1
  <2>3. 0 \in 0..m
    OBVIOUS
  <2> HIDE DEF Goes
  <2> QED BY <2>2, <2>3
<1>2. ASSUME NEW j \in 1..m, j - 1 \in G PROVE j \in G
  <2>1. PICK f : Goes(f, j - 1)
    BY <1>2
  <2> DEFINE g == [i \in 0..j |-> IF i = j THEN At(f, j) ELSE f[i]]
  <2>2. /\ \A i \in 0..(j - 1) : i \in 0..j /\ i # j
        /\ \A i \in 0..j : i = j \/ i \in 0..(j - 1)
        /\ \A i \in 0..j : i # 0 => i - 1 \in 0..(j - 1)
    OBVIOUS
  <2>3. \A i \in 0..(j - 1) : g[i] = f[i]
    BY <2>2, Zenon
  <2>4. \A i \in 0..j : At(g, i) = At(f, i)
    <3>1. ASSUME NEW i \in 0..j PROVE At(g, i) = At(f, i)
      <4>1. CASE i = 0
        BY <4>1, Zenon
      <4>2. CASE i # 0
        <5>1. g[i - 1] = f[i - 1]
          BY <2>2, <2>3, <4>2, Zenon
        <5> HIDE DEF g
        <5> QED BY <5>1, <4>2, Zenon
      <4> QED BY <4>1, <4>2
    <3> HIDE DEF At, g
    <3> QED BY <3>1
  <2>5. \A i \in 0..(j - 1) : f[i] = At(f, i)
    <3> HIDE DEF At
    <3> QED BY <2>1, Zenon
  <2>6. \A i \in 0..j : g[i] = At(g, i)
    <3> HIDE DEF At
    <3>1. \A i \in 0..j : g[i] = IF i = j THEN At(f, j) ELSE f[i]
      BY Zenon
    <3> HIDE DEF g
    <3> QED BY <2>2, <2>4, <2>5, <3>1, Zenon
  <2>7. Goes(g, j)
    <3> HIDE DEF At
    <3>1. g = [i \in 0..j |-> g[i]]
      OBVIOUS
    <3> HIDE DEF g
    <3> QED BY <2>6, <3>1, Zenon
  <2>8. j \in 0..m
    OBVIOUS
  <2> HIDE DEF Goes
  <2> QED BY <2>7, <2>8
<1>3. \A i \in 0..m : i \in G
  <2> HIDE DEF G
  <2> QED BY <1>1, <1>2, Climbing
<1>4. m \in 0..m
  OBVIOUS
<1>5. \E f : Goes(f, m)
  <2> HIDE DEF Goes
  <2> QED BY <1>3, <1>4
<1> QED BY <1>5, Zenon DEF Walk

LEMMA WalkGoes ==
  ASSUME NEW walk, NEW s, NEW keep, NEW first, NEW m \in Nat, NEW f,
         Walk(walk, s, keep, first, m, f)
  PROVE  /\ DOMAIN f = 0..m /\ f[0] = first
         /\ \A i \in 1..m : f[i] = Onward(walk, s, keep, f[i - 1], i)
<1>1. /\ 0 \in 0..m /\ \A i \in 1..m : i \in 0..m /\ i # 0
  OBVIOUS
<1>2. f = [i \in 0..m |-> IF i = 0 THEN first ELSE Onward(walk, s, keep, f[i - 1], i)]
  BY Zenon DEF Walk
<1> QED BY <1>1, <1>2, Zenon

-----------------------------------------------------------------------------
(* Sums. *)

LEMMA PrefixIs ==
  ASSUME NEW s \in Seq(Int)
  PROVE  /\ Prefix(s) \in [0..Len(s) -> Int] /\ Prefix(s)[0] = 0
         /\ \A i \in 1..Len(s) : Prefix(s)[i] = Prefix(s)[i - 1] + s[i]
<1> DEFINE m == Len(s)
           f == Prefix(s)
<1>1. m \in Nat
  OBVIOUS
<1>2. Walk("sum", s, {}, 0, m, f)
  <2> DEFINE K(g) == [i \in 0..m |-> IF i = 0 THEN 0 ELSE g[i - 1] + s[i]]
  <2>1. f = CHOOSE g : g = K(g)
    BY Zenon DEF Prefix
  <2>2. \A g, i : Onward("sum", s, {}, g[i - 1], i) = g[i - 1] + s[i]
    BY Zenon DEF Onward
  <2>3. \A g : Walk("sum", s, {}, 0, m, g) <=> g = K(g)
    BY <2>2, Zenon DEF Walk
  <2>4. \E g : g = K(g)
    <3> HIDE DEF K
    <3> QED BY <1>1, <2>3, WalkExists, Zenon
  <2>5. f = K(f)
    <3> HIDE DEF K, f
    <3> QED BY <2>1, <2>4, Zenon
  <2> HIDE DEF K
  <2> QED BY <2>3, <2>5, Zenon
<1> HIDE DEF f
<1>3. /\ DOMAIN f = 0..m /\ f[0] = 0
      /\ \A i \in 1..m : f[i] = f[i - 1] + s[i]
  <2>1. \A i : Onward("sum", s, {}, f[i - 1], i) = f[i - 1] + s[i]
    BY Zenon DEF Onward
  <2>2. /\ DOMAIN f = 0..m /\ f[0] = 0
        /\ \A i \in 1..m : f[i] = Onward("sum", s, {}, f[i - 1], i)
    BY <1>1, <1>2, WalkGoes
  <2> QED BY <2>1, <2>2, Zenon
<1> DEFINE G == {i \in 0..m : f[i] \in Int}
<1>4. \A i \in 0..m : i \in G
  <2>1. 0 \in G
    BY <1>1, <1>3
  <2>2. ASSUME NEW i \in 1..m, i - 1 \in G PROVE i \in G
    <3>1. s[i] \in Int /\ i \in 0..m
      OBVIOUS
    <3> QED BY <1>3, <2>2, <3>1
  <2> HIDE DEF G, m
  <2> QED BY <1>1, <2>1, <2>2, Climbing
<1>5. f \in [0..m -> Int]
  <2>1. f = [i \in 0..m |-> f[i]]
    BY <1>2, <1>3, Zenon DEF Walk
  <2> QED BY <1>4, <2>1
<1> QED BY <1>3, <1>5, Zenon DEF f

LEMMA TotalIs ==
  ASSUME NEW s \in Seq(Int)
  PROVE  Total(s) \in Int /\ Total(s) = Prefix(s)[Len(s)] /\ (Len(s) = 0 => Total(s) = 0)
BY PrefixIs DEF Total

\* Sequences that agree up to a place have the same sums up to it.
LEMMA SameSums ==
  ASSUME NEW s \in Seq(Int), NEW t \in Seq(Int), NEW k \in Nat, k <= Len(s), k <= Len(t),
         \A i \in 1..k : s[i] = t[i]
  PROVE  \A i \in 0..k : Prefix(s)[i] = Prefix(t)[i]
<1> DEFINE G == {i \in 0..k : Prefix(s)[i] = Prefix(t)[i]}
<1>1. /\ Prefix(s) \in [0..Len(s) -> Int] /\ Prefix(s)[0] = 0
      /\ \A i \in 1..Len(s) : Prefix(s)[i] = Prefix(s)[i - 1] + s[i]
  BY PrefixIs
<1>2. /\ Prefix(t) \in [0..Len(t) -> Int] /\ Prefix(t)[0] = 0
      /\ \A i \in 1..Len(t) : Prefix(t)[i] = Prefix(t)[i - 1] + t[i]
  BY PrefixIs
<1>3. 0 \in G
  BY <1>1, <1>2
<1>4. ASSUME NEW i \in 1..k, i - 1 \in G PROVE i \in G
  BY <1>1, <1>2, <1>4
<1> HIDE DEF G
<1>5. \A i \in 0..k : i \in G
  BY <1>3, <1>4, Climbing
<1> QED BY <1>5 DEF G

\* What follows place k of a sequence adds up to the rest of its sum.
LEMMA LaterSums ==
  ASSUME NEW s \in Seq(Int), NEW t \in Seq(Int), NEW k \in Nat, Len(s) = k + Len(t),
         \A i \in 1..Len(t) : t[i] = s[k + i]
  PROVE  \A i \in 0..Len(t) : Prefix(t)[i] = Prefix(s)[k + i] - Prefix(s)[k]
<1> DEFINE G == {i \in 0..Len(t) : Prefix(t)[i] = Prefix(s)[k + i] - Prefix(s)[k]}
<1>1. /\ Prefix(s) \in [0..Len(s) -> Int] /\ Prefix(s)[0] = 0
      /\ \A i \in 1..Len(s) : Prefix(s)[i] = Prefix(s)[i - 1] + s[i]
  BY PrefixIs
<1>2. /\ Prefix(t) \in [0..Len(t) -> Int] /\ Prefix(t)[0] = 0
      /\ \A i \in 1..Len(t) : Prefix(t)[i] = Prefix(t)[i - 1] + t[i]
  BY PrefixIs
<1>3. 0 \in G
  <2>1. k \in 0..Len(s) /\ k + 0 = k /\ 0 \in 0..Len(t)
    OBVIOUS
  <2>2. Prefix(s)[k] \in Int
    BY <1>1, <2>1
  <2> QED BY <1>2, <2>1, <2>2
<1>4. ASSUME NEW i \in 1..Len(t), i - 1 \in G PROVE i \in G
  <2>1. k + i \in 1..Len(s) /\ (k + i) - 1 = k + (i - 1) /\ k + i \in 0..Len(s)
        /\ k + (i - 1) \in 0..Len(s) /\ k \in 0..Len(s) /\ i - 1 \in 0..Len(t) /\ i \in 0..Len(t)
    BY SMTT(30)
  <2>2. Prefix(s)[k + i] = Prefix(s)[k + (i - 1)] + s[k + i]
    BY <1>1, <2>1
  <2>3. Prefix(t)[i] = Prefix(t)[i - 1] + t[i] /\ t[i] = s[k + i] /\ t[i] \in Int
    BY <1>2
  <2>4. Prefix(t)[i - 1] = Prefix(s)[k + (i - 1)] - Prefix(s)[k]
    BY <1>4
  <2>5. Prefix(s)[k + (i - 1)] \in Int /\ Prefix(s)[k] \in Int
    BY <1>1, <2>1
  <2>6. Prefix(t)[i] = Prefix(s)[k + i] - Prefix(s)[k]
    <3> DEFINE a == Prefix(t)[i]
               b == Prefix(t)[i - 1]
               c == Prefix(s)[k + i]
               d == Prefix(s)[k + (i - 1)]
               e == Prefix(s)[k]
               x == t[i]
    <3>1. a = b + x /\ c = d + x /\ b = d - e /\ d \in Int /\ e \in Int /\ x \in Int
      BY <2>2, <2>3, <2>4, <2>5
    <3> HIDE DEF a, b, c, d, e, x
    <3>2. a = c - e
      BY <3>1
    <3> QED BY <3>2 DEF a, c, e
  <2> QED BY <2>1, <2>6
<1> HIDE DEF G
<1>5. \A i \in 0..Len(t) : i \in G
  <2>1. Len(t) \in Nat
    OBVIOUS
  <2> QED BY <1>3, <1>4, <2>1, Climbing
<1> QED BY <1>5 DEF G

\* Sums of sequences of one length go place by place.
LEMMA SumsDiffer ==
  ASSUME NEW s \in Seq(Int), NEW t \in Seq(Int), NEW u \in Seq(Int),
         Len(t) = Len(s), Len(u) = Len(s), \A i \in 1..Len(s) : u[i] = s[i] - t[i]
  PROVE  \A i \in 0..Len(s) : Prefix(u)[i] = Prefix(s)[i] - Prefix(t)[i]
<1> DEFINE G == {i \in 0..Len(s) : Prefix(u)[i] = Prefix(s)[i] - Prefix(t)[i]}
<1>1. /\ Prefix(s) \in [0..Len(s) -> Int] /\ Prefix(s)[0] = 0
      /\ \A i \in 1..Len(s) : Prefix(s)[i] = Prefix(s)[i - 1] + s[i]
  BY PrefixIs
<1>2. /\ Prefix(t) \in [0..Len(s) -> Int] /\ Prefix(t)[0] = 0
      /\ \A i \in 1..Len(s) : Prefix(t)[i] = Prefix(t)[i - 1] + t[i]
  BY PrefixIs
<1>3. /\ Prefix(u) \in [0..Len(s) -> Int] /\ Prefix(u)[0] = 0
      /\ \A i \in 1..Len(s) : Prefix(u)[i] = Prefix(u)[i - 1] + u[i]
  BY PrefixIs
<1>4. 0 \in G
  BY <1>1, <1>2, <1>3
<1>5. ASSUME NEW i \in 1..Len(s), i - 1 \in G PROVE i \in G
  <2>1. i \in 0..Len(s) /\ i - 1 \in 0..Len(s) /\ s[i] \in Int /\ t[i] \in Int
    OBVIOUS
  <2>2. Prefix(s)[i - 1] \in Int /\ Prefix(t)[i - 1] \in Int
    BY <1>1, <1>2, <2>1
  <2>3. Prefix(u)[i - 1] = Prefix(s)[i - 1] - Prefix(t)[i - 1]
    BY <1>5
  <2>4. /\ Prefix(s)[i] = Prefix(s)[i - 1] + s[i] /\ Prefix(t)[i] = Prefix(t)[i - 1] + t[i]
        /\ Prefix(u)[i] = Prefix(u)[i - 1] + (s[i] - t[i])
    <3>1. u[i] = s[i] - t[i] /\ i \in 1..Len(s)
      OBVIOUS
    <3> QED BY <1>1, <1>2, <1>3, <3>1
  <2>5. Prefix(u)[i] = Prefix(s)[i] - Prefix(t)[i]
    <3> DEFINE a == Prefix(s)[i - 1]
               b == Prefix(t)[i - 1]
    <3>1. /\ a \in Int /\ b \in Int
          /\ Prefix(s)[i] = a + s[i] /\ Prefix(t)[i] = b + t[i]
          /\ Prefix(u)[i] = (a - b) + (s[i] - t[i])
      BY <2>2, <2>3, <2>4
    <3> HIDE DEF a, b
    <3> QED BY <2>1, <3>1, SMTT(30)
  <2> QED BY <2>1, <2>5
<1> HIDE DEF G
<1>6. \A i \in 0..Len(s) : i \in G
  <2>1. Len(s) \in Nat
    OBVIOUS
  <2> QED BY <1>4, <1>5, <2>1, Climbing
<1> QED BY <1>6 DEF G

\* Sums of natural numbers only grow.
LEMMA SumsGrow ==
  ASSUME NEW s \in Seq(Nat)
  PROVE  /\ s \in Seq(Int) /\ \A i \in 0..Len(s) : Prefix(s)[i] \in Nat
         /\ \A i, j \in 0..Len(s) : i <= j => Prefix(s)[i] <= Prefix(s)[j]
         /\ Total(s) \in Nat
<1>1. s \in Seq(Int)
  OBVIOUS
<1>2. /\ Prefix(s) \in [0..Len(s) -> Int] /\ Prefix(s)[0] = 0
      /\ \A i \in 1..Len(s) : Prefix(s)[i] = Prefix(s)[i - 1] + s[i]
  BY <1>1, PrefixIs
<1>3. ASSUME NEW j \in 0..Len(s)
      PROVE  \A i \in 0..j : Prefix(s)[i] <= Prefix(s)[j]
  <2> DEFINE G == {k \in 0..Len(s) : \A i \in 0..k : Prefix(s)[i] <= Prefix(s)[k]}
  <2>1. 0 \in G
    BY <1>2
  <2>2. ASSUME NEW k \in 1..Len(s), k - 1 \in G PROVE k \in G
    <3>1. Prefix(s)[k - 1] <= Prefix(s)[k] /\ k \in 0..Len(s)
      <4>1. Prefix(s)[k] = Prefix(s)[k - 1] + s[k] /\ s[k] \in Nat /\ Prefix(s)[k - 1] \in Int
        <5>1. k \in 1..Len(s) /\ k - 1 \in 0..Len(s) /\ s[k] \in Nat
          OBVIOUS
        <5>2. Prefix(s)[k] = Prefix(s)[k - 1] + s[k]
          BY <1>2, <5>1
        <5>3. Prefix(s)[k - 1] \in Int
          BY <1>2, <5>1
        <5> QED BY <5>1, <5>2, <5>3
      <4> QED BY <4>1
    <3>2. ASSUME NEW i \in 0..k PROVE Prefix(s)[i] <= Prefix(s)[k]
      <4>1. i = k \/ i \in 0..(k - 1)
        OBVIOUS
      <4>2. Prefix(s)[i] \in Int /\ Prefix(s)[k] \in Int /\ Prefix(s)[k - 1] \in Int
        <5>1. i \in 0..Len(s) /\ k \in 0..Len(s) /\ k - 1 \in 0..Len(s)
          OBVIOUS
        <5> QED BY <1>2, <5>1
      <4>3. CASE i \in 0..(k - 1)
        <5>1. Prefix(s)[i] <= Prefix(s)[k - 1]
          BY <2>2, <4>3
        <5> QED BY <3>1, <4>2, <5>1
      <4> QED BY <4>1, <4>2, <4>3
    <3> QED BY <3>1, <3>2
  <2> HIDE DEF G
  <2>3. \A k \in 0..Len(s) : k \in G
    <3>1. Len(s) \in Nat
      OBVIOUS
    <3> QED BY <2>1, <2>2, <3>1, Climbing
  <2> QED BY <2>3 DEF G
<1>4. \A i \in 0..Len(s) : Prefix(s)[i] \in Nat
  <2> SUFFICES ASSUME NEW i \in 0..Len(s) PROVE Prefix(s)[i] \in Nat
    OBVIOUS
  <2>1. 0 \in 0..i /\ Prefix(s)[i] \in Int
    BY <1>2
  <2> QED BY <1>2, <1>3, <2>1
<1>5. \A i, j \in 0..Len(s) : i <= j => Prefix(s)[i] <= Prefix(s)[j]
  <2> SUFFICES ASSUME NEW i \in 0..Len(s), NEW j \in 0..Len(s), i <= j
               PROVE  Prefix(s)[i] <= Prefix(s)[j]
    OBVIOUS
  <2>1. i \in 0..j
    OBVIOUS
  <2> QED BY <1>3, <2>1
<1>6. Len(s) \in 0..Len(s)
  OBVIOUS
<1> QED BY <1>1, <1>4, <1>5, <1>6 DEF Total

-----------------------------------------------------------------------------
(* Pieces of lots. *)

\* A lot, or a piece of one.
Piece == [lot : Int \X Int, qty : Nat, cost : Nat, day : Nat]

\* Acquired in this order.
InOrder(lots) == \A i \in 2..Len(lots) : lots[i - 1].day <= lots[i].day

\* A queue of so many units at such a cost.
Queue(lots, units, cost) ==
  /\ lots \in Seq(Piece) /\ LotsUnits(lots) = units /\ LotsCost(lots) = cost
  /\ InOrder(lots)

\* Lots of different numbers, each of them one of M.
NumberedBy(lots, M) ==
  /\ \A i, j \in DOMAIN lots : lots[i].lot = lots[j].lot => i = j
  /\ \A i \in DOMAIN lots : lots[i].lot \in M

\* The same lots, by number.
SameNumbers(new, old) ==
  DOMAIN new = DOMAIN old /\ \A i \in DOMAIN old : new[i].lot = old[i].lot

\* No other numbers than before, and still apart.
KeepsNumbers(new, old) == \A M : NumberedBy(old, M) => NumberedBy(new, M)

LEMMA SameElements ==
  ASSUME NEW S, NEW s \in Seq(S), NEW t \in Seq(S), Len(s) = Len(t),
         \A i \in 1..Len(s) : s[i] = t[i]
  PROVE  s = t
OBVIOUS

LEMMA PieceIs ==
  ASSUME NEW x \in Piece
  PROVE  /\ x.lot \in Int \X Int /\ x.qty \in Nat /\ x.cost \in Nat /\ x.day \in Nat
         /\ \A q \in Nat : /\ [x EXCEPT !.qty = q] \in Piece
                           /\ [x EXCEPT !.qty = q].lot = x.lot
                           /\ [x EXCEPT !.qty = q].qty = q
                           /\ [x EXCEPT !.qty = q].cost = x.cost
                           /\ [x EXCEPT !.qty = q].day = x.day
         /\ \A c \in Nat : /\ [x EXCEPT !.cost = c] \in Piece
                           /\ [x EXCEPT !.cost = c].lot = x.lot
                           /\ [x EXCEPT !.cost = c].qty = x.qty
                           /\ [x EXCEPT !.cost = c].cost = c
                           /\ [x EXCEPT !.cost = c].day = x.day
         /\ \A q, c \in Nat : /\ [x EXCEPT !.qty = q, !.cost = c] \in Piece
                              /\ [x EXCEPT !.qty = q, !.cost = c].lot = x.lot
                              /\ [x EXCEPT !.qty = q, !.cost = c].qty = q
                              /\ [x EXCEPT !.qty = q, !.cost = c].cost = c
                              /\ [x EXCEPT !.qty = q, !.cost = c].day = x.day
         /\ \A q \in Nat : [x EXCEPT !.lot = <<q, q>>].qty = x.qty
BY DEF Piece

LEMMA PiecesAdd ==
  ASSUME NEW lots \in Seq(Piece)
  PROVE  /\ Len(lots) \in Nat /\ DOMAIN lots = 1..Len(lots)
         /\ \A i \in 1..Len(lots) : lots[i] \in Piece
         /\ Units(lots) \in Seq(Nat) /\ Len(Units(lots)) = Len(lots)
         /\ \A i \in 1..Len(lots) : Units(lots)[i] = lots[i].qty
         /\ Costs(lots) \in Seq(Nat) /\ Len(Costs(lots)) = Len(lots)
         /\ \A i \in 1..Len(lots) : Costs(lots)[i] = lots[i].cost
         /\ LotsUnits(lots) = Prefix(Units(lots))[Len(lots)] /\ LotsUnits(lots) \in Nat
         /\ LotsCost(lots) = Prefix(Costs(lots))[Len(lots)] /\ LotsCost(lots) \in Nat
<1>1. /\ Len(lots) \in Nat /\ DOMAIN lots = 1..Len(lots)
      /\ \A i \in 1..Len(lots) : lots[i] \in Piece
  OBVIOUS
<1>2. /\ Units(lots) \in Seq(Nat) /\ Len(Units(lots)) = Len(lots)
      /\ \A i \in 1..Len(lots) : Units(lots)[i] = lots[i].qty
  BY <1>1 DEF Units, Piece
<1>3. /\ Costs(lots) \in Seq(Nat) /\ Len(Costs(lots)) = Len(lots)
      /\ \A i \in 1..Len(lots) : Costs(lots)[i] = lots[i].cost
  BY <1>1 DEF Costs, Piece
<1>4. /\ LotsUnits(lots) = Prefix(Units(lots))[Len(lots)] /\ LotsUnits(lots) \in Nat
  <2>1. Total(Units(lots)) \in Nat
    BY <1>2, SumsGrow
  <2>2. LotsUnits(lots) = Prefix(Units(lots))[Len(lots)]
    BY <1>2, Zenon DEF LotsUnits, Total
  <2> QED BY <2>1, <2>2, Zenon DEF LotsUnits
<1>5. /\ LotsCost(lots) = Prefix(Costs(lots))[Len(lots)] /\ LotsCost(lots) \in Nat
  <2>1. Total(Costs(lots)) \in Nat
    BY <1>3, SumsGrow
  <2>2. LotsCost(lots) = Prefix(Costs(lots))[Len(lots)]
    BY <1>3, Zenon DEF LotsCost, Total
  <2> QED BY <2>1, <2>2, Zenon DEF LotsCost
<1> QED BY <1>1, <1>2, <1>3, <1>4, <1>5

LEMMA AlikeByNumber ==
  ASSUME NEW old \in Seq(Piece), NEW new \in Seq(Piece), Len(new) = Len(old),
         \A i \in 1..Len(old) : new[i].lot = old[i].lot
  PROVE  SameNumbers(new, old)
<1>1. DOMAIN new = 1..Len(old) /\ DOMAIN old = 1..Len(old)
  BY PiecesAdd
<1> QED BY <1>1 DEF SameNumbers

LEMMA SameKeeps ==
  ASSUME NEW old, NEW new, SameNumbers(new, old)
  PROVE  KeepsNumbers(new, old)
BY DEF SameNumbers, NumberedBy, KeepsNumbers

LEMMA NoneNumbered ==
  ASSUME NEW M
  PROVE  NumberedBy(<<>>, M)
<1>1. DOMAIN <<>> = {}
  OBVIOUS
<1> QED BY <1>1 DEF NumberedBy

\* One more element adds itself.
LEMMA OneMore ==
  ASSUME NEW s \in Seq(Int), NEW x \in Int
  PROVE  Total(Append(s, x)) = Total(s) + x
<1> DEFINE t == Append(s, x)
<1>1. /\ t \in Seq(Int) /\ Len(s) \in Nat /\ Len(t) = Len(s) + 1 /\ t[Len(t)] = x
      /\ \A i \in 1..Len(s) : t[i] = s[i]
  OBVIOUS
<1> HIDE DEF t
<1>2. \A i \in 0..Len(s) : Prefix(s)[i] = Prefix(t)[i]
  <2>1. Len(s) <= Len(s) /\ Len(s) <= Len(t) /\ \A i \in 1..Len(s) : s[i] = t[i]
    BY <1>1
  <2> QED BY <1>1, <2>1, SameSums
<1>3. Prefix(t)[Len(t)] = Prefix(t)[Len(t) - 1] + t[Len(t)]
  <2>1. Len(t) \in 1..Len(t)
    BY <1>1
  <2> QED BY <1>1, <2>1, PrefixIs
<1>4. Len(t) - 1 = Len(s) /\ Len(s) \in 0..Len(s)
  BY <1>1
<1>5. Prefix(t)[Len(t)] = Prefix(s)[Len(s)] + x
  BY <1>1, <1>2, <1>3, <1>4
<1> QED BY <1>5 DEF Total, t

LEMMA OnePieceMore ==
  ASSUME NEW lots \in Seq(Piece), NEW x \in Piece
  PROVE  /\ Append(lots, x) \in Seq(Piece)
         /\ LotsUnits(Append(lots, x)) = LotsUnits(lots) + x.qty
         /\ LotsCost(Append(lots, x)) = LotsCost(lots) + x.cost
<1> DEFINE t == Append(lots, x)
<1>1. /\ t \in Seq(Piece) /\ Len(t) = Len(lots) + 1 /\ t[Len(t)] = x
      /\ \A i \in 1..Len(lots) : t[i] = lots[i]
  OBVIOUS
<1>2. x.qty \in Nat /\ x.cost \in Nat
  BY DEF Piece
<1> HIDE DEF t
<1>3. Units(t) = Append(Units(lots), x.qty)
  <2>1. /\ Units(t) \in Seq(Nat) /\ Len(Units(t)) = Len(t)
        /\ \A i \in 1..Len(t) : Units(t)[i] = t[i].qty
    BY <1>1, PiecesAdd
  <2>2. /\ Units(lots) \in Seq(Nat) /\ Len(Units(lots)) = Len(lots)
        /\ \A i \in 1..Len(lots) : Units(lots)[i] = lots[i].qty
    BY PiecesAdd
  <2> DEFINE c == Append(Units(lots), x.qty)
  <2>3. Len(lots) \in Nat
    OBVIOUS
  <2>4. /\ c \in Seq(Nat) /\ Len(c) = Len(lots) + 1 /\ c[Len(lots) + 1] = x.qty
        /\ \A i \in 1..Len(lots) : c[i] = Units(lots)[i]
    BY <1>2, <2>2
  <2> HIDE DEF c
  <2>5. Len(c) = Len(Units(t)) /\ Len(c) = Len(lots) + 1
    BY <1>1, <2>1, <2>4
  <2>6. \A i \in 1..Len(c) : c[i] = Units(t)[i]
    <3> SUFFICES ASSUME NEW i \in 1..Len(c) PROVE c[i] = Units(t)[i]
      OBVIOUS
    <3>1. i = Len(lots) + 1 \/ i \in 1..Len(lots)
      BY <2>3, <2>5
    <3> QED BY <1>1, <2>1, <2>2, <2>4, <2>5, <3>1, ZenonT(60)
  <2>7. c = Units(t)
    BY <2>1, <2>4, <2>5, <2>6, SameElements
  <2> QED BY <2>7 DEF c
<1>4. Costs(t) = Append(Costs(lots), x.cost)
  <2>1. /\ Costs(t) \in Seq(Nat) /\ Len(Costs(t)) = Len(t)
        /\ \A i \in 1..Len(t) : Costs(t)[i] = t[i].cost
    BY <1>1, PiecesAdd
  <2>2. /\ Costs(lots) \in Seq(Nat) /\ Len(Costs(lots)) = Len(lots)
        /\ \A i \in 1..Len(lots) : Costs(lots)[i] = lots[i].cost
    BY PiecesAdd
  <2> DEFINE c == Append(Costs(lots), x.cost)
  <2>3. Len(lots) \in Nat
    OBVIOUS
  <2>4. /\ c \in Seq(Nat) /\ Len(c) = Len(lots) + 1 /\ c[Len(lots) + 1] = x.cost
        /\ \A i \in 1..Len(lots) : c[i] = Costs(lots)[i]
    BY <1>2, <2>2
  <2> HIDE DEF c
  <2>5. Len(c) = Len(Costs(t)) /\ Len(c) = Len(lots) + 1
    BY <1>1, <2>1, <2>4
  <2>6. \A i \in 1..Len(c) : c[i] = Costs(t)[i]
    <3> SUFFICES ASSUME NEW i \in 1..Len(c) PROVE c[i] = Costs(t)[i]
      OBVIOUS
    <3>1. i = Len(lots) + 1 \/ i \in 1..Len(lots)
      BY <2>3, <2>5
    <3> QED BY <1>1, <2>1, <2>2, <2>4, <2>5, <3>1, ZenonT(60)
  <2>7. c = Costs(t)
    BY <2>1, <2>4, <2>5, <2>6, SameElements
  <2> QED BY <2>7 DEF c
<1>5. Units(lots) \in Seq(Int) /\ Costs(lots) \in Seq(Int)
  BY PiecesAdd, SumsGrow
<1>6. /\ LotsUnits(t) = LotsUnits(lots) + x.qty
      /\ LotsCost(t) = LotsCost(lots) + x.cost
  BY <1>2, <1>3, <1>4, <1>5, OneMore DEF LotsUnits, LotsCost
<1> QED BY <1>1, <1>6 DEF t

LEMMA OrderedFar ==
  ASSUME NEW lots \in Seq(Piece), InOrder(lots), NEW i \in 1..Len(lots), NEW j \in i..Len(lots)
  PROVE  lots[i].day <= lots[j].day
<1> DEFINE m == Len(lots) - i
           G == {k \in 0..m : lots[i].day <= lots[i + k].day}
<1>1. m \in Nat /\ \A k \in 0..m : i + k \in 1..Len(lots)
  OBVIOUS
<1>2. \A k \in 1..Len(lots) : lots[k].day \in Nat
  BY PiecesAdd DEF Piece
<1>3. 0 \in G
  BY <1>1, <1>2
<1>4. ASSUME NEW k \in 1..m, k - 1 \in G PROVE k \in G
  <2>1. i + k \in 2..Len(lots) /\ (i + k) - 1 = i + (k - 1) /\ k \in 0..m
    OBVIOUS
  <2>2. lots[i + (k - 1)].day <= lots[i + k].day
    BY <2>1 DEF InOrder
  <2>3. lots[i].day \in Nat /\ lots[i + k].day \in Nat /\ lots[i + (k - 1)].day \in Nat
    BY <1>2, <2>1
  <2> QED BY <1>4, <2>1, <2>2, <2>3, SMTT(30)
<1> HIDE DEF G, m
<1>5. \A k \in 0..m : k \in G
  BY <1>1, <1>3, <1>4, Climbing
<1>6. j - i \in 0..m /\ i + (j - i) = j
  BY DEF m
<1>7. j - i \in G
  BY <1>5, <1>6
<1>8. lots[i].day <= lots[i + (j - i)].day
  BY <1>7 DEF G
<1> QED BY <1>6, <1>8

\* The walk that keeps some of the elements.
LEMMA OnlyWalks ==
  ASSUME NEW S, NEW s \in Seq(S), NEW keep
  PROVE  \E f : /\ DOMAIN f = 0..Len(s) /\ f[0] = <<>> /\ Only(s, keep) = f[Len(s)]
                /\ \A i \in 1..Len(s) :
                     f[i] = IF i \in keep THEN Append(f[i - 1], s[i]) ELSE f[i - 1]
<1> DEFINE m == Len(s)
           K(g) == [i \in 0..m |-> IF i = 0 THEN <<>>
                                   ELSE IF i \in keep THEN Append(g[i - 1], s[i]) ELSE g[i - 1]]
           f == CHOOSE g : g = K(g)
<1>1. m \in Nat
  OBVIOUS
<1>2. Only(s, keep) = f[m]
  BY Zenon DEF Only
<1>3. \A g, i : Onward("keep", s, keep, g[i - 1], i)
                  = IF i \in keep THEN Append(g[i - 1], s[i]) ELSE g[i - 1]
  BY Zenon DEF Onward
<1>4. \A g : Walk("keep", s, keep, <<>>, m, g) <=> g = K(g)
  BY <1>3, Zenon DEF Walk
<1>5. \E g : g = K(g)
  <2> HIDE DEF K
  <2> QED BY <1>1, <1>4, WalkExists, Zenon
<1>6. f = K(f)
  <2> HIDE DEF K
  <2> QED BY <1>5, Zenon
<1>7. Walk("keep", s, keep, <<>>, m, f)
  <2> HIDE DEF K, f
  <2> QED BY <1>4, <1>6, Zenon
<1> HIDE DEF f, K, m
<1>8. /\ DOMAIN f = 0..m /\ f[0] = <<>>
      /\ \A i \in 1..m : f[i] = Onward("keep", s, keep, f[i - 1], i)
  <2>1. \A g : Walk("keep", s, keep, <<>>, m, g)
          => /\ DOMAIN g = 0..m /\ g[0] = <<>>
             /\ \A i \in 1..m : g[i] = Onward("keep", s, keep, g[i - 1], i)
    BY <1>1, WalkGoes
  <2> QED BY <1>7, <2>1, Zenon
<1>9. /\ DOMAIN f = 0..Len(s) /\ Only(s, keep) = f[Len(s)]
      /\ \A i \in 1..Len(s) : f[i] = Onward("keep", s, keep, f[i - 1], i)
  BY <1>2, <1>8, Zenon DEF m
<1> QED BY <1>3, <1>8, <1>9, ZenonT(60)

\* What is dropped without units or cost takes none along, and what is kept
\* keeps its order.
LEMMA OnlyIs ==
  ASSUME NEW lots \in Seq(Piece), NEW keep
  PROVE  /\ Only(lots, keep) \in Seq(Piece)
         /\ (\A i \in 1..Len(lots) \ keep : lots[i].qty = 0)
              => LotsUnits(Only(lots, keep)) = LotsUnits(lots)
         /\ (\A i \in 1..Len(lots) \ keep : lots[i].cost = 0)
              => LotsCost(Only(lots, keep)) = LotsCost(lots)
         /\ \A j \in 1..Len(Only(lots, keep)) :
              \E i \in 1..Len(lots) : Only(lots, keep)[j] = lots[i]
         /\ InOrder(lots) => InOrder(Only(lots, keep))
<1> DEFINE m == Len(lots)
<1>1. PICK f : /\ DOMAIN f = 0..m /\ f[0] = <<>> /\ Only(lots, keep) = f[m]
               /\ \A i \in 1..m : f[i] = IF i \in keep THEN Append(f[i - 1], lots[i]) ELSE f[i - 1]
  BY OnlyWalks
<1> DEFINE NoUnits == \A i \in 1..m \ keep : lots[i].qty = 0
           NoCosts == \A i \in 1..m \ keep : lots[i].cost = 0
           us == Prefix(Units(lots))
           cs == Prefix(Costs(lots))
           From(i) == \A j \in 1..Len(f[i]) : \E k \in 1..i : f[i][j] = lots[k]
           Good(i) == /\ f[i] \in Seq(Piece) /\ From(i)
                      /\ NoUnits => LotsUnits(f[i]) = us[i]
                      /\ NoCosts => LotsCost(f[i]) = cs[i]
                      /\ InOrder(lots) => InOrder(f[i])
           G == {i \in 0..m : Good(i)}
<1>2. /\ m \in Nat
      /\ \A i \in 1..m : /\ lots[i] \in Piece /\ lots[i].day \in Nat
                         /\ lots[i].qty \in Nat /\ lots[i].cost \in Nat
  BY PiecesAdd, PieceIs
<1>3. /\ us[0] = 0 /\ \A i \in 1..m : us[i] = us[i - 1] + lots[i].qty
      /\ LotsUnits(lots) = us[m]
  <2>1. /\ Units(lots) \in Seq(Int) /\ Len(Units(lots)) = m
        /\ \A i \in 1..m : Units(lots)[i] = lots[i].qty
        /\ LotsUnits(lots) = us[m]
    BY PiecesAdd, SumsGrow
  <2> QED BY <2>1, PrefixIs
<1>4. /\ cs[0] = 0 /\ \A i \in 1..m : cs[i] = cs[i - 1] + lots[i].cost
      /\ LotsCost(lots) = cs[m]
  <2>1. /\ Costs(lots) \in Seq(Int) /\ Len(Costs(lots)) = m
        /\ \A i \in 1..m : Costs(lots)[i] = lots[i].cost
        /\ LotsCost(lots) = cs[m]
    BY PiecesAdd, SumsGrow
  <2> QED BY <2>1, PrefixIs
<1>5. Good(0)
  <2>1. f[0] \in Seq(Piece) /\ Len(f[0]) = 0
    BY <1>1
  <2>2. LotsUnits(f[0]) = 0 /\ LotsCost(f[0]) = 0
    <3>1. /\ Units(f[0]) \in Seq(Int) /\ Costs(f[0]) \in Seq(Int)
          /\ Len(Units(f[0])) = 0 /\ Len(Costs(f[0])) = 0
      BY <2>1, PiecesAdd, SumsGrow
    <3> QED BY <3>1, TotalIs DEF LotsUnits, LotsCost
  <2>3. From(0) /\ InOrder(f[0])
    BY <2>1 DEF InOrder
  <2> QED BY <1>3, <1>4, <2>1, <2>2, <2>3
<1>6. ASSUME NEW i \in 1..m, Good(i - 1) PROVE Good(i)
  <2> DEFINE v == f[i - 1]
             w == f[i]
  <2>1. v \in Seq(Piece) /\ From(i - 1) /\ lots[i] \in Piece /\ 1..(i - 1) \subseteq 1..i
    BY <1>2, <1>6
  <2>2. CASE i \in keep
    <3>1. w = Append(v, lots[i])
      BY <1>1, <2>2
    <3>2. /\ w \in Seq(Piece) /\ LotsUnits(w) = LotsUnits(v) + lots[i].qty
          /\ LotsCost(w) = LotsCost(v) + lots[i].cost
      BY <2>1, <3>1, OnePieceMore
    <3>3. Len(w) = Len(v) + 1 /\ Len(v) \in Nat /\ w[Len(w)] = lots[i] /\ \A j \in 1..Len(v) : w[j] = v[j]
      BY <2>1, <3>1
    <3>4. From(i)
      <4> SUFFICES ASSUME NEW j \in 1..Len(w) PROVE \E k \in 1..i : w[j] = lots[k]
        OBVIOUS
      <4>1. CASE j = Len(w)
        BY <3>3, <4>1
      <4>2. CASE j # Len(w)
        <5>1. j \in 1..Len(v)
          BY <3>3, <4>2
        <5>2. PICK k \in 1..(i - 1) : v[j] = lots[k]
          BY <2>1, <5>1
        <5> QED BY <2>1, <3>3, <5>1, <5>2
      <4> QED BY <4>1, <4>2
    <3>5. ASSUME InOrder(lots) PROVE InOrder(w)
      <4>1. InOrder(v)
        BY <1>6, <3>5
      <4> SUFFICES ASSUME NEW j \in 2..Len(w) PROVE w[j - 1].day <= w[j].day
        BY DEF InOrder
      <4>2. CASE j = Len(w)
        <5>1. j - 1 \in 1..Len(v)
          BY <3>3, <4>2
        <5>2. PICK k \in 1..(i - 1) : v[j - 1] = lots[k]
          BY <2>1, <5>1
        <5>3. k \in 1..Len(lots) /\ i \in k..Len(lots)
          BY <1>2, <5>2
        <5>4. lots[k].day <= lots[i].day
          BY <3>5, <5>3, OrderedFar
        <5> QED BY <3>3, <4>2, <5>1, <5>2, <5>4
      <4>3. CASE j # Len(w)
        <5>1. j \in 2..Len(v) /\ j - 1 \in 1..Len(v) /\ j \in 1..Len(v)
          BY <3>3, <4>3, SMTT(30)
        <5> QED BY <3>3, <4>1, <5>1 DEF InOrder
      <4> QED BY <4>2, <4>3
    <3>6. /\ NoUnits => LotsUnits(w) = us[i]
          /\ NoCosts => LotsCost(w) = cs[i]
      <4> HIDE DEF NoUnits, NoCosts, us, cs, w
      <4> QED BY <1>3, <1>4, <1>6, <3>2
    <3> HIDE DEF NoUnits, NoCosts, us, cs
    <3> QED BY <3>2, <3>4, <3>5, <3>6
  <2>3. CASE i \notin keep
    <3>1. w = v
      BY <1>1, <2>3
    <3>2. From(i)
      <4> SUFFICES ASSUME NEW j \in 1..Len(v) PROVE \E k \in 1..i : v[j] = lots[k]
        BY <3>1
      <4>1. PICK k \in 1..(i - 1) : v[j] = lots[k]
        BY <2>1
      <4> QED BY <2>1, <4>1
    <3>3. NoUnits => LotsUnits(v) = us[i]
      <4> SUFFICES ASSUME NoUnits PROVE LotsUnits(v) = us[i]
        OBVIOUS
      <4>1. lots[i].qty = 0
        BY <2>3
      <4>2. us[i] = us[i - 1] + 0 /\ LotsUnits(v) = us[i - 1]
        BY <1>3, <1>6, <4>1
      <4>3. LotsUnits(v) \in Nat
        BY <2>1, PiecesAdd
      <4> QED BY <4>2, <4>3
    <3>4. NoCosts => LotsCost(v) = cs[i]
      <4> SUFFICES ASSUME NoCosts PROVE LotsCost(v) = cs[i]
        OBVIOUS
      <4>1. lots[i].cost = 0
        BY <2>3
      <4>2. cs[i] = cs[i - 1] + 0 /\ LotsCost(v) = cs[i - 1]
        BY <1>4, <1>6, <4>1
      <4>3. LotsCost(v) \in Nat
        BY <2>1, PiecesAdd
      <4> QED BY <4>2, <4>3
    <3> HIDE DEF NoUnits, NoCosts, us, cs
    <3> QED BY <1>6, <2>1, <3>1, <3>2, <3>3, <3>4
  <2> QED BY <2>2, <2>3
<1> HIDE DEF Good
<1>7. 0 \in G /\ \A i \in 1..m : i - 1 \in G => i \in G
  BY <1>2, <1>5, <1>6
<1>8. \A i \in 0..m : i \in G
  <2> HIDE DEF G, m
  <2> QED BY <1>2, <1>7, Climbing
<1>9. Good(m)
  BY <1>2, <1>8
<1>10. \A j \in 1..Len(f[m]) : \E i \in 1..m : f[m][j] = lots[i]
  BY <1>9 DEF Good
<1> USE DEF Good
<1>11. /\ f[m] \in Seq(Piece) /\ (InOrder(lots) => InOrder(f[m]))
       /\ (NoUnits => LotsUnits(f[m]) = LotsUnits(lots))
       /\ (NoCosts => LotsCost(f[m]) = LotsCost(lots))
  <2> HIDE DEF NoUnits, NoCosts, us, cs, From
  <2> QED BY <1>3, <1>4, <1>9
<1> HIDE DEF Good
<1> QED BY <1>1, <1>10, <1>11

\* The kept elements are those at the places kept, and their numbers stay apart.
LEMMA OnlyKeeps ==
  ASSUME NEW lots \in Seq(Piece), NEW keep
  PROVE  /\ \A j \in 1..Len(Only(lots, keep)) :
              \E i \in 1..Len(lots) : i \in keep /\ Only(lots, keep)[j] = lots[i]
         /\ \A i \in 1..Len(lots) : i \in keep =>
              \E j \in 1..Len(Only(lots, keep)) : Only(lots, keep)[j] = lots[i]
         /\ \A M : NumberedBy(lots, M) => NumberedBy(Only(lots, keep), M)
<1> DEFINE m == Len(lots)
<1>1. PICK f : /\ DOMAIN f = 0..m /\ f[0] = <<>> /\ Only(lots, keep) = f[m]
               /\ \A i \in 1..m : f[i] = IF i \in keep THEN Append(f[i - 1], lots[i]) ELSE f[i - 1]
  BY OnlyWalks
<1> DEFINE Diff == \A i, j \in 1..m : lots[i].lot = lots[j].lot => i = j
           Good(i) == /\ f[i] \in Seq(Piece)
                      /\ \A j \in 1..Len(f[i]) : \E k \in 1..i : k \in keep /\ f[i][j] = lots[k]
                      /\ \A k \in 1..i : k \in keep => \E j \in 1..Len(f[i]) : f[i][j] = lots[k]
                      /\ Diff => \A a, b \in 1..Len(f[i]) : f[i][a].lot = f[i][b].lot => a = b
           G == {i \in 0..m : Good(i)}
<1>2. m \in Nat /\ DOMAIN lots = 1..m /\ \A i \in 1..m : lots[i] \in Piece
  BY PiecesAdd
<1>3. 0 \in G
  <2>1. f[0] \in Seq(Piece) /\ Len(f[0]) = 0
    BY <1>1
  <2> QED BY <1>2, <2>1
<1>4. ASSUME NEW i \in 1..m, i - 1 \in G PROVE i \in G
  <2> DEFINE s == f[i - 1]
             t == f[i]
  <2>1. /\ s \in Seq(Piece) /\ i \in Nat /\ i \in 0..m /\ i - 1 \in Nat
        /\ \A j \in 1..Len(s) : \E k \in 1..(i - 1) : k \in keep /\ s[j] = lots[k]
        /\ \A k \in 1..(i - 1) : k \in keep => \E j \in 1..Len(s) : s[j] = lots[k]
        /\ Diff => \A a, b \in 1..Len(s) : s[a].lot = s[b].lot => a = b
    BY <1>2, <1>4
  <2>2. CASE i \notin keep
    <3>1. t = s
      BY <1>1, <2>2
    <3> HIDE DEF s, t, Diff
    <3>2. t \in Seq(Piece)
      BY <2>1, <3>1
    <3>3. \A j \in 1..Len(t) : \E k \in 1..i : k \in keep /\ t[j] = lots[k]
      BY <2>1, <3>1
    <3>4. \A k \in 1..i : k \in keep => \E j \in 1..Len(t) : t[j] = lots[k]
      <4> SUFFICES ASSUME NEW k \in 1..i, k \in keep PROVE \E j \in 1..Len(t) : t[j] = lots[k]
        OBVIOUS
      <4>1. k \in 1..(i - 1)
        BY <2>1, <2>2
      <4> QED BY <2>1, <3>1, <4>1
    <3>5. Diff => \A a, b \in 1..Len(t) : t[a].lot = t[b].lot => a = b
      BY <2>1, <3>1
    <3> QED BY <2>1, <3>2, <3>3, <3>4, <3>5 DEF t
  <2>3. CASE i \in keep
    <3> DEFINE x == lots[i]
               n == Len(s)
    <3>1. t = Append(s, x)
      BY <1>1, <2>3
    <3>2. x \in Piece
      BY <1>2
    <3> HIDE DEF s, t, Diff, x
    <3>3. /\ t \in Seq(Piece) /\ Len(t) = n + 1 /\ n \in Nat /\ t[n + 1] = x
          /\ \A j \in 1..n : t[j] = s[j]
      BY <2>1, <3>1, <3>2
    <3> HIDE DEF n
    <3>4. \A j \in 1..(n + 1) : j = n + 1 \/ j \in 1..n
      BY <3>3
    <3>5. \A j \in 1..Len(t) : \E k \in 1..i : k \in keep /\ t[j] = lots[k]
      <4> SUFFICES ASSUME NEW j \in 1..(n + 1) PROVE \E k \in 1..i : k \in keep /\ t[j] = lots[k]
        BY <3>3
      <4>1. CASE j = n + 1
        <5>1. t[j] = lots[i] /\ i \in 1..i
          BY <2>1, <3>3, <4>1 DEF x
        <5> QED BY <2>3, <5>1
      <4>2. CASE j \in 1..n
        <5>1. PICK k \in 1..(i - 1) : k \in keep /\ s[j] = lots[k]
          BY <2>1, <4>2 DEF n
        <5>2. k \in 1..i /\ t[j] = lots[k]
          BY <2>1, <3>3, <4>2, <5>1
        <5> QED BY <5>1, <5>2
      <4> QED BY <3>4, <4>1, <4>2
    <3>6. \A k \in 1..i : k \in keep => \E j \in 1..Len(t) : t[j] = lots[k]
      <4> SUFFICES ASSUME NEW k \in 1..i, k \in keep PROVE \E j \in 1..(n + 1) : t[j] = lots[k]
        BY <3>3
      <4>1. CASE k = i
        <5>1. n + 1 \in 1..(n + 1) /\ t[n + 1] = lots[k]
          BY <3>3, <4>1 DEF x
        <5> QED BY <5>1
      <4>2. CASE k # i
        <5>1. k \in 1..(i - 1)
          BY <2>1, <4>2
        <5>2. PICK j \in 1..n : s[j] = lots[k]
          BY <2>1, <5>1 DEF n
        <5>3. j \in 1..(n + 1) /\ t[j] = lots[k]
          BY <3>3, <5>2
        <5> QED BY <5>3
      <4> QED BY <4>1, <4>2
    <3>7. ASSUME Diff PROVE \A a, b \in 1..Len(t) : t[a].lot = t[b].lot => a = b
      <4>1. ASSUME NEW a \in 1..n PROVE t[a].lot # x.lot
        <5>1. PICK k \in 1..(i - 1) : s[a] = lots[k]
          BY <2>1 DEF n
        <5>2. k \in 1..m /\ k # i
          BY <1>2, <2>1
        <5>3. lots[k].lot # lots[i].lot
          BY <3>7, <5>2 DEF Diff
        <5> QED BY <3>3, <5>1, <5>3 DEF x
      <4>2. \A a, b \in 1..n : t[a].lot = t[b].lot => a = b
        BY <2>1, <3>3, <3>7 DEF n
      <4> SUFFICES ASSUME NEW a \in 1..(n + 1), NEW b \in 1..(n + 1), t[a].lot = t[b].lot
                   PROVE  a = b
        BY <3>3
      <4>3. CASE a \in 1..n /\ b \in 1..n
        BY <4>2, <4>3
      <4>4. CASE a = n + 1 /\ b \in 1..n
        BY <3>3, <4>1, <4>4
      <4>5. CASE a \in 1..n /\ b = n + 1
        BY <3>3, <4>1, <4>5
      <4> QED BY <3>4, <4>3, <4>4, <4>5
    <3> QED BY <2>1, <3>3, <3>5, <3>6, <3>7 DEF t
  <2> QED BY <2>2, <2>3
<1>5. m \in G
  <2> HIDE DEF G
  <2>1. \A i \in 0..m : i \in G
    BY <1>2, <1>3, <1>4, Climbing
  <2> QED BY <1>2, <2>1
<1> DEFINE t == Only(lots, keep)
<1>6. Good(m) /\ t = f[m]
  BY <1>1, <1>5
<1> HIDE DEF t
<1>7. /\ t \in Seq(Piece)
      /\ \A j \in 1..Len(t) : \E k \in 1..m : k \in keep /\ t[j] = lots[k]
      /\ \A k \in 1..m : k \in keep => \E j \in 1..Len(t) : t[j] = lots[k]
      /\ Diff => \A a, b \in 1..Len(t) : t[a].lot = t[b].lot => a = b
  BY <1>6, Zenon
<1>8. ASSUME NEW M, NumberedBy(lots, M) PROVE NumberedBy(t, M)
  <2>1. Diff /\ \A i \in 1..m : lots[i].lot \in M
    BY <1>2, <1>8 DEF NumberedBy
  <2>2. DOMAIN t = 1..Len(t)
    BY <1>7
  <2>3. \A j \in 1..Len(t) : t[j].lot \in M
    BY <1>7, <2>1
  <2> HIDE DEF Diff
  <2> QED BY <1>7, <2>1, <2>2, <2>3 DEF NumberedBy
<1> QED BY <1>7, <1>8 DEF t, m

\* Places that are taken with every place before them are the first ones.
LEMMA FirstOnes ==
  ASSUME NEW m \in Nat, NEW S \in SUBSET (1..m), \A i \in S : \A j \in 1..i : j \in S
  PROVE  /\ Cardinality(S) \in 0..m /\ S = 1..Cardinality(S)
<1> DEFINE Free == {i \in 1..(m + 1) : i \notin S}
<1>1. Free \in SUBSET Nat /\ Free # {}
  <2>1. m + 1 \in Free
    OBVIOUS
  <2> QED BY <2>1
<1>2. PICK k \in Free : \A i \in Free : k <= i
  BY <1>1, SmallestOf
<1>3. \A i \in 1..(k - 1) : i \in S
  <2> SUFFICES ASSUME NEW i \in 1..(k - 1) PROVE i \in S
    OBVIOUS
  <2>1. i \in 1..(m + 1) /\ ~(k <= i)
    BY <1>2
  <2> QED BY <1>2, <2>1
<1>4. \A i \in S : i \in 1..(k - 1)
  <2> SUFFICES ASSUME NEW i \in S PROVE i < k
    BY <1>2
  <2>1. SUFFICES ASSUME k <= i PROVE FALSE
    BY <1>2
  <2>2. k \in 1..i
    BY <1>2, <2>1
  <2> QED BY <1>2, <2>2
<1>5. S = 1..(k - 1)
  BY <1>3, <1>4
<1>6. k - 1 \in 0..m
  BY <1>2
<1>7. Cardinality(1..(k - 1)) = k - 1
  <2>1. 1 \in Int /\ k - 1 \in Int
    BY <1>6
  <2>2. Cardinality(1..(k - 1)) = IF 1 > k - 1 THEN 0 ELSE (k - 1) - 1 + 1
    BY <2>1, FS_Interval
  <2> QED BY <1>6, <2>2
<1> QED BY <1>5, <1>6, <1>7

\* One sequence after another adds up to both.
LEMMA BothAdd ==
  ASSUME NEW s \in Seq(Int), NEW t \in Seq(Int)
  PROVE  Total(s \o t) = Total(s) + Total(t)
<1> DEFINE u == s \o t
<1>1. /\ u \in Seq(Int) /\ Len(u) = Len(s) + Len(t) /\ Len(s) \in Nat /\ Len(t) \in Nat
      /\ \A i \in 1..Len(s) : s[i] = u[i]
      /\ \A i \in 1..Len(t) : t[i] = u[Len(s) + i]
  OBVIOUS
<1> HIDE DEF u
<1>2. \A i \in 0..Len(s) : Prefix(s)[i] = Prefix(u)[i]
  <2>1. Len(s) <= Len(s) /\ Len(s) <= Len(u)
    BY <1>1
  <2> QED BY <1>1, <2>1, SameSums
<1>3. \A i \in 0..Len(t) : Prefix(t)[i] = Prefix(u)[Len(s) + i] - Prefix(u)[Len(s)]
  BY <1>1, LaterSums
<1>4. Len(s) \in 0..Len(s) /\ Len(t) \in 0..Len(t)
  BY <1>1
<1>5. Total(t) = Total(u) - Total(s)
  <2>1. Total(t) = Prefix(t)[Len(t)] /\ Total(s) = Prefix(s)[Len(s)] /\ Total(u) = Prefix(u)[Len(u)]
    BY <1>1, TotalIs
  <2>2. Prefix(s)[Len(s)] = Prefix(u)[Len(s)]
    BY <1>2, <1>4
  <2>3. Prefix(t)[Len(t)] = Prefix(u)[Len(s) + Len(t)] - Prefix(u)[Len(s)]
    BY <1>3, <1>4
  <2> QED BY <1>1, <2>1, <2>2, <2>3
<1>6. Total(s) \in Int /\ Total(t) \in Int /\ Total(u) \in Int
  BY <1>1, TotalIs
<1>7. Total(u) = Total(s) + Total(t)
  BY <1>5, <1>6
<1> QED BY <1>7 DEF u

LEMMA JoinIs ==
  ASSUME NEW S, NEW s \in Seq(S), NEW t \in Seq(S)
  PROVE  /\ s \o t \in Seq(S) /\ Len(s \o t) = Len(s) + Len(t)
         /\ \A i \in 1..Len(s) : (s \o t)[i] = s[i]
         /\ \A i \in 1..Len(s \o t) : i > Len(s) => (s \o t)[i] = t[i - Len(s)]
OBVIOUS

LEMMA PiecesJoin ==
  ASSUME NEW a \in Seq(Piece), NEW b \in Seq(Piece)
  PROVE  /\ a \o b \in Seq(Piece)
         /\ LotsUnits(a \o b) = LotsUnits(a) + LotsUnits(b)
         /\ LotsCost(a \o b) = LotsCost(a) + LotsCost(b)
<1> DEFINE c == a \o b
<1>1. /\ c \in Seq(Piece) /\ Len(c) = Len(a) + Len(b)
      /\ \A i \in 1..Len(a) : c[i] = a[i]
      /\ \A i \in 1..Len(b) : c[Len(a) + i] = b[i]
  OBVIOUS
<1>2. Units(c) = Units(a) \o Units(b) /\ Costs(c) = Costs(a) \o Costs(b)
  <2>1. \A i \in 1..Len(c) : i \in 1..Len(a) \/ (i > Len(a) /\ i - Len(a) \in 1..Len(b))
    BY <1>1
  <2>2. /\ Len(c) = Len(a) + Len(b) /\ DOMAIN a = 1..Len(a) /\ DOMAIN b = 1..Len(b)
        /\ DOMAIN c = 1..Len(c) /\ Len(a) \in Nat /\ Len(b) \in Nat
    BY <1>1
  <2> DEFINE ua == Units(a)
             ub == Units(b)
             ca == Costs(a)
             cb == Costs(b)
  <2>3. /\ ua \in Seq(Nat) /\ ub \in Seq(Nat) /\ Len(ua) = Len(a) /\ Len(ub) = Len(b)
        /\ Units(c) \in Seq(Nat) /\ Len(Units(c)) = Len(c)
        /\ \A i \in 1..Len(a) : ua[i] = a[i].qty
        /\ \A i \in 1..Len(b) : ub[i] = b[i].qty
        /\ \A i \in 1..Len(c) : Units(c)[i] = c[i].qty
    BY <1>1, PiecesAdd
  <2>4. /\ ca \in Seq(Nat) /\ cb \in Seq(Nat) /\ Len(ca) = Len(a) /\ Len(cb) = Len(b)
        /\ Costs(c) \in Seq(Nat) /\ Len(Costs(c)) = Len(c)
        /\ \A i \in 1..Len(a) : ca[i] = a[i].cost
        /\ \A i \in 1..Len(b) : cb[i] = b[i].cost
        /\ \A i \in 1..Len(c) : Costs(c)[i] = c[i].cost
    BY <1>1, PiecesAdd
  <2> HIDE DEF c, ua, ub, ca, cb
  <2>5. /\ ua \o ub \in Seq(Nat) /\ Len(ua \o ub) = Len(c)
        /\ \A i \in 1..Len(a) : (ua \o ub)[i] = ua[i]
        /\ \A i \in 1..Len(c) : i > Len(a) => (ua \o ub)[i] = ub[i - Len(a)]
    <3>1. /\ ua \o ub \in Seq(Nat) /\ Len(ua \o ub) = Len(ua) + Len(ub)
          /\ \A i \in 1..Len(ua) : (ua \o ub)[i] = ua[i]
          /\ \A i \in 1..Len(ua \o ub) : i > Len(ua) => (ua \o ub)[i] = ub[i - Len(ua)]
      <4>1. ua \in Seq(Nat) /\ ub \in Seq(Nat)
        BY <2>3
      <4> QED BY <4>1, JoinIs
    <3> QED BY <2>2, <2>3, <3>1
  <2>6. /\ ca \o cb \in Seq(Nat) /\ Len(ca \o cb) = Len(c)
        /\ \A i \in 1..Len(a) : (ca \o cb)[i] = ca[i]
        /\ \A i \in 1..Len(c) : i > Len(a) => (ca \o cb)[i] = cb[i - Len(a)]
    <3>1. /\ ca \o cb \in Seq(Nat) /\ Len(ca \o cb) = Len(ca) + Len(cb)
          /\ \A i \in 1..Len(ca) : (ca \o cb)[i] = ca[i]
          /\ \A i \in 1..Len(ca \o cb) : i > Len(ca) => (ca \o cb)[i] = cb[i - Len(ca)]
      <4>1. ca \in Seq(Nat) /\ cb \in Seq(Nat)
        BY <2>4
      <4> QED BY <4>1, JoinIs
    <3> QED BY <2>2, <2>4, <3>1
  <2>7. ASSUME NEW i \in 1..Len(c)
        PROVE  (ua \o ub)[i] = c[i].qty /\ (ca \o cb)[i] = c[i].cost
    <3>1. CASE i \in 1..Len(a)
      BY <1>1, <2>3, <2>4, <2>5, <2>6, <3>1, ZenonT(60)
    <3>2. CASE i > Len(a) /\ i - Len(a) \in 1..Len(b)
      <4>1. Len(a) + (i - Len(a)) = i
        BY <2>2
      <4>2. c[i] = b[i - Len(a)]
        BY <1>1, <3>2, <4>1
      <4> QED BY <2>3, <2>4, <2>5, <2>6, <3>2, <4>2, ZenonT(60)
    <3> QED BY <2>1, <3>1, <3>2
  <2>8. ua \o ub = Units(c)
    <3> HIDE DEF Units
    <3>1. \A i \in 1..Len(ua \o ub) : (ua \o ub)[i] = Units(c)[i]
      BY <2>3, <2>5, <2>7
    <3> QED BY <2>3, <2>5, <3>1, SameElements
  <2>9. ca \o cb = Costs(c)
    <3>1. \A i \in 1..Len(ca \o cb) : (ca \o cb)[i] = Costs(c)[i]
      BY <2>4, <2>6, <2>7
    <3> QED BY <2>4, <2>6, <3>1, SameElements
  <2> QED BY <2>8, <2>9 DEF ua, ub, ca, cb
<1> HIDE DEF c
<1>3. Units(a) \in Seq(Int) /\ Units(b) \in Seq(Int) /\ Costs(a) \in Seq(Int) /\ Costs(b) \in Seq(Int)
  BY PiecesAdd, SumsGrow
<1>4. LotsUnits(c) = LotsUnits(a) + LotsUnits(b) /\ LotsCost(c) = LotsCost(a) + LotsCost(b)
  BY <1>2, <1>3, BothAdd DEF LotsUnits, LotsCost
<1> QED BY <1>1, <1>4 DEF c

\* A sum with one element changed.
LEMMA OneChanged ==
  ASSUME NEW s \in Seq(Int), NEW t \in Seq(Int), Len(t) = Len(s), NEW k \in 1..Len(s),
         \A i \in 1..Len(s) : i # k => t[i] = s[i]
  PROVE  Total(t) = (Total(s) - s[k]) + t[k]
<1> DEFINE By(i) == IF i < k THEN 0 ELSE t[k] - s[k]
           G == {i \in 0..Len(s) : Prefix(t)[i] = Prefix(s)[i] + By(i)}
<1>1. /\ Prefix(s) \in [0..Len(s) -> Int] /\ Prefix(s)[0] = 0
      /\ \A i \in 1..Len(s) : Prefix(s)[i] = Prefix(s)[i - 1] + s[i]
  BY PrefixIs
<1>2. /\ Prefix(t) \in [0..Len(s) -> Int] /\ Prefix(t)[0] = 0
      /\ \A i \in 1..Len(s) : Prefix(t)[i] = Prefix(t)[i - 1] + t[i]
  BY PrefixIs
<1>3. 0 \in G
  BY <1>1, <1>2
<1>4. ASSUME NEW i \in 1..Len(s), i - 1 \in G PROVE i \in G
  <2>1. i \in 0..Len(s) /\ i - 1 \in 0..Len(s) /\ s[i] \in Int /\ t[i] \in Int
        /\ s[k] \in Int /\ t[k] \in Int
    OBVIOUS
  <2>2. Prefix(s)[i - 1] \in Int
    BY <1>1, <2>1
  <2>3. Prefix(t)[i - 1] = Prefix(s)[i - 1] + By(i - 1)
    BY <1>4
  <2>4. Prefix(s)[i] = Prefix(s)[i - 1] + s[i] /\ Prefix(t)[i] = Prefix(t)[i - 1] + t[i]
    BY <1>1, <1>2
  <2>5. Prefix(t)[i] = Prefix(s)[i] + By(i)
    <3> DEFINE a == Prefix(s)[i - 1]
               b == Prefix(s)[i]
               c == Prefix(t)[i - 1]
               d == Prefix(t)[i]
               x == s[i]
               y == t[i]
               u == s[k]
               v == t[k]
    <3>1. /\ a \in Int /\ x \in Int /\ y \in Int /\ u \in Int /\ v \in Int
          /\ b = a + x /\ d = c + y /\ c = a + (IF i - 1 < k THEN 0 ELSE v - u)
          /\ (i # k => x = y) /\ (i = k => x = u /\ y = v) /\ i \in Int /\ k \in Int
      BY <2>1, <2>2, <2>3, <2>4
    <3> HIDE DEF a, b, c, d, x, y, u, v
    <3>2. d = b + (IF i < k THEN 0 ELSE v - u)
      <4>1. CASE i < k
        BY <3>1, <4>1
      <4>2. CASE i = k
        BY <3>1, <4>2
      <4>3. CASE i > k
        BY <3>1, <4>3
      <4> QED BY <3>1, <4>1, <4>2, <4>3
    <3> QED BY <3>2 DEF b, d, u, v
  <2> QED BY <2>1, <2>5
<1> HIDE DEF G
<1>5. \A i \in 0..Len(s) : i \in G
  <2>1. Len(s) \in Nat
    OBVIOUS
  <2> QED BY <1>3, <1>4, <2>1, Climbing
<1>6. Prefix(t)[Len(s)] = Prefix(s)[Len(s)] + (t[k] - s[k])
  <2>1. Len(s) \in 0..Len(s) /\ ~(Len(s) < k)
    OBVIOUS
  <2> QED BY <1>5, <2>1 DEF G
<1>7. Total(s) \in Int /\ s[k] \in Int /\ t[k] \in Int
  BY TotalIs
<1>8. Total(t) = Total(s) + (t[k] - s[k])
  BY <1>6 DEF Total
<1> QED BY <1>7, <1>8

\* Sequences whose elements agree have one sum.
LEMMA SameTotals ==
  ASSUME NEW s \in Seq(Int), NEW t \in Seq(Int), Len(t) = Len(s),
         \A i \in 1..Len(s) : t[i] = s[i]
  PROVE  Total(t) = Total(s)
BY SameElements

LEMMA SameUnits ==
  ASSUME NEW a \in Seq(Piece), NEW b \in Seq(Piece), Len(a) = Len(b),
         \A i \in 1..Len(a) : a[i].qty = b[i].qty
  PROVE  LotsUnits(a) = LotsUnits(b)
<1>1. Units(a) \in Seq(Int) /\ Units(b) \in Seq(Int)
  BY PiecesAdd, SumsGrow
<1>2. /\ Len(Units(a)) = Len(a) /\ \A i \in 1..Len(a) : Units(a)[i] = a[i].qty
      /\ Len(Units(b)) = Len(b) /\ \A i \in 1..Len(b) : Units(b)[i] = b[i].qty
  BY PiecesAdd
<1>3. Len(Units(a)) = Len(Units(b)) /\ \A i \in 1..Len(Units(b)) : Units(a)[i] = Units(b)[i]
  BY <1>2
<1> QED BY <1>1, <1>3, SameTotals DEF LotsUnits

LEMMA SameCosts ==
  ASSUME NEW a \in Seq(Piece), NEW b \in Seq(Piece), Len(a) = Len(b),
         \A i \in 1..Len(a) : a[i].cost = b[i].cost
  PROVE  LotsCost(a) = LotsCost(b)
<1>1. Costs(a) \in Seq(Int) /\ Costs(b) \in Seq(Int)
  BY PiecesAdd, SumsGrow
<1>2. /\ Len(Costs(a)) = Len(a) /\ \A i \in 1..Len(a) : Costs(a)[i] = a[i].cost
      /\ Len(Costs(b)) = Len(b) /\ \A i \in 1..Len(b) : Costs(b)[i] = b[i].cost
  BY PiecesAdd
<1>3. Len(Costs(a)) = Len(Costs(b)) /\ \A i \in 1..Len(Costs(b)) : Costs(a)[i] = Costs(b)[i]
  BY <1>2
<1> QED BY <1>1, <1>3, SameTotals DEF LotsCost

\* Acquisition days that are kept keep the order.
LEMMA SameDays ==
  ASSUME NEW a \in Seq(Piece), NEW b \in Seq(Piece), Len(a) = Len(b),
         \A i \in 1..Len(a) : b[i].day = a[i].day, InOrder(a)
  PROVE  InOrder(b)
BY DEF InOrder

\* A piece taken from one lot leaves the position as much smaller.
LEMMA TakenLots ==
  ASSUME NEW lots \in Seq(Piece), NEW at \in 1..Len(lots), NEW pc,
         pc.qty \in 0..lots[at].qty, pc.cost \in 0..lots[at].cost, InOrder(lots)
  PROVE  LET left == [i \in DOMAIN lots |-> IF i = at THEN Rest(lots[i], pc) ELSE lots[i]]
         IN /\ left \in Seq(Piece) /\ Len(left) = Len(lots) /\ InOrder(left)
            /\ \A i \in 1..Len(lots) : left[i].day = lots[i].day
            /\ SameNumbers(left, lots)
            /\ LotsUnits(left) = LotsUnits(lots) - pc.qty
            /\ LotsCost(left) = LotsCost(lots) - pc.cost
<1> DEFINE left == [i \in DOMAIN lots |-> IF i = at THEN Rest(lots[i], pc) ELSE lots[i]]
           rest == Rest(lots[at], pc)
<1>1. /\ DOMAIN lots = 1..Len(lots) /\ Len(lots) \in Nat
      /\ \A i \in 1..Len(lots) : lots[i] \in Piece
  BY PiecesAdd
<1>2. /\ rest \in Piece /\ rest.day = lots[at].day /\ rest.lot = lots[at].lot
      /\ rest.qty = lots[at].qty - pc.qty /\ rest.cost = lots[at].cost - pc.cost
  <2>1. lots[at] \in Piece
    BY <1>1
  <2>2. lots[at].qty \in Nat /\ lots[at].cost \in Nat
    BY <2>1, PieceIs
  <2> DEFINE q == lots[at].qty - pc.qty
             c == lots[at].cost - pc.cost
  <2>3. q \in Nat /\ c \in Nat
    BY <2>2
  <2>4. rest = [lots[at] EXCEPT !.qty = q, !.cost = c]
    BY <2>1 DEF Rest, Piece
  <2> HIDE DEF q, c, rest
  <2>5. rest \in Piece /\ rest.day = lots[at].day /\ rest.lot = lots[at].lot /\ rest.qty = q /\ rest.cost = c
    <3> DEFINE x == lots[at]
               y == [x EXCEPT !.qty = q, !.cost = c]
    <3>1. x \in Piece
      BY <2>1
    <3> HIDE DEF x
    <3>2. y \in Piece /\ y.lot = x.lot /\ y.qty = q /\ y.cost = c /\ y.day = x.day
      BY <2>3, <3>1 DEF Piece
    <3>3. rest = y
      BY <2>4 DEF x
    <3> HIDE DEF y
    <3> QED BY <3>2, <3>3 DEF x
  <2> QED BY <2>5 DEF q, c
<1> HIDE DEF rest
<1>3. left = [i \in 1..Len(lots) |-> IF i = at THEN rest ELSE lots[i]]
  BY <1>1 DEF rest
<1> HIDE DEF left
<1>4. /\ left \in Seq(Piece) /\ Len(left) = Len(lots) /\ left[at] = rest
      /\ \A i \in 1..Len(lots) : i # at => left[i] = lots[i]
  BY <1>1, <1>2, <1>3
<1>5. \A i \in 1..Len(lots) : left[i].day = lots[i].day
  BY <1>2, <1>4
<1>6. InOrder(left)
  BY <1>4, <1>5, SameDays
<1>7. LotsUnits(left) = LotsUnits(lots) - pc.qty
  <2>1. /\ Units(left) \in Seq(Int) /\ Units(lots) \in Seq(Int)
    BY <1>4, PiecesAdd, SumsGrow
  <2>2. /\ Len(Units(left)) = Len(lots) /\ \A i \in 1..Len(lots) : Units(left)[i] = left[i].qty
        /\ Len(Units(lots)) = Len(lots) /\ \A i \in 1..Len(lots) : Units(lots)[i] = lots[i].qty
    BY <1>4, PiecesAdd
  <2>3. Total(Units(left)) = (Total(Units(lots)) - Units(lots)[at]) + Units(left)[at]
    <3>1. \A i \in 1..Len(lots) : i # at => Units(left)[i] = Units(lots)[i]
      BY <1>4, <2>2
    <3>2. Len(Units(left)) = Len(Units(lots)) /\ at \in 1..Len(Units(lots))
      BY <2>2
    <3> QED BY <2>1, <2>2, <3>1, <3>2, OneChanged
  <2>4. LotsUnits(lots) \in Nat /\ lots[at].qty \in Nat
    BY <1>1, PiecesAdd, PieceIs
  <2>5. LotsUnits(left) = (LotsUnits(lots) - lots[at].qty) + (lots[at].qty - pc.qty)
    BY <1>2, <1>4, <2>2, <2>3 DEF LotsUnits
  <2> QED BY <2>4, <2>5
<1>8. LotsCost(left) = LotsCost(lots) - pc.cost
  <2>1. /\ Costs(left) \in Seq(Int) /\ Costs(lots) \in Seq(Int)
    BY <1>4, PiecesAdd, SumsGrow
  <2>2. /\ Len(Costs(left)) = Len(lots) /\ \A i \in 1..Len(lots) : Costs(left)[i] = left[i].cost
        /\ Len(Costs(lots)) = Len(lots) /\ \A i \in 1..Len(lots) : Costs(lots)[i] = lots[i].cost
    BY <1>4, PiecesAdd
  <2>3. Total(Costs(left)) = (Total(Costs(lots)) - Costs(lots)[at]) + Costs(left)[at]
    <3>1. \A i \in 1..Len(lots) : i # at => Costs(left)[i] = Costs(lots)[i]
      BY <1>4, <2>2
    <3>2. Len(Costs(left)) = Len(Costs(lots)) /\ at \in 1..Len(Costs(lots))
      BY <2>2
    <3> QED BY <2>1, <2>2, <3>1, <3>2, OneChanged
  <2>4. LotsCost(lots) \in Nat /\ lots[at].cost \in Nat
    BY <1>1, PiecesAdd, PieceIs
  <2>5. LotsCost(left) = (LotsCost(lots) - lots[at].cost) + (lots[at].cost - pc.cost)
    BY <1>2, <1>4, <2>2, <2>3 DEF LotsCost
  <2> QED BY <2>4, <2>5
<1>9. SameNumbers(left, lots)
  <2>1. \A i \in 1..Len(lots) : left[i].lot = lots[i].lot
    BY <1>2, <1>4
  <2> QED BY <1>4, <2>1, AlikeByNumber
<1> QED BY <1>4, <1>5, <1>6, <1>7, <1>8, <1>9 DEF left

-----------------------------------------------------------------------------
(* Positions. *)

\* What a disposal writes down.
Realization ==
  [day : Int, cur : Int, fee : Int, proceeds : Int, released : Seq(Piece)]

\* A position that is its queue of lots, none younger than day d.
IsPosition(p, d) ==
  /\ DOMAIN p = DOMAIN NoPosition
  /\ Queue(p.lots, p.qty, p.cost)
  /\ \A i \in 1..Len(p.lots) : p.lots[i].day <= d
  /\ p.realized \in Seq(Realization)
  /\ p.cur \in Int

LEMMA FieldsAre ==
  DOMAIN NoPosition = {"seen", "settled", "cur", "held", "qty", "cost", "lots",
                       "income", "fees", "realized"}
BY DEF NoPosition

\* A lot put among lots in the order of acquisition.
LEMMA LotPutIn ==
  ASSUME NEW lots \in Seq(Piece), InOrder(lots), NEW lot \in Piece, NEW at \in 0..Len(lots),
         \A i \in 1..Len(lots) : i <= at <=> lots[i].day <= lot.day
  PROVE  LET queue == SubSeq(lots, 1, at) \o <<lot>> \o SubSeq(lots, at + 1, Len(lots))
         IN /\ queue \in Seq(Piece) /\ InOrder(queue)
            /\ LotsUnits(queue) = LotsUnits(lots) + lot.qty
            /\ LotsCost(queue) = LotsCost(lots) + lot.cost
            /\ \A i \in 1..Len(queue) :
                 queue[i] = lot \/ \E j \in 1..Len(lots) : queue[i] = lots[j]
            /\ \A M : NumberedBy(lots, M) /\ lot.lot \notin M => NumberedBy(queue, M \cup {lot.lot})
<1> DEFINE m == Len(lots)
           a == SubSeq(lots, 1, at)
           b == SubSeq(lots, at + 1, m)
           front == a \o <<lot>>
           queue == front \o b
<1>1. m \in Nat /\ at \in Nat /\ at <= m /\ \A i \in 1..m : lots[i] \in Piece
  OBVIOUS
<1>2. /\ a \in Seq(Piece) /\ Len(a) = at /\ \A i \in 1..at : a[i] = lots[i]
  BY <1>1
<1>3. /\ b \in Seq(Piece) /\ Len(b) = m - at /\ \A i \in 1..(m - at) : b[i] = lots[at + i]
  BY <1>1
<1>4. <<lot>> \in Seq(Piece) /\ Len(<<lot>>) = 1 /\ <<lot>>[1] = lot
  OBVIOUS
<1> DEFINE one == <<lot>>
<1> HIDE DEF a, b, one, m
<1>5. /\ a \o one \in Seq(Piece) /\ Len(a \o one) = at + 1
      /\ \A i \in 1..at : (a \o one)[i] = lots[i]
      /\ (a \o one)[at + 1] = lot
  BY <1>2, <1>4 DEF one
<1>6. front = a \o one
  BY DEF one
<1> HIDE DEF front
<1>7. /\ queue \in Seq(Piece) /\ Len(queue) = m + 1
      /\ \A i \in 1..(at + 1) : queue[i] = front[i]
      /\ \A i \in 1..(m - at) : queue[(at + 1) + i] = b[i]
  <2>1. front \in Seq(Piece) /\ Len(front) = at + 1
    BY <1>5, <1>6
  <2>2. /\ queue \in Seq(Piece) /\ Len(queue) = Len(front) + Len(b)
        /\ \A i \in 1..Len(front) : queue[i] = front[i]
        /\ \A i \in 1..Len(queue) : i > Len(front) => queue[i] = b[i - Len(front)]
    BY <1>3, <2>1, JoinIs, ZenonT(60)
  <2> HIDE DEF queue
  <2>3. Len(queue) = m + 1
    BY <1>1, <1>3, <2>1, <2>2
  <2>4. ASSUME NEW i \in 1..(m - at) PROVE queue[(at + 1) + i] = b[i]
    <3>1. (at + 1) + i \in 1..(m + 1) /\ (at + 1) + i > at + 1 /\ ((at + 1) + i) - (at + 1) = i
      BY <1>1
    <3> QED BY <2>1, <2>2, <2>3, <3>1
  <2> QED BY <2>1, <2>2, <2>3, <2>4
<1> HIDE DEF queue
<1>8. /\ \A i \in 1..at : queue[i] = lots[i]
      /\ queue[at + 1] = lot
      /\ \A i \in (at + 2)..(m + 1) : queue[i] = lots[i - 1]
  <2> HIDE DEF one
  <2>1. at + 1 \in 1..(at + 1) /\ \A i \in 1..at : i \in 1..(at + 1)
    BY <1>1
  <2>2. \A i \in 1..at : queue[i] = lots[i]
    BY <1>5, <1>6, <1>7, <2>1, Zenon
  <2>3. queue[at + 1] = lot
    BY <1>5, <1>6, <1>7, <2>1, Zenon
  <2>4. ASSUME NEW i \in (at + 2)..(m + 1) PROVE queue[i] = lots[i - 1]
    <3>1. /\ i - (at + 1) \in 1..(m - at) /\ (at + 1) + (i - (at + 1)) = i
          /\ at + (i - (at + 1)) = i - 1
      BY <1>1, SMTT(30)
    <3>2. queue[(at + 1) + (i - (at + 1))] = b[i - (at + 1)]
      BY <1>7, <3>1
    <3>3. b[i - (at + 1)] = lots[at + (i - (at + 1))]
      BY <1>3, <3>1
    <3> QED BY <3>1, <3>2, <3>3
  <2> QED BY <2>2, <2>3, <2>4
<1>9. \A i \in 1..(m + 1) : i \in 1..at \/ i = at + 1 \/ i \in (at + 2)..(m + 1)
  BY <1>1
<1>10. \A i \in 1..Len(queue) : queue[i] = lot \/ \E j \in 1..m : queue[i] = lots[j]
  <2> SUFFICES ASSUME NEW i \in 1..(m + 1)
               PROVE  queue[i] = lot \/ \E j \in 1..m : queue[i] = lots[j]
    BY <1>7
  <2>1. /\ i \in 1..at => i \in 1..m
        /\ i \in (at + 2)..(m + 1) => i - 1 \in 1..m
    BY <1>1 DEF m
  <2> QED BY <1>8, <1>9, <2>1
<1>11. InOrder(queue)
  <2>1. \A i \in 1..m : lots[i].day \in Nat
    BY <1>1 DEF Piece
  <2>2. lot.day \in Nat
    BY DEF Piece
  <2> SUFFICES ASSUME NEW i \in 2..(m + 1) PROVE queue[i - 1].day <= queue[i].day
    BY <1>7 DEF InOrder
  <2>3. CASE i \in 1..at
    <3>1. i - 1 \in 1..at /\ i \in 2..m
      BY <1>1, <2>3 DEF m
    <3> QED BY <1>8, <2>3, <3>1 DEF InOrder, m
  <2>4. CASE i = at + 1
    <3>1. i - 1 \in 1..at /\ i - 1 \in 1..m /\ i - 1 <= at
      BY <1>1, <2>4 DEF m
    <3>2. lots[i - 1].day <= lot.day
      BY <3>1 DEF m
    <3> QED BY <1>8, <2>4, <3>1, <3>2
  <2>5. CASE i = at + 2
    <3>1. i - 1 = at + 1 /\ i \in (at + 2)..(m + 1) /\ i - 1 \in 1..m /\ ~(i - 1 <= at)
      BY <1>1, <2>5 DEF m
    <3>2. ~(lots[i - 1].day <= lot.day)
      BY <3>1 DEF m
    <3>3. queue[i] = lots[i - 1] /\ queue[i - 1] = lot
      BY <1>8, <3>1
    <3> QED BY <2>1, <2>2, <3>1, <3>2, <3>3
  <2>6. CASE i \in (at + 3)..(m + 1)
    <3>1. /\ i - 1 \in (at + 2)..(m + 1) /\ i \in (at + 2)..(m + 1) /\ i - 1 \in 2..m
      BY <1>1, <2>6 DEF m
    <3>2. queue[i] = lots[i - 1] /\ queue[i - 1] = lots[(i - 1) - 1]
      BY <1>8, <3>1
    <3> QED BY <3>1, <3>2 DEF InOrder, m
  <2>7. i \in 1..at \/ i = at + 1 \/ i = at + 2 \/ i \in (at + 3)..(m + 1)
    BY <1>1
  <2> QED BY <2>3, <2>4, <2>5, <2>6, <2>7
<1>12. a \o b = lots
  <2>1. a \o b \in Seq(Piece) /\ Len(a \o b) = m
    <3>1. a \o b \in Seq(Piece) /\ Len(a \o b) = Len(a) + Len(b)
      BY <1>2, <1>3, JoinIs
    <3> QED BY <1>1, <1>2, <1>3, <3>1
  <2>2. \A i \in 1..Len(a \o b) : (a \o b)[i] = lots[i]
    <3> SUFFICES ASSUME NEW i \in 1..m PROVE (a \o b)[i] = lots[i]
      BY <2>1
    <3>1. CASE i <= at
      BY <1>2, <1>3, <3>1
    <3>2. CASE i > at
      <4>1. i - at \in 1..(m - at) /\ at + (i - at) = i
        BY <1>1, <3>2
      <4>2. (a \o b)[i] = b[i - at]
        BY <1>1, <1>2, <1>3, <3>2
      <4> QED BY <1>3, <4>1, <4>2
    <3>3. i <= at \/ i > at
      BY <1>1
    <3> QED BY <3>1, <3>2, <3>3
  <2> QED BY <2>1, <2>2, SameElements DEF m
<1>13. /\ LotsUnits(queue) = LotsUnits(lots) + lot.qty
       /\ LotsCost(queue) = LotsCost(lots) + lot.cost
  <2>1. /\ LotsUnits(front) = LotsUnits(a) + lot.qty /\ LotsCost(front) = LotsCost(a) + lot.cost
        /\ front \in Seq(Piece)
    <3>1. front = Append(a, lot)
      BY <1>2 DEF front, one
    <3> QED BY <1>2, <3>1, OnePieceMore
  <2>2. /\ LotsUnits(queue) = LotsUnits(front) + LotsUnits(b)
        /\ LotsCost(queue) = LotsCost(front) + LotsCost(b)
    BY <1>3, <2>1, PiecesJoin DEF queue
  <2>3. /\ LotsUnits(lots) = LotsUnits(a) + LotsUnits(b)
        /\ LotsCost(lots) = LotsCost(a) + LotsCost(b)
    BY <1>2, <1>3, <1>12, PiecesJoin
  <2>4. /\ LotsUnits(a) \in Nat /\ LotsUnits(b) \in Nat /\ LotsCost(a) \in Nat /\ LotsCost(b) \in Nat
        /\ lot.qty \in Nat /\ lot.cost \in Nat
    BY <1>2, <1>3, PiecesAdd, PieceIs
  <2> QED BY <2>1, <2>2, <2>3, <2>4, SMTT(30)
<1>14. ASSUME NEW M, NumberedBy(lots, M), lot.lot \notin M
       PROVE  NumberedBy(queue, M \cup {lot.lot})
  <2> DEFINE From(i) == IF i <= at THEN i ELSE i - 1
  <2>1. DOMAIN lots = 1..m /\ DOMAIN queue = 1..(m + 1)
    BY <1>7 DEF m
  <2>2. ASSUME NEW i \in 1..(m + 1), i # at + 1
        PROVE  From(i) \in 1..m /\ queue[i] = lots[From(i)]
    <3>1. CASE i \in 1..at
      BY <1>1, <1>8, <3>1
    <3>2. CASE i \in (at + 2)..(m + 1)
      BY <1>1, <1>8, <3>2
    <3> QED BY <1>9, <2>2, <3>1, <3>2
  <2>3. ASSUME NEW i \in 1..(m + 1), NEW j \in 1..(m + 1), i # at + 1, j # at + 1, From(i) = From(j)
        PROVE  i = j
    BY <1>1, <2>3
  <2> HIDE DEF From
  <2>4. /\ \A i, j \in 1..m : lots[i].lot = lots[j].lot => i = j
        /\ \A i \in 1..m : lots[i].lot \in M
    BY <1>14, <2>1 DEF NumberedBy
  <2>5. \A i \in 1..(m + 1) : queue[i].lot \in M \cup {lot.lot}
    BY <1>8, <2>2, <2>4
  <2>6. ASSUME NEW i \in 1..(m + 1), NEW j \in 1..(m + 1), queue[i].lot = queue[j].lot
        PROVE  i = j
    <3>1. CASE i # at + 1 /\ j # at + 1
      BY <2>2, <2>3, <2>4, <2>6, <3>1
    <3>2. CASE i = at + 1 /\ j # at + 1
      BY <1>8, <1>14, <2>2, <2>4, <2>6, <3>2
    <3>3. CASE i # at + 1 /\ j = at + 1
      BY <1>8, <1>14, <2>2, <2>4, <2>6, <3>3
    <3> QED BY <3>1, <3>2, <3>3
  <2> QED BY <2>1, <2>5, <2>6 DEF NumberedBy
<1> QED BY <1>7, <1>10, <1>11, <1>13, <1>14 DEF queue, front, a, b, m

LEMMA AddLotSound ==
  ASSUME NEW d \in Nat, NEW p, IsPosition(p, d), NEW lot \in Piece, lot.day <= d
  PROVE  /\ IsPosition(AddLot(p, lot), d)
         /\ AddLot(p, lot).cost = p.cost + lot.cost
         /\ AddLot(p, lot).realized = p.realized
         /\ \A M : NumberedBy(p.lots, M) /\ lot.lot \notin M
               => NumberedBy(AddLot(p, lot).lots, M \cup {lot.lot})
<1> DEFINE S     == {i \in DOMAIN p.lots : p.lots[i].day <= lot.day}
           at    == Cardinality(S)
           queue == SubSeq(p.lots, 1, at) \o <<lot>> \o SubSeq(p.lots, at + 1, Len(p.lots))
           r     == AddLot(p, lot)
<1>1. /\ DOMAIN p = DOMAIN NoPosition /\ p.lots \in Seq(Piece) /\ InOrder(p.lots)
      /\ LotsUnits(p.lots) = p.qty /\ LotsCost(p.lots) = p.cost
      /\ \A i \in 1..Len(p.lots) : p.lots[i].day <= d
      /\ p.realized \in Seq(Realization) /\ p.cur \in Int
  BY DEF IsPosition, Queue
<1>2. /\ Len(p.lots) \in Nat /\ DOMAIN p.lots = 1..Len(p.lots)
      /\ \A i \in 1..Len(p.lots) : p.lots[i].day \in Nat
      /\ lot.day \in Nat
  BY <1>1, PiecesAdd, PieceIs
<1>3. S \in SUBSET (1..Len(p.lots)) /\ \A i \in S : \A j \in 1..i : j \in S
  <2>1. S \in SUBSET (1..Len(p.lots))
    BY <1>2
  <2>2. ASSUME NEW i \in S, NEW j \in 1..i PROVE j \in S
    <3>1. i \in 1..Len(p.lots) /\ j \in 1..Len(p.lots) /\ i \in j..Len(p.lots)
      BY <2>1
    <3>2. p.lots[j].day <= p.lots[i].day
      BY <1>1, <3>1, OrderedFar
    <3> QED BY <1>2, <3>1, <3>2
  <2> QED BY <2>1, <2>2
<1>4. at \in 0..Len(p.lots) /\ S = 1..at
  <2> HIDE DEF S
  <2> QED BY <1>2, <1>3, FirstOnes
<1>5. \A i \in 1..Len(p.lots) : i <= at <=> p.lots[i].day <= lot.day
  <2>1. \A i \in 1..Len(p.lots) : i \in S <=> p.lots[i].day <= lot.day
    BY <1>2
  <2> HIDE DEF S
  <2> QED BY <1>2, <1>4, <2>1
<1> HIDE DEF at
<1>6. /\ queue \in Seq(Piece) /\ InOrder(queue)
      /\ LotsUnits(queue) = LotsUnits(p.lots) + lot.qty
      /\ LotsCost(queue) = LotsCost(p.lots) + lot.cost
      /\ \A i \in 1..Len(queue) :
           queue[i] = lot \/ \E j \in 1..Len(p.lots) : queue[i] = p.lots[j]
      /\ \A M : NumberedBy(p.lots, M) /\ lot.lot \notin M => NumberedBy(queue, M \cup {lot.lot})
  BY <1>1, <1>4, <1>5, LotPutIn
<1> HIDE DEF queue
<1>7. r = [p EXCEPT !.lots = queue, !.held = TRUE, !.qty = @ + lot.qty, !.cost = @ + lot.cost]
  BY DEF AddLot, queue, at
<1> HIDE DEF r
<1>8. /\ DOMAIN r = DOMAIN NoPosition /\ r.lots = queue /\ r.qty = p.qty + lot.qty
      /\ r.cost = p.cost + lot.cost /\ r.realized = p.realized /\ r.cur = p.cur
  BY <1>1, <1>7, FieldsAre
<1>9. Queue(r.lots, r.qty, r.cost)
  BY <1>1, <1>6, <1>8 DEF Queue
<1>10. \A i \in 1..Len(r.lots) : r.lots[i].day <= d
  BY <1>1, <1>6, <1>8
<1>11. \A M : NumberedBy(p.lots, M) /\ lot.lot \notin M => NumberedBy(r.lots, M \cup {lot.lot})
  BY <1>6, <1>8, Zenon
<1> QED BY <1>1, <1>8, <1>9, <1>10, <1>11 DEF IsPosition, r

-----------------------------------------------------------------------------
(* Breakdowns that arrive and leave. *)

\* The runs of a departure, of a spin-off and of an arrival.
Taken(p, s)   == Run(TakePiece, p, s)
Carried(p, s) == Run(Carved, p, s)
Arrived(p, s) == Run(LAMBDA q, lot : Provided(TRUE, AddLot(q, lot)), p, s)

\* The walk along the pieces of a departing parcel.
LEMMA TakesWalk ==
  ASSUME NEW p, NEW s, NEW m \in Nat, Len(s) = m
  PROVE  \E f : /\ f[0] = [ok |-> TRUE, pos |-> p] /\ Taken(p, s) = f[m]
                /\ \A i \in 1..m :
                     f[i] = IF f[i - 1].ok THEN TakePiece(f[i - 1].pos, s[i]) ELSE f[i - 1]
<1> DEFINE first == Provided(TRUE, p)
           Onto(v, i) == IF v.ok THEN TakePiece(v.pos, s[i]) ELSE v
           K(g) == [i \in 0..m |-> IF i = 0 THEN first ELSE Onto(g[i - 1], i)]
           f == CHOOSE g : g = K(g)
<1>1. Taken(p, s) = f[m]
  BY Zenon DEF Taken, Run, Then
<1>2. \A v, i : Onward("take", s, {}, v, i) = Onto(v, i)
  BY Zenon DEF Onward
<1> HIDE DEF first, Onto
<1>3. \A g : Walk("take", s, {}, first, m, g) <=> g = K(g)
  <2> SUFFICES ASSUME NEW g PROVE Walk("take", s, {}, first, m, g) <=> g = K(g)
    OBVIOUS
  <2> DEFINE Goes == [i \in 0..m |-> IF i = 0 THEN first
                                     ELSE Onward("take", s, {}, g[i - 1], i)]
  <2>1. Goes = K(g)
    BY <1>2, Zenon
  <2> HIDE DEF K
  <2> QED BY <2>1, Zenon DEF Walk
<1>4. \E g : g = K(g)
  <2> HIDE DEF K
  <2> QED BY <1>3, WalkExists, Zenon
<1>5. f = K(f)
  <2> HIDE DEF K
  <2> QED BY <1>4, Zenon
<1>6. Walk("take", s, {}, first, m, f)
  <2> HIDE DEF K, f
  <2> QED BY <1>3, <1>5, Zenon
<1> HIDE DEF f, K
<1>7. /\ f[0] = first
      /\ \A i \in 1..m : f[i] = Onward("take", s, {}, f[i - 1], i)
  <2>1. \A g : Walk("take", s, {}, first, m, g)
          => /\ g[0] = first
             /\ \A i \in 1..m : g[i] = Onward("take", s, {}, g[i - 1], i)
    BY WalkGoes
  <2> QED BY <1>6, <2>1, Zenon
<1>8. first = [ok |-> TRUE, pos |-> p]
  BY DEF first, Provided
<1>9. f[0] = [ok |-> TRUE, pos |-> p] /\ \A i \in 1..m : f[i] = Onto(f[i - 1], i)
  BY <1>2, <1>7, <1>8, Zenon
<1> QED BY <1>1, <1>9, Zenon DEF Onto

\* The walk along the pieces a spin-off carves out.
LEMMA CarvesWalk ==
  ASSUME NEW p, NEW s, NEW m \in Nat, Len(s) = m
  PROVE  \E f : /\ f[0] = [ok |-> TRUE, pos |-> p] /\ Carried(p, s) = f[m]
                /\ \A i \in 1..m :
                     f[i] = IF f[i - 1].ok THEN Carved(f[i - 1].pos, s[i]) ELSE f[i - 1]
<1> DEFINE first == Provided(TRUE, p)
           Onto(v, i) == IF v.ok THEN Carved(v.pos, s[i]) ELSE v
           K(g) == [i \in 0..m |-> IF i = 0 THEN first ELSE Onto(g[i - 1], i)]
           f == CHOOSE g : g = K(g)
<1>1. Carried(p, s) = f[m]
  BY Zenon DEF Carried, Run, Then
<1>2. \A v, i : Onward("carve", s, {}, v, i) = Onto(v, i)
  BY Zenon DEF Onward
<1> HIDE DEF first, Onto
<1>3. \A g : Walk("carve", s, {}, first, m, g) <=> g = K(g)
  <2> SUFFICES ASSUME NEW g PROVE Walk("carve", s, {}, first, m, g) <=> g = K(g)
    OBVIOUS
  <2> DEFINE Goes == [i \in 0..m |-> IF i = 0 THEN first
                                     ELSE Onward("carve", s, {}, g[i - 1], i)]
  <2>1. Goes = K(g)
    BY <1>2, Zenon
  <2> HIDE DEF K
  <2> QED BY <2>1, Zenon DEF Walk
<1>4. \E g : g = K(g)
  <2> HIDE DEF K
  <2> QED BY <1>3, WalkExists, Zenon
<1>5. f = K(f)
  <2> HIDE DEF K
  <2> QED BY <1>4, Zenon
<1>6. Walk("carve", s, {}, first, m, f)
  <2> HIDE DEF K, f
  <2> QED BY <1>3, <1>5, Zenon
<1> HIDE DEF f, K
<1>7. /\ f[0] = first
      /\ \A i \in 1..m : f[i] = Onward("carve", s, {}, f[i - 1], i)
  <2>1. \A g : Walk("carve", s, {}, first, m, g)
          => /\ g[0] = first
             /\ \A i \in 1..m : g[i] = Onward("carve", s, {}, g[i - 1], i)
    BY WalkGoes
  <2> QED BY <1>6, <2>1, Zenon
<1>8. first = [ok |-> TRUE, pos |-> p]
  BY DEF first, Provided
<1>9. f[0] = [ok |-> TRUE, pos |-> p] /\ \A i \in 1..m : f[i] = Onto(f[i - 1], i)
  BY <1>2, <1>7, <1>8, Zenon
<1> QED BY <1>1, <1>9, Zenon DEF Onto

\* The walk along the lots that arrive.
LEMMA ArrivesWalk ==
  ASSUME NEW p, NEW s, NEW m \in Nat, Len(s) = m
  PROVE  \E f : /\ f[0] = [ok |-> TRUE, pos |-> p] /\ Arrived(p, s) = f[m]
                /\ \A i \in 1..m :
                     f[i] = IF f[i - 1].ok THEN [ok |-> TRUE, pos |-> AddLot(f[i - 1].pos, s[i])]
                            ELSE f[i - 1]
<1> DEFINE first == Provided(TRUE, p)
           Onto(v, i) == IF v.ok THEN [ok |-> TRUE, pos |-> AddLot(v.pos, s[i])] ELSE v
           K(g) == [i \in 0..m |-> IF i = 0 THEN first ELSE Onto(g[i - 1], i)]
           f == CHOOSE g : g = K(g)
<1>1. Arrived(p, s) = f[m]
  BY Zenon DEF Arrived, Run, Then, Provided
<1>2. \A v, i : Onward("add", s, {}, v, i) = Onto(v, i)
  BY Zenon DEF Onward, Provided
<1> HIDE DEF first, Onto
<1>3. \A g : Walk("add", s, {}, first, m, g) <=> g = K(g)
  <2> SUFFICES ASSUME NEW g PROVE Walk("add", s, {}, first, m, g) <=> g = K(g)
    OBVIOUS
  <2> DEFINE Goes == [i \in 0..m |-> IF i = 0 THEN first
                                     ELSE Onward("add", s, {}, g[i - 1], i)]
  <2>1. Goes = K(g)
    BY <1>2, Zenon
  <2> HIDE DEF K
  <2> QED BY <2>1, Zenon DEF Walk
<1>4. \E g : g = K(g)
  <2> HIDE DEF K
  <2> QED BY <1>3, WalkExists, Zenon
<1>5. f = K(f)
  <2> HIDE DEF K
  <2> QED BY <1>4, Zenon
<1>6. Walk("add", s, {}, first, m, f)
  <2> HIDE DEF K, f
  <2> QED BY <1>3, <1>5, Zenon
<1> HIDE DEF f, K
<1>7. /\ f[0] = first
      /\ \A i \in 1..m : f[i] = Onward("add", s, {}, f[i - 1], i)
  <2>1. \A g : Walk("add", s, {}, first, m, g)
          => /\ g[0] = first
             /\ \A i \in 1..m : g[i] = Onward("add", s, {}, g[i - 1], i)
    BY WalkGoes
  <2> QED BY <1>6, <2>1, Zenon
<1>8. first = [ok |-> TRUE, pos |-> p]
  BY DEF first, Provided
<1>9. f[0] = [ok |-> TRUE, pos |-> p] /\ \A i \in 1..m : f[i] = Onto(f[i - 1], i)
  BY <1>2, <1>7, <1>8, Zenon
<1> QED BY <1>1, <1>9, Zenon DEF Onto

LEMMA SoundIs ==
  ASSUME NEW d \in Nat, NEW p, IsPosition(p, d)
  PROVE  /\ DOMAIN p = DOMAIN NoPosition /\ p.lots \in Seq(Piece) /\ InOrder(p.lots)
         /\ LotsUnits(p.lots) = p.qty /\ LotsCost(p.lots) = p.cost
         /\ p.qty \in Nat /\ p.cost \in Nat
         /\ Len(p.lots) \in Nat /\ DOMAIN p.lots = 1..Len(p.lots)
         /\ \A i \in 1..Len(p.lots) : /\ p.lots[i] \in Piece /\ p.lots[i].day <= d
                                      /\ p.lots[i].qty \in Nat /\ p.lots[i].cost \in Nat
                                      /\ p.lots[i].day \in Nat
         /\ p.realized \in Seq(Realization) /\ p.cur \in Int
<1>1. /\ DOMAIN p = DOMAIN NoPosition /\ p.lots \in Seq(Piece) /\ InOrder(p.lots)
      /\ LotsUnits(p.lots) = p.qty /\ LotsCost(p.lots) = p.cost
      /\ \A i \in 1..Len(p.lots) : p.lots[i].day <= d
      /\ p.realized \in Seq(Realization) /\ p.cur \in Int
  BY DEF IsPosition, Queue
<1>2. /\ LotsUnits(p.lots) \in Nat /\ LotsCost(p.lots) \in Nat
      /\ Len(p.lots) \in Nat /\ DOMAIN p.lots = 1..Len(p.lots)
      /\ \A i \in 1..Len(p.lots) : p.lots[i] \in Piece
  BY <1>1, PiecesAdd
<1> QED BY <1>1, <1>2, PieceIs

LEMMA TakenFromSound ==
  ASSUME NEW d \in Nat, NEW p, IsPosition(p, d), NEW at \in 1..Len(p.lots), NEW pc,
         pc.qty \in 0..p.lots[at].qty, pc.cost \in 0..p.lots[at].cost
  PROVE  /\ IsPosition(TakenFrom(p, at, pc), d)
         /\ TakenFrom(p, at, pc).cost = p.cost - pc.cost
         /\ TakenFrom(p, at, pc).realized = p.realized
         /\ TakenFrom(p, at, pc).qty = p.qty - pc.qty
         /\ SameNumbers(TakenFrom(p, at, pc).lots, p.lots)
<1> DEFINE left == [i \in DOMAIN p.lots |->
                      IF i = at THEN Rest(p.lots[i], pc) ELSE p.lots[i]]
           r == TakenFrom(p, at, pc)
<1>1. /\ DOMAIN p = DOMAIN NoPosition /\ p.lots \in Seq(Piece) /\ InOrder(p.lots)
      /\ LotsUnits(p.lots) = p.qty /\ LotsCost(p.lots) = p.cost
      /\ \A i \in 1..Len(p.lots) : p.lots[i].day <= d
      /\ p.realized \in Seq(Realization) /\ p.cur \in Int
  BY SoundIs
<1>2. /\ left \in Seq(Piece) /\ Len(left) = Len(p.lots) /\ InOrder(left)
      /\ \A i \in 1..Len(p.lots) : left[i].day = p.lots[i].day
      /\ SameNumbers(left, p.lots)
      /\ LotsUnits(left) = LotsUnits(p.lots) - pc.qty
      /\ LotsCost(left) = LotsCost(p.lots) - pc.cost
  BY <1>1, TakenLots, ZenonT(60)
<1>3. r = [p EXCEPT !.lots = left, !.qty = @ - pc.qty, !.cost = @ - pc.cost]
  BY Zenon DEF TakenFrom
<1> HIDE DEF left, r
<1>4. /\ DOMAIN r = DOMAIN NoPosition /\ r.lots = left /\ r.qty = p.qty - pc.qty
      /\ r.cost = p.cost - pc.cost /\ r.realized = p.realized /\ r.cur = p.cur
  BY <1>1, <1>3, FieldsAre
<1>5. Queue(r.lots, r.qty, r.cost)
  BY <1>1, <1>2, <1>4 DEF Queue
<1>6. \A i \in 1..Len(r.lots) : r.lots[i].day <= d
  BY <1>1, <1>2, <1>4
<1> QED BY <1>1, <1>2, <1>4, <1>5, <1>6 DEF IsPosition, r

\* A named lot is one of the queue.
LEMMA NamedIs ==
  ASSUME NEW p, NEW pc, p.lots \in Seq(Piece)
  PROVE  NamedLot(p, pc) # 0 => NamedLot(p, pc) \in 1..Len(p.lots)
<1> DEFINE at == {i \in DOMAIN p.lots : p.lots[i].lot = pc.lot}
<1>1. at \in SUBSET (1..Len(p.lots))
  BY PiecesAdd
<1>2. ASSUME at # {} PROVE Min(at) \in at
  <2>1. at \in SUBSET Nat
    BY <1>1
  <2>2. \E k \in at : \A j \in at : k <= j
    <3> HIDE DEF at
    <3> QED BY <1>2, <2>1, SmallestOf
  <2> HIDE DEF at
  <2> QED BY <2>2 DEF Min
<1>3. NamedLot(p, pc) = IF at = {} THEN 0 ELSE Min(at)
  BY Zenon DEF NamedLot
<1> HIDE DEF at
<1> QED BY <1>1, <1>2, <1>3

LEMMA TakePieceSound ==
  ASSUME NEW d \in Nat, NEW p, IsPosition(p, d), NEW pc \in Piece, TakePiece(p, pc).ok
  PROVE  LET r == TakePiece(p, pc).pos
         IN /\ IsPosition(r, d) /\ r.cost = p.cost - pc.cost /\ r.realized = p.realized
            /\ r.qty = p.qty - pc.qty
            /\ SameNumbers(r.lots, p.lots)
<1> DEFINE at == NamedLot(p, pc)
           lot == p.lots[at]
           Fits == /\ pc.qty <= lot.qty /\ pc.cost <= lot.cost
                   /\ pc.cost >= LotShare(lot, pc.qty)
           q == TakenFrom(p, at, pc)
<1>1. TakePiece(p, pc) = IF at = 0 THEN [ok |-> FALSE, pos |-> p]
                         ELSE [ok |-> Names(p, pc, at) /\ Fits, pos |-> q]
  BY Zenon DEF TakePiece, Provided
<1> HIDE DEF at, lot, Fits, q
<1>2. at # 0 /\ Fits /\ TakePiece(p, pc).pos = q
  <2>1. CASE at = 0
    <3>1. TakePiece(p, pc).ok = FALSE
      BY <1>1, <2>1
    <3> QED BY <3>1
  <2>2. CASE at # 0
    <3>1. TakePiece(p, pc) = [ok |-> Names(p, pc, at) /\ Fits, pos |-> q]
      BY <1>1, <2>2, Zenon
    <3> DEFINE fits == Names(p, pc, at) /\ Fits
    <3> HIDE DEF fits
    <3>2. TakePiece(p, pc) = [ok |-> fits, pos |-> q]
      BY <3>1, Zenon DEF fits
    <3>3. fits /\ TakePiece(p, pc).pos = q
      BY <3>2
    <3> QED BY <2>2, <3>3 DEF fits
  <2> QED BY <2>1, <2>2
<1>3. p.lots \in Seq(Piece)
  BY SoundIs
<1>4. at \in 1..Len(p.lots)
  BY <1>2, <1>3, NamedIs DEF at
<1>5. lot.qty \in Nat /\ lot.cost \in Nat /\ pc.qty \in Nat /\ pc.cost \in Nat
  <2>1. lot \in Piece
    BY <1>3, <1>4 DEF lot
  <2> QED BY <2>1, PieceIs
<1>6. pc.qty \in 0..lot.qty /\ pc.cost \in 0..lot.cost
  BY <1>2, <1>5 DEF Fits
<1>7. /\ IsPosition(q, d) /\ q.cost = p.cost - pc.cost /\ q.realized = p.realized
      /\ q.qty = p.qty - pc.qty
      /\ SameNumbers(q.lots, p.lots)
  BY <1>4, <1>6, TakenFromSound DEF q, lot
<1> QED BY <1>2, <1>7

LEMMA CarvedSound ==
  ASSUME NEW d \in Nat, NEW p, IsPosition(p, d), NEW pc \in Piece, Carved(p, pc).ok
  PROVE  LET r == Carved(p, pc).pos
         IN /\ IsPosition(r, d) /\ r.cost = p.cost - pc.cost /\ r.realized = p.realized
            /\ SameNumbers(r.lots, p.lots)
<1> DEFINE at == NamedLot(p, pc)
           lot == p.lots[at]
           bare == [pc EXCEPT !.qty = 0]
           q == TakenFrom(p, at, bare)
<1>1. Carved(p, pc) = IF at = 0 THEN [ok |-> pc.lot # NoLot /\ pc.cost = 0, pos |-> p]
                      ELSE [ok |-> Names(p, pc, at) /\ pc.cost <= lot.cost, pos |-> q]
  BY Zenon DEF Carved, Provided
<1>2. bare.qty = 0 /\ bare.cost = pc.cost
  BY DEF Piece
<1> HIDE DEF at, lot, q, bare
<1>3. p.lots \in Seq(Piece) /\ pc.cost \in Nat /\ p.cost \in Nat
  BY SoundIs, PieceIs
<1>4. CASE at = 0
  <2>1. Carved(p, pc) = [ok |-> pc.lot # NoLot /\ pc.cost = 0, pos |-> p]
    BY <1>1, <1>4, Zenon
  <2> DEFINE fits == pc.lot # NoLot /\ pc.cost = 0
  <2> HIDE DEF fits
  <2>2. Carved(p, pc) = [ok |-> fits, pos |-> p]
    BY <2>1, Zenon DEF fits
  <2>3. fits /\ Carved(p, pc).pos = p
    BY <2>2
  <2>4. pc.cost = 0
    BY <2>3 DEF fits
  <2>5. p.cost = p.cost - pc.cost
    BY <1>3, <2>4
  <2>6. SameNumbers(p.lots, p.lots)
    BY Zenon DEF SameNumbers
  <2> QED BY <2>3, <2>5, <2>6
<1>5. CASE at # 0
  <2>1. Carved(p, pc) = [ok |-> Names(p, pc, at) /\ pc.cost <= lot.cost, pos |-> q]
    BY <1>1, <1>5, Zenon
  <2> DEFINE fits == Names(p, pc, at) /\ pc.cost <= lot.cost
  <2> HIDE DEF fits
  <2>2. Carved(p, pc) = [ok |-> fits, pos |-> q]
    BY <2>1, Zenon DEF fits
  <2>3. fits /\ Carved(p, pc).pos = q
    BY <2>2
  <2>4. pc.cost <= lot.cost /\ Carved(p, pc).pos = q
    BY <2>3 DEF fits
  <2>5. at \in 1..Len(p.lots)
    BY <1>3, <1>5, NamedIs DEF at
  <2>6. lot.qty \in Nat /\ lot.cost \in Nat
    <3>1. lot \in Piece
      BY <1>3, <2>5 DEF lot
    <3> QED BY <3>1, PieceIs
  <2>7. bare.qty \in 0..lot.qty /\ bare.cost \in 0..lot.cost
    BY <1>2, <1>3, <2>4, <2>6
  <2>8. /\ IsPosition(q, d) /\ q.cost = p.cost - bare.cost /\ q.realized = p.realized
        /\ SameNumbers(q.lots, p.lots)
    BY <2>5, <2>7, TakenFromSound DEF q, lot
  <2> QED BY <1>2, <2>4, <2>8
<1> QED BY <1>4, <1>5

\* A run of such steps leaves the position without the pieces.
\* The steps of the walk along s take its units, too.
TakeUnits(f, s, d) ==
  \A i \in 1..Len(s) : f[i].ok /\ IsPosition(f[i - 1].pos, d)
                          => f[i].pos.qty = f[i - 1].pos.qty - s[i].qty

LEMMA WalkTakes ==
  ASSUME NEW d \in Nat, NEW p, IsPosition(p, d), NEW s \in Seq(Piece), NEW f,
         f[0] = [ok |-> TRUE, pos |-> p],
         \A i \in 1..Len(s) : f[i].ok =>
            /\ f[i - 1].ok
            /\ IsPosition(f[i - 1].pos, d) =>
                 /\ IsPosition(f[i].pos, d) /\ f[i].pos.cost = f[i - 1].pos.cost - s[i].cost
                 /\ f[i].pos.realized = f[i - 1].pos.realized
                 /\ SameNumbers(f[i].pos.lots, f[i - 1].pos.lots)
  PROVE  f[Len(s)].ok => /\ IsPosition(f[Len(s)].pos, d)
                         /\ f[Len(s)].pos.cost = p.cost - LotsCost(s)
                         /\ f[Len(s)].pos.realized = p.realized
                         /\ TakeUnits(f, s, d) => f[Len(s)].pos.qty = p.qty - LotsUnits(s)
                         /\ SameNumbers(f[Len(s)].pos.lots, p.lots)
<1> DEFINE cs == Prefix(Costs(s))
           us == Prefix(Units(s))
           takes == TakeUnits(f, s, d)
           Good(i) == /\ IsPosition(f[i].pos, d) /\ f[i].pos.cost = p.cost - cs[i]
                      /\ takes => f[i].pos.qty = p.qty - us[i]
                      /\ f[i].pos.realized = p.realized
                      /\ SameNumbers(f[i].pos.lots, p.lots)
           G == {i \in 0..Len(s) : f[i].ok => Good(i)}
<1>1. /\ Len(s) \in Nat /\ LotsCost(s) = cs[Len(s)] /\ p.cost \in Nat
      /\ Costs(s) \in Seq(Nat) /\ Len(Costs(s)) = Len(s)
      /\ \A i \in 1..Len(s) : Costs(s)[i] = s[i].cost
      /\ LotsUnits(s) = us[Len(s)] /\ p.qty \in Nat
      /\ Units(s) \in Seq(Nat) /\ Len(Units(s)) = Len(s)
      /\ \A i \in 1..Len(s) : Units(s)[i] = s[i].qty
  BY PiecesAdd, SoundIs
<1>2. /\ Costs(s) \in Seq(Int) /\ \A i \in 0..Len(s) : cs[i] \in Nat
      /\ Units(s) \in Seq(Int) /\ \A i \in 0..Len(s) : us[i] \in Nat
  BY <1>1, SumsGrow
<1>3. /\ cs[0] = 0 /\ \A i \in 1..Len(s) : cs[i] = cs[i - 1] + s[i].cost
      /\ us[0] = 0 /\ \A i \in 1..Len(s) : us[i] = us[i - 1] + s[i].qty
  BY <1>1, <1>2, PrefixIs
<1>4. \A i \in 1..Len(s) : s[i].cost \in Nat /\ s[i].qty \in Nat
  BY PiecesAdd, PieceIs
<1> HIDE DEF cs, us
<1>5. 0 \in G
  <2>1. f[0].pos = p
    OBVIOUS
  <2>2. SameNumbers(p.lots, p.lots)
    BY Zenon DEF SameNumbers
  <2> QED BY <1>1, <1>3, <2>1, <2>2
<1>6. ASSUME NEW i \in 1..Len(s), i - 1 \in G PROVE i \in G
  <2> SUFFICES ASSUME f[i].ok PROVE Good(i)
    OBVIOUS
  <2>1. f[i - 1].ok
    OBVIOUS
  <2>2. /\ IsPosition(f[i - 1].pos, d) /\ f[i - 1].pos.cost = p.cost - cs[i - 1]
        /\ takes => f[i - 1].pos.qty = p.qty - us[i - 1]
        /\ f[i - 1].pos.realized = p.realized
        /\ SameNumbers(f[i - 1].pos.lots, p.lots)
    BY <1>6, <2>1
  <2>3. /\ IsPosition(f[i].pos, d) /\ f[i].pos.cost = f[i - 1].pos.cost - s[i].cost
        /\ takes => f[i].pos.qty = f[i - 1].pos.qty - s[i].qty
        /\ f[i].pos.realized = f[i - 1].pos.realized
        /\ SameNumbers(f[i].pos.lots, f[i - 1].pos.lots)
    BY <2>2 DEF TakeUnits
  <2>4. cs[i] = cs[i - 1] + s[i].cost /\ cs[i - 1] \in Nat /\ s[i].cost \in Nat
    <3>1. i - 1 \in 0..Len(s)
      BY <1>1
    <3> HIDE DEF takes
    <3> QED BY <1>2, <1>3, <1>4, <3>1
  <2>5. f[i].pos.cost = p.cost - cs[i]
    BY <1>1, <2>2, <2>3, <2>4, SMTT(30)
  <2>7. takes => f[i].pos.qty = p.qty - us[i]
    <3>1. us[i] = us[i - 1] + s[i].qty /\ us[i - 1] \in Nat /\ s[i].qty \in Nat
      BY <1>2, <1>3, <1>4
    <3> QED BY <1>1, <2>2, <2>3, <3>1, SMTT(30)
  <2>6. SameNumbers(f[i].pos.lots, p.lots)
    BY <2>2, <2>3 DEF SameNumbers
  <2> QED BY <2>2, <2>3, <2>5, <2>6, <2>7
<1> HIDE DEF G
<1>7. \A i \in 0..Len(s) : i \in G
  BY <1>1, <1>5, <1>6, Climbing
<1>8. Len(s) \in G
  BY <1>1, <1>7
<1> QED BY <1>1, <1>8 DEF G

LEMMA RunTakes ==
  ASSUME NEW d \in Nat, NEW p, IsPosition(p, d), NEW s \in Seq(Piece), Taken(p, s).ok
  PROVE  LET r == Taken(p, s).pos
         IN /\ IsPosition(r, d) /\ r.cost = p.cost - LotsCost(s) /\ r.realized = p.realized
            /\ r.qty = p.qty - LotsUnits(s)
            /\ SameNumbers(r.lots, p.lots)
<1>1. PICK f : /\ f[0] = [ok |-> TRUE, pos |-> p] /\ Taken(p, s) = f[Len(s)]
               /\ \A i \in 1..Len(s) :
                    f[i] = IF f[i - 1].ok THEN TakePiece(f[i - 1].pos, s[i]) ELSE f[i - 1]
  <2>1. Len(s) \in Nat
    OBVIOUS
  <2> QED BY <2>1, TakesWalk
<1>2. ASSUME NEW i \in 1..Len(s), f[i].ok
      PROVE  /\ f[i - 1].ok
             /\ IsPosition(f[i - 1].pos, d) =>
                  /\ IsPosition(f[i].pos, d) /\ f[i].pos.cost = f[i - 1].pos.cost - s[i].cost
                  /\ f[i].pos.realized = f[i - 1].pos.realized
                  /\ f[i].pos.qty = f[i - 1].pos.qty - s[i].qty
                  /\ SameNumbers(f[i].pos.lots, f[i - 1].pos.lots)
  <2>1. f[i - 1].ok /\ f[i] = TakePiece(f[i - 1].pos, s[i]) /\ s[i] \in Piece
    BY <1>1, <1>2
  <2> QED BY <1>2, <2>1, TakePieceSound
<1>3. f[Len(s)].ok
  BY <1>1
<1> DEFINE r == f[Len(s)].pos
<1>4. /\ IsPosition(r, d) /\ r.cost = p.cost - LotsCost(s) /\ r.realized = p.realized
      /\ r.qty = p.qty - LotsUnits(s) /\ SameNumbers(r.lots, p.lots)
  <2>1. f[0] = [ok |-> TRUE, pos |-> p]
    BY <1>1
  <2>2. TakeUnits(f, s, d)
    BY <1>2 DEF TakeUnits
  <2> QED BY <1>2, <1>3, <2>1, <2>2, WalkTakes
<1> QED BY <1>1, <1>4

LEMMA RunCarves ==
  ASSUME NEW d \in Nat, NEW p, IsPosition(p, d), NEW s \in Seq(Piece), Carried(p, s).ok
  PROVE  LET r == Carried(p, s).pos
         IN /\ IsPosition(r, d) /\ r.cost = p.cost - LotsCost(s) /\ r.realized = p.realized
            /\ SameNumbers(r.lots, p.lots)
<1>1. PICK f : /\ f[0] = [ok |-> TRUE, pos |-> p] /\ Carried(p, s) = f[Len(s)]
               /\ \A i \in 1..Len(s) :
                    f[i] = IF f[i - 1].ok THEN Carved(f[i - 1].pos, s[i]) ELSE f[i - 1]
  <2>1. Len(s) \in Nat
    OBVIOUS
  <2> QED BY <2>1, CarvesWalk
<1>2. ASSUME NEW i \in 1..Len(s), f[i].ok
      PROVE  /\ f[i - 1].ok
             /\ IsPosition(f[i - 1].pos, d) =>
                  /\ IsPosition(f[i].pos, d) /\ f[i].pos.cost = f[i - 1].pos.cost - s[i].cost
                  /\ f[i].pos.realized = f[i - 1].pos.realized
                  /\ SameNumbers(f[i].pos.lots, f[i - 1].pos.lots)
  <2>1. f[i - 1].ok /\ f[i] = Carved(f[i - 1].pos, s[i]) /\ s[i] \in Piece
    BY <1>1, <1>2
  <2> QED BY <1>2, <2>1, CarvedSound
<1>3. f[Len(s)].ok
  BY <1>1
<1> QED BY <1>1, <1>2, <1>3, WalkTakes

\* Lots that arrive, none after day d, are added one by one.
LEMMA RunArrives ==
  ASSUME NEW d \in Nat, NEW p, IsPosition(p, d), NEW s \in Seq(Piece),
         \A i \in 1..Len(s) : s[i].day <= d
  PROVE  LET r == Arrived(p, s).pos
         IN /\ IsPosition(r, d) /\ r.cost = p.cost + LotsCost(s) /\ r.realized = p.realized
            /\ \A M, K : NumberedBy(p.lots, M) /\ NumberedBy(s, K) /\ M \cap K = {}
                  => NumberedBy(r.lots, M \cup K)
<1>1. PICK f : /\ f[0] = [ok |-> TRUE, pos |-> p]
               /\ Arrived(p, s) = f[Len(s)]
               /\ \A i \in 1..Len(s) :
                    f[i] = IF f[i - 1].ok THEN [ok |-> TRUE, pos |-> AddLot(f[i - 1].pos, s[i])]
                           ELSE f[i - 1]
  <2>1. Len(s) \in Nat
    OBVIOUS
  <2> QED BY <2>1, ArrivesWalk, SMTT(30)
<1> DEFINE cs == Prefix(Costs(s))
           First(i) == {s[j].lot : j \in 1..i}
           Clear(M) == /\ NumberedBy(p.lots, M) /\ \A j \in 1..Len(s) : s[j].lot \notin M
                       /\ \A i, j \in 1..Len(s) : s[i].lot = s[j].lot => i = j
           Apart(i) == \A M : Clear(M) => NumberedBy(f[i].pos.lots, M \cup First(i))
           Good(i) == /\ f[i].ok /\ IsPosition(f[i].pos, d) /\ f[i].pos.cost = p.cost + cs[i]
                      /\ f[i].pos.realized = p.realized
                      /\ Apart(i)
           G == {i \in 0..Len(s) : Good(i)}
<1>2. /\ Len(s) \in Nat /\ LotsCost(s) = cs[Len(s)] /\ p.cost \in Nat
      /\ Costs(s) \in Seq(Nat) /\ Len(Costs(s)) = Len(s)
      /\ \A i \in 1..Len(s) : Costs(s)[i] = s[i].cost
  BY PiecesAdd, SoundIs
<1>3. Costs(s) \in Seq(Int) /\ \A i \in 0..Len(s) : cs[i] \in Nat
  BY <1>2, SumsGrow
<1>4. cs[0] = 0 /\ \A i \in 1..Len(s) : cs[i] = cs[i - 1] + s[i].cost
  BY <1>2, <1>3, PrefixIs
<1>5. \A i \in 1..Len(s) : s[i].cost \in Nat
  BY PiecesAdd, PieceIs
<1> HIDE DEF cs
<1>6. 0 \in G
  <2>1. f[0].pos = p /\ f[0].ok
    BY <1>1
  <2>2. Apart(0)
    <3> SUFFICES ASSUME NEW M, Clear(M) PROVE NumberedBy(f[0].pos.lots, M \cup First(0))
      BY Zenon
    <3>1. M \cup First(0) = M
      OBVIOUS
    <3> QED BY <2>1, <3>1
  <2> HIDE DEF Apart
  <2> QED BY <1>2, <1>4, <2>1, <2>2
<1>7. ASSUME NEW i \in 1..Len(s), i - 1 \in G PROVE i \in G
  <2>1. /\ f[i - 1].ok /\ IsPosition(f[i - 1].pos, d) /\ f[i - 1].pos.cost = p.cost + cs[i - 1]
        /\ f[i - 1].pos.realized = p.realized
        /\ Apart(i - 1)
    <3> HIDE DEF Apart
    <3> QED BY <1>7
  <2>2. s[i] \in Piece /\ s[i].day <= d
    OBVIOUS
  <2> DEFINE r == AddLot(f[i - 1].pos, s[i])
  <2>3. f[i] = [ok |-> TRUE, pos |-> r]
    BY <1>1, <2>1
  <2>4. /\ IsPosition(r, d) /\ r.cost = f[i - 1].pos.cost + s[i].cost
        /\ r.realized = f[i - 1].pos.realized
        /\ \A M : NumberedBy(f[i - 1].pos.lots, M) /\ s[i].lot \notin M
              => NumberedBy(r.lots, M \cup {s[i].lot})
    BY <2>1, <2>2, AddLotSound
  <2> HIDE DEF r
  <2>5. f[i].ok = TRUE /\ f[i].pos = r
    BY <2>3
  <2>6. cs[i] = cs[i - 1] + s[i].cost /\ cs[i - 1] \in Nat /\ s[i].cost \in Nat
    BY <1>3, <1>4, <1>5
  <2>7. f[i].pos.cost = p.cost + cs[i]
    BY <1>2, <2>1, <2>4, <2>5, <2>6, SMTT(30)
  <2>8. Apart(i)
    <3> SUFFICES ASSUME NEW M, Clear(M) PROVE NumberedBy(r.lots, M \cup First(i))
      BY <2>5, Zenon
    <3> DEFINE K == M \cup First(i - 1)
    <3>1. NumberedBy(f[i - 1].pos.lots, K)
      BY <2>1, Zenon
    <3>2. s[i].lot \notin K
      <4>1. \A j \in 1..(i - 1) : j \in 1..Len(s) /\ j # i
        BY <1>2
      <4> QED BY <4>1
    <3>3. K \cup {s[i].lot} = M \cup First(i)
      <4>1. \A j \in 1..i : j \in 1..(i - 1) \/ j = i
        OBVIOUS
      <4>2. i \in 1..i /\ \A j \in 1..(i - 1) : j \in 1..i
        OBVIOUS
      <4> QED BY <4>1, <4>2
    <3> HIDE DEF K, First
    <3>4. NumberedBy(r.lots, K \cup {s[i].lot})
      BY <2>4, <3>1, <3>2
    <3> QED BY <3>3, <3>4
  <2> HIDE DEF Apart
  <2> QED BY <2>1, <2>4, <2>5, <2>7, <2>8
<1> HIDE DEF G
<1>8. \A i \in 0..Len(s) : i \in G
  BY <1>2, <1>6, <1>7, Climbing
<1>9. Len(s) \in G
  BY <1>2, <1>8
<1>10. Good(Len(s))
  BY <1>9, Zenon DEF G
<1>11. ASSUME NEW M, NEW K, NumberedBy(p.lots, M), NumberedBy(s, K), M \cap K = {}
       PROVE  NumberedBy(f[Len(s)].pos.lots, M \cup K)
  <2>1. DOMAIN s = 1..Len(s)
    BY <1>2
  <2>2. Clear(M) /\ First(Len(s)) \subseteq K
    BY <1>11, <2>1 DEF NumberedBy
  <2>3. NumberedBy(f[Len(s)].pos.lots, M \cup First(Len(s)))
    BY <1>10, <2>2, Zenon
  <2> HIDE DEF First
  <2> QED BY <2>2, <2>3 DEF NumberedBy
<1> HIDE DEF Apart
<1> QED BY <1>1, <1>2, <1>10, <1>11

-----------------------------------------------------------------------------
(* First in, first out. *)

LEMMA ShareBound ==
  ASSUME NEW c \in Nat, NEW q \in Nat, NEW u \in Nat, q < u
  PROVE  (c * q) \div u \in 0..c
<1>1. c * q \in Nat /\ c * q <= c * u /\ u > 0
  OBVIOUS
<1>2. (c * q) \div u \in Nat
  BY <1>1
<1>3. (c * u) \div u = c
  BY <1>1
<1>4. (c * q) \div u <= (c * u) \div u
  BY <1>1
<1> QED BY <1>2, <1>3, <1>4

LEMMA LotShareIs ==
  ASSUME NEW lot \in Piece, NEW q \in 0..lot.qty
  PROVE  LotShare(lot, q) \in 0..lot.cost /\ (q = lot.qty => LotShare(lot, q) = lot.cost)
<1>1. lot.qty \in Nat /\ lot.cost \in Nat
  BY PieceIs
<1>2. CASE q >= lot.qty
  BY <1>1, <1>2 DEF LotShare
<1>3. CASE q < lot.qty
  <2>1. (lot.cost * q) \div lot.qty \in 0..lot.cost
    BY <1>1, <1>3, ShareBound
  <2>2. LotShare(lot, q) = (lot.cost * q) \div lot.qty
    BY <1>1, <1>3 DEF LotShare
  <2> QED BY <1>1, <1>3, <2>1, <2>2
<1> QED BY <1>1, <1>2, <1>3

\* Zeros add nothing.
LEMMA ZerosAdd ==
  ASSUME NEW s \in Seq(Int), NEW k \in 0..Len(s), \A i \in 1..k : s[i] = 0
  PROVE  Prefix(s)[k] = 0
<1> DEFINE G == {i \in 0..k : Prefix(s)[i] = 0}
<1>1. Len(s) \in Nat /\ k \in Nat /\ k <= Len(s)
  OBVIOUS
<1>2. Prefix(s)[0] = 0 /\ \A i \in 1..Len(s) : Prefix(s)[i] = Prefix(s)[i - 1] + s[i]
  BY PrefixIs
<1>3. 0 \in G
  BY <1>1, <1>2
<1>4. ASSUME NEW i \in 1..k, i - 1 \in G PROVE i \in G
  <2>1. i \in 1..Len(s) /\ i \in 0..k
    BY <1>1
  <2>2. Prefix(s)[i] = Prefix(s)[i - 1] + s[i] /\ s[i] = 0 /\ Prefix(s)[i - 1] = 0
    BY <1>2, <1>4, <2>1
  <2>3. Prefix(s)[i] = 0
    BY <2>2
  <2> QED BY <2>1, <2>3
<1> HIDE DEF G
<1>5. k \in G
  <2>1. \A i \in 0..k : i \in G
    BY <1>1, <1>3, <1>4, Climbing
  <2> QED BY <1>1, <2>1
<1> QED BY <1>5 DEF G

\* What a shorter sequence takes from the front of a longer one.
LEMMA CutSums ==
  ASSUME NEW s \in Seq(Int), NEW t \in Seq(Int), NEW u \in Seq(Int),
         Len(u) = Len(s), Len(t) <= Len(s),
         \A i \in 1..Len(s) : u[i] = IF i <= Len(t) THEN s[i] - t[i] ELSE s[i]
  PROVE  Total(u) = Total(s) - Total(t)
<1> DEFINE cut(i) == IF i <= Len(t) THEN Prefix(t)[i] ELSE Total(t)
           G == {i \in 0..Len(s) : Prefix(u)[i] = Prefix(s)[i] - cut(i)}
<1>1. Len(s) \in Nat /\ Len(t) \in Nat
  OBVIOUS
<1>2. /\ Prefix(s) \in [0..Len(s) -> Int] /\ Prefix(s)[0] = 0
      /\ \A i \in 1..Len(s) : Prefix(s)[i] = Prefix(s)[i - 1] + s[i]
  BY PrefixIs
<1>3. /\ Prefix(t) \in [0..Len(t) -> Int] /\ Prefix(t)[0] = 0
      /\ \A i \in 1..Len(t) : Prefix(t)[i] = Prefix(t)[i - 1] + t[i]
  BY PrefixIs
<1>4. /\ Prefix(u)[0] = 0
      /\ \A i \in 1..Len(s) : Prefix(u)[i] = Prefix(u)[i - 1] + u[i]
  BY PrefixIs
<1>5. Total(t) \in Int /\ Total(t) = Prefix(t)[Len(t)]
  BY TotalIs
<1>6. 0 \in G
  BY <1>1, <1>2, <1>3, <1>4
<1>7. ASSUME NEW i \in 1..Len(s), i - 1 \in G PROVE i \in G
  <2>1. i \in 0..Len(s) /\ i - 1 \in 0..Len(s) /\ i \in Int /\ s[i] \in Int /\ Prefix(s)[i - 1] \in Int
    <3>1. i \in 0..Len(s) /\ i - 1 \in 0..Len(s) /\ i \in Int
      BY <1>1
    <3>2. Prefix(s)[i - 1] \in Int
      BY <1>2, <3>1
    <3> QED BY <3>1, <3>2
  <2>2. /\ Prefix(u)[i] = Prefix(u)[i - 1] + u[i] /\ Prefix(s)[i] = Prefix(s)[i - 1] + s[i]
        /\ Prefix(u)[i - 1] = Prefix(s)[i - 1] - cut(i - 1)
    BY <1>2, <1>4, <1>7
  <2>3. CASE i <= Len(t)
    <3>1. i \in 1..Len(t) /\ i - 1 \in 0..Len(t) /\ i - 1 <= Len(t)
      BY <1>1, <2>1, <2>3
    <3>2. /\ Prefix(t)[i] = Prefix(t)[i - 1] + t[i] /\ t[i] \in Int /\ Prefix(t)[i - 1] \in Int
      <4>1. t[i] \in Int
        BY <3>1
      <4>2. Prefix(t)[i - 1] \in Int
        BY <1>3, <3>1
      <4> QED BY <1>3, <3>1, <4>1, <4>2
    <3>3. u[i] = s[i] - t[i] /\ cut(i - 1) = Prefix(t)[i - 1] /\ cut(i) = Prefix(t)[i]
      BY <2>3, <3>1
    <3> HIDE DEF cut
    <3>4. Prefix(u)[i] = Prefix(s)[i] - cut(i)
      <4> DEFINE a == Prefix(u)[i]
                 b == Prefix(u)[i - 1]
                 c == Prefix(s)[i]
                 d == Prefix(s)[i - 1]
                 e == Prefix(t)[i]
                 f == Prefix(t)[i - 1]
                 x == s[i]
                 y == t[i]
      <4>1. /\ a = b + (x - y) /\ c = d + x /\ b = d - f /\ e = f + y
            /\ d \in Int /\ f \in Int /\ x \in Int /\ y \in Int /\ cut(i) = e
        BY <2>1, <2>2, <3>2, <3>3
      <4> HIDE DEF a, b, c, d, e, f, x, y
      <4>2. a = c - cut(i)
        BY <4>1
      <4> QED BY <4>2 DEF a, c
    <3> QED BY <2>1, <3>4
  <2>4. CASE ~(i <= Len(t))
    <3>1. cut(i - 1) = Total(t) /\ cut(i) = Total(t)
      <4>1. i - 1 = Len(t) \/ ~(i - 1 <= Len(t))
        BY <1>1, <2>1, <2>4, SMTT(30)
      <4> QED BY <1>5, <2>4, <4>1
    <3>2. u[i] = s[i]
      BY <2>4
    <3> HIDE DEF cut
    <3>3. Prefix(u)[i] = Prefix(s)[i] - cut(i)
      BY <1>5, <2>1, <2>2, <3>1, <3>2, SMTT(30)
    <3> QED BY <2>1, <3>3
  <2> QED BY <2>3, <2>4
<1>8. Len(s) \in G
  <2> HIDE DEF G
  <2>1. \A i \in 0..Len(s) : i \in G
    BY <1>1, <1>6, <1>7, Climbing
  <2> QED BY <1>1, <2>1
<1>9. cut(Len(s)) = Total(t)
  BY <1>1, <1>5
<1> HIDE DEF cut
<1> QED BY <1>8, <1>9 DEF Total

\* The pieces qty units reach, front to back.
LEMMA ReachedIs ==
  ASSUME NEW lots \in Seq(Piece), NEW qty \in Nat \ {0}, qty <= LotsUnits(lots)
  PROVE  LET pieces == Reached(lots, qty, Prefix(Units(lots)))
         IN /\ pieces \in Seq(Piece) /\ Len(pieces) <= Len(lots)
            /\ LotsUnits(pieces) = qty
            /\ \A i \in 1..Len(pieces) :
                 /\ pieces[i].qty <= lots[i].qty /\ pieces[i].cost <= lots[i].cost
                 /\ pieces[i].lot = lots[i].lot /\ pieces[i].day = lots[i].day
                 /\ pieces[i].cost = LotShare(lots[i], pieces[i].qty)
                 /\ pieces[i].qty = lots[i].qty => pieces[i].cost = lots[i].cost
                 /\ i < Len(pieces) => pieces[i].qty = lots[i].qty
<1> DEFINE before == Prefix(Units(lots))
           S == {i \in DOMAIN lots : before[i - 1] < qty}
           k == Cardinality(S)
           pieces == Reached(lots, qty, before)
           share(i) == Least(lots[i].qty, qty - before[i - 1])
           piece(i) == [lots[i] EXCEPT !.qty = share(i), !.cost = LotShare(lots[i], share(i))]
<1>1. /\ Len(lots) \in Nat /\ DOMAIN lots = 1..Len(lots)
      /\ \A i \in 1..Len(lots) : lots[i] \in Piece
      /\ Units(lots) \in Seq(Nat) /\ Len(Units(lots)) = Len(lots)
      /\ \A i \in 1..Len(lots) : Units(lots)[i] = lots[i].qty
      /\ LotsUnits(lots) = before[Len(lots)]
  BY PiecesAdd
<1>2. /\ Units(lots) \in Seq(Int)
      /\ \A i \in 0..Len(lots) : before[i] \in Nat
      /\ \A i, j \in 0..Len(lots) : i <= j => before[i] <= before[j]
  BY <1>1, SumsGrow
<1>3. before[0] = 0 /\ \A i \in 1..Len(lots) : before[i] = before[i - 1] + lots[i].qty
  <2> DEFINE u == Units(lots)
  <2>1. u \in Seq(Int) /\ Len(u) = Len(lots) /\ \A i \in 1..Len(lots) : u[i] = lots[i].qty
    BY <1>1, <1>2
  <2> HIDE DEF u
  <2>2. Prefix(u)[0] = 0 /\ \A i \in 1..Len(u) : Prefix(u)[i] = Prefix(u)[i - 1] + u[i]
    BY <2>1, PrefixIs
  <2> QED BY <2>1, <2>2 DEF u
<1>4. \A i \in 1..Len(lots) : lots[i].qty \in Nat /\ lots[i].cost \in Nat
  BY <1>1, PieceIs
<1>5. pieces = [i \in 1..k |-> piece(i)]
  BY Zenon DEF Reached
<1> HIDE DEF before
<1>6. k \in 0..Len(lots) /\ S = 1..k
  <2>1. S \in SUBSET (1..Len(lots))
    BY <1>1
  <2>2. ASSUME NEW i \in S, NEW j \in 1..i PROVE j \in S
    <3>1. /\ i \in 1..Len(lots) /\ j \in 1..Len(lots) /\ i - 1 \in 0..Len(lots)
          /\ j - 1 \in 0..Len(lots) /\ j - 1 <= i - 1
      BY <2>1
    <3>2. before[j - 1] <= before[i - 1] /\ before[j - 1] \in Nat /\ before[i - 1] \in Nat
      BY <1>2, <3>1
    <3>3. before[i - 1] < qty
      OBVIOUS
    <3> QED BY <1>1, <3>1, <3>2, <3>3, SMTT(30)
  <2> HIDE DEF S
  <2> QED BY <1>1, <2>1, <2>2, FirstOnes
<1>7. \A i \in 1..Len(lots) : i <= k <=> before[i - 1] < qty
  <2>1. \A i \in 1..Len(lots) : i \in S <=> before[i - 1] < qty
    BY <1>1
  <2> HIDE DEF S
  <2> QED BY <1>6, <2>1
<1> HIDE DEF k, S, pieces
<1>8. ASSUME NEW i \in 1..k
      PROVE  /\ i \in 1..Len(lots) /\ before[i - 1] \in Nat /\ before[i - 1] < qty
             /\ share(i) \in 0..lots[i].qty
             /\ piece(i) \in Piece /\ piece(i).qty = share(i)
             /\ piece(i).lot = lots[i].lot /\ piece(i).day = lots[i].day
             /\ piece(i).cost = LotShare(lots[i], share(i))
             /\ piece(i).cost <= lots[i].cost
             /\ share(i) = lots[i].qty => piece(i).cost = lots[i].cost
             /\ i < k => share(i) = lots[i].qty
  <2>1. i \in 1..Len(lots) /\ i <= k /\ i - 1 \in 0..Len(lots)
    BY <1>6
  <2>2. before[i - 1] \in Nat /\ before[i - 1] < qty
    BY <1>2, <1>7, <2>1
  <2>3. share(i) \in 0..lots[i].qty
    BY <1>4, <2>1, <2>2 DEF Least
  <2>4. /\ LotShare(lots[i], share(i)) \in 0..lots[i].cost
        /\ share(i) = lots[i].qty => LotShare(lots[i], share(i)) = lots[i].cost
    <3> HIDE DEF share
    <3> QED BY <1>1, <2>1, <2>3, LotShareIs
  <2>5. /\ piece(i) \in Piece /\ piece(i).qty = share(i)
        /\ piece(i).lot = lots[i].lot /\ piece(i).day = lots[i].day
        /\ piece(i).cost = LotShare(lots[i], share(i))
    <3> DEFINE x == lots[i]
               c == LotShare(lots[i], share(i))
               q == share(i)
    <3>1. x \in Piece /\ c \in Nat /\ q \in Nat
      BY <1>1, <1>4, <2>1, <2>3, <2>4
    <3> HIDE DEF x, c, q
    <3> DEFINE y == [x EXCEPT !.qty = q, !.cost = c]
    <3>2. y \in Piece /\ y.qty = q /\ y.cost = c /\ y.day = x.day /\ y.lot = x.lot
      BY <3>1 DEF Piece
    <3>3. piece(i) = y
      BY Zenon DEF x, c, q
    <3> HIDE DEF y, piece
    <3> QED BY <3>2, <3>3 DEF x, c, q
  <2>6. ASSUME i < k PROVE share(i) = lots[i].qty
    <3>1. i + 1 \in 1..Len(lots) /\ i + 1 <= k /\ (i + 1) - 1 = i
      BY <1>6, <2>6
    <3>2. before[i] < qty
      BY <1>7, <3>1
    <3>3. before[i] = before[i - 1] + lots[i].qty
      BY <1>3, <2>1
    <3> QED BY <1>4, <2>1, <2>2, <3>2, <3>3 DEF Least
  <2>7. lots[i].cost \in Nat
    BY <1>4, <2>1
  <2> HIDE DEF share, piece
  <2> QED BY <2>1, <2>2, <2>3, <2>4, <2>5, <2>6, <2>7
<1>9. /\ k \in Nat /\ pieces \in Seq(Piece) /\ Len(pieces) = k
      /\ \A i \in 1..k : pieces[i] = piece(i)
  <2> HIDE DEF piece
  <2> QED BY <1>5, <1>6, <1>8
<1> HIDE DEF piece
<1> DEFINE P == Prefix(Units(pieces))
<1>10. /\ P[0] = 0 /\ \A i \in 1..k : P[i] = P[i - 1] + share(i)
       /\ LotsUnits(pieces) = P[k]
  <2>1. /\ Units(pieces) \in Seq(Int) /\ Len(Units(pieces)) = k
        /\ \A i \in 1..k : Units(pieces)[i] = pieces[i].qty
        /\ LotsUnits(pieces) = P[k]
    BY <1>9, PiecesAdd, SumsGrow
  <2>2. P[0] = 0 /\ \A i \in 1..k : P[i] = P[i - 1] + Units(pieces)[i]
    BY <2>1, PrefixIs
  <2> HIDE DEF P, share
  <2> QED BY <1>8, <1>9, <2>1, <2>2, ZenonT(60)
<1> HIDE DEF P
<1> DEFINE G == {i \in 0..k : P[i] = Least(before[i], qty)}
<1>11. \A i \in 0..k : i \in G
  <2>1. 0 \in G
    <3>1. P[0] = Least(before[0], qty)
      BY <1>3, <1>10 DEF Least
    <3> QED BY <1>9, <3>1
  <2>2. ASSUME NEW i \in 1..k, i - 1 \in G PROVE i \in G
    <3>1. /\ i \in 1..Len(lots) /\ before[i - 1] \in Nat /\ before[i - 1] < qty
          /\ lots[i].qty \in Nat
      BY <1>4, <1>8
    <3>2. P[i - 1] = before[i - 1]
      BY <2>2, <3>1 DEF Least
    <3>3. P[i] = before[i - 1] + share(i) /\ before[i] = before[i - 1] + lots[i].qty
      BY <1>3, <1>10, <3>1, <3>2
    <3>4. P[i] = Least(before[i], qty)
      BY <3>1, <3>3 DEF Least
    <3>5. i \in 0..k
      BY <1>9
    <3> QED BY <3>4, <3>5
  <2> HIDE DEF G
  <2> QED BY <1>9, <2>1, <2>2, Climbing
<1>12. before[k] \in Nat /\ before[k] >= qty
  <2>1. before[k] \in Nat
    BY <1>2, <1>6
  <2>2. CASE k = Len(lots)
    BY <1>1, <2>1, <2>2
  <2>3. CASE k # Len(lots)
    <3> DEFINE m == Len(lots)
    <3>1. k + 1 \in 1..Len(lots) /\ ~(k + 1 <= k) /\ (k + 1) - 1 = k
      <4>1. k \in 0..m /\ m \in Nat /\ k # m
        BY <1>1, <1>6, <2>3
      <4> HIDE DEF m
      <4>2. k + 1 \in 1..m /\ ~(k + 1 <= k) /\ (k + 1) - 1 = k
        BY <4>1
      <4> QED BY <4>2, SMTT(30) DEF m
    <3>2. ~(before[k] < qty)
      BY <1>7, <3>1
    <3> QED BY <2>1, <3>2
  <2> QED BY <2>2, <2>3
<1>13. LotsUnits(pieces) = qty
  <2>1. P[k] = Least(before[k], qty)
    <3>1. k \in 0..k
      BY <1>9
    <3>2. k \in G
      BY <1>11, <3>1
    <3> HIDE DEF P
    <3> QED BY <3>2
  <2> QED BY <1>10, <1>12, <2>1 DEF Least
<1>14. \A i \in 1..k : /\ pieces[i].qty <= lots[i].qty /\ pieces[i].cost <= lots[i].cost
                       /\ pieces[i].lot = lots[i].lot /\ pieces[i].day = lots[i].day
                       /\ pieces[i].cost = LotShare(lots[i], pieces[i].qty)
                       /\ pieces[i].qty = lots[i].qty => pieces[i].cost = lots[i].cost
                       /\ i < k => pieces[i].qty = lots[i].qty
  <2> SUFFICES ASSUME NEW i \in 1..k
               PROVE  /\ pieces[i].qty <= lots[i].qty /\ pieces[i].cost <= lots[i].cost
                      /\ pieces[i].lot = lots[i].lot /\ pieces[i].day = lots[i].day
                      /\ pieces[i].cost = LotShare(lots[i], pieces[i].qty)
                      /\ pieces[i].qty = lots[i].qty => pieces[i].cost = lots[i].cost
                      /\ i < k => pieces[i].qty = lots[i].qty
    OBVIOUS
  <2>1. lots[i].qty \in Nat
    BY <1>4, <1>8
  <2> HIDE DEF share
  <2>2. /\ pieces[i] = piece(i) /\ piece(i).qty = share(i)
        /\ piece(i).lot = lots[i].lot /\ piece(i).day = lots[i].day
        /\ piece(i).cost = LotShare(lots[i], share(i))
        /\ piece(i).cost <= lots[i].cost /\ share(i) \in 0..lots[i].qty
        /\ share(i) = lots[i].qty => piece(i).cost = lots[i].cost
        /\ i < k => share(i) = lots[i].qty
    BY <1>8, <1>9
  <2>3. share(i) <= lots[i].qty
    BY <2>1, <2>2
  <2> QED BY <2>2, <2>3
<1>15. Len(pieces) <= Len(lots)
  BY <1>1, <1>6, <1>9
<1> QED BY <1>9, <1>13, <1>14, <1>15 DEF pieces, before

\* The lots without the pieces taken from the first of them.
LEMMA RestIs ==
  ASSUME NEW lots \in Seq(Piece), NEW pieces \in Seq(Piece), Len(pieces) <= Len(lots),
         \A i \in 1..Len(pieces) : pieces[i].qty <= lots[i].qty /\ pieces[i].cost <= lots[i].cost
  PROVE  LET rest == [i \in DOMAIN lots |->
                        IF i \in DOMAIN pieces THEN Rest(lots[i], pieces[i]) ELSE lots[i]]
         IN /\ rest \in Seq(Piece) /\ Len(rest) = Len(lots)
            /\ LotsUnits(rest) = LotsUnits(lots) - LotsUnits(pieces)
            /\ LotsCost(rest) = LotsCost(lots) - LotsCost(pieces)
            /\ \A i \in 1..Len(lots) : rest[i].day = lots[i].day
            /\ SameNumbers(rest, lots)
            /\ \A i \in 1..Len(pieces) : /\ rest[i].qty = lots[i].qty - pieces[i].qty
                                         /\ rest[i].cost = lots[i].cost - pieces[i].cost
<1> DEFINE rest == [i \in DOMAIN lots |->
                      IF i \in DOMAIN pieces THEN Rest(lots[i], pieces[i]) ELSE lots[i]]
           less(i) == Rest(lots[i], pieces[i])
           m == Len(lots)
           k == Len(pieces)
<1>1. /\ m \in Nat /\ DOMAIN lots = 1..m /\ k \in Nat /\ DOMAIN pieces = 1..k /\ k <= m
      /\ \A i \in 1..m : lots[i] \in Piece
      /\ \A i \in 1..k : pieces[i] \in Piece
  BY PiecesAdd
<1>2. /\ \A i \in 1..m : lots[i].qty \in Nat /\ lots[i].cost \in Nat
      /\ \A i \in 1..k : pieces[i].qty \in Nat /\ pieces[i].cost \in Nat
  BY <1>1, PieceIs
<1>3. ASSUME NEW i \in 1..k
      PROVE  /\ less(i) \in Piece /\ less(i).day = lots[i].day /\ less(i).lot = lots[i].lot
             /\ less(i).qty = lots[i].qty - pieces[i].qty
             /\ less(i).cost = lots[i].cost - pieces[i].cost
  <2> DEFINE x == lots[i]
             q == lots[i].qty - pieces[i].qty
             c == lots[i].cost - pieces[i].cost
             y == [x EXCEPT !.qty = q, !.cost = c]
  <2>1. i \in 1..m
    BY <1>1
  <2>2. x \in Piece /\ q \in Nat /\ c \in Nat
    BY <1>1, <1>2, <2>1
  <2>3. less(i) = y
    BY <2>2 DEF Rest, Piece
  <2> HIDE DEF x, q, c, less
  <2>4. y \in Piece /\ y.qty = q /\ y.cost = c /\ y.day = x.day /\ y.lot = x.lot
    BY <2>2 DEF Piece
  <2> HIDE DEF y
  <2> QED BY <2>3, <2>4 DEF x, q, c
<1> HIDE DEF less
<1>4. rest = [i \in 1..m |-> IF i <= k THEN less(i) ELSE lots[i]]
  <2>1. \A i \in 1..m : i \in 1..k <=> i <= k
    BY <1>1
  <2>2. rest = [i \in 1..m |-> IF i \in 1..k THEN less(i) ELSE lots[i]]
    BY <1>1, Zenon DEF less
  <2> HIDE DEF rest, m, k
  <2> QED BY <2>1, <2>2
<1> HIDE DEF rest
<1>5. ASSUME NEW i \in 1..m PROVE (i <= k => i \in 1..k) /\ (~(i <= k) => i \notin 1..k)
  BY <1>1
<1>6. /\ rest \in Seq(Piece) /\ Len(rest) = m
      /\ \A i \in 1..m : rest[i] = IF i <= k THEN less(i) ELSE lots[i]
  <2>1. \A i \in 1..m : (IF i <= k THEN less(i) ELSE lots[i]) \in Piece
    BY <1>1, <1>3, <1>5
  <2> HIDE DEF m, k
  <2> QED BY <1>1, <1>4, <2>1
<1>7. \A i \in 1..m : rest[i].day = lots[i].day
  BY <1>3, <1>5, <1>6
<1>8. \A i \in 1..k : /\ rest[i].qty = lots[i].qty - pieces[i].qty
                      /\ rest[i].cost = lots[i].cost - pieces[i].cost
  <2> SUFFICES ASSUME NEW i \in 1..k
               PROVE  /\ rest[i].qty = lots[i].qty - pieces[i].qty
                      /\ rest[i].cost = lots[i].cost - pieces[i].cost
    OBVIOUS
  <2>1. i \in 1..m /\ i <= k
    BY <1>1
  <2> QED BY <1>3, <1>6, <2>1
<1>9. LotsUnits(rest) = LotsUnits(lots) - LotsUnits(pieces)
  <2>1. Units(rest) \in Seq(Int) /\ Units(lots) \in Seq(Int) /\ Units(pieces) \in Seq(Int)
    BY <1>6, PiecesAdd, SumsGrow
  <2>2. /\ Len(Units(rest)) = m /\ \A i \in 1..m : Units(rest)[i] = rest[i].qty
        /\ Len(Units(lots)) = m /\ \A i \in 1..m : Units(lots)[i] = lots[i].qty
        /\ Len(Units(pieces)) = k /\ \A i \in 1..k : Units(pieces)[i] = pieces[i].qty
    BY <1>6, PiecesAdd
  <2>3. ASSUME NEW i \in 1..m
        PROVE  Units(rest)[i] = IF i <= k THEN Units(lots)[i] - Units(pieces)[i] ELSE Units(lots)[i]
    BY <1>5, <1>6, <1>8, <2>2
  <2>4. /\ Len(Units(rest)) = Len(Units(lots)) /\ Len(Units(pieces)) <= Len(Units(lots))
        /\ \A i \in 1..Len(Units(lots)) : Units(rest)[i] =
             IF i <= Len(Units(pieces)) THEN Units(lots)[i] - Units(pieces)[i] ELSE Units(lots)[i]
    BY <1>1, <2>2, <2>3
  <2> QED BY <2>1, <2>4, CutSums DEF LotsUnits
<1>10. LotsCost(rest) = LotsCost(lots) - LotsCost(pieces)
  <2>1. Costs(rest) \in Seq(Int) /\ Costs(lots) \in Seq(Int) /\ Costs(pieces) \in Seq(Int)
    BY <1>6, PiecesAdd, SumsGrow
  <2>2. /\ Len(Costs(rest)) = m /\ \A i \in 1..m : Costs(rest)[i] = rest[i].cost
        /\ Len(Costs(lots)) = m /\ \A i \in 1..m : Costs(lots)[i] = lots[i].cost
        /\ Len(Costs(pieces)) = k /\ \A i \in 1..k : Costs(pieces)[i] = pieces[i].cost
    BY <1>6, PiecesAdd
  <2>3. ASSUME NEW i \in 1..m
        PROVE  Costs(rest)[i] = IF i <= k THEN Costs(lots)[i] - Costs(pieces)[i] ELSE Costs(lots)[i]
    BY <1>5, <1>6, <1>8, <2>2
  <2>4. /\ Len(Costs(rest)) = Len(Costs(lots)) /\ Len(Costs(pieces)) <= Len(Costs(lots))
        /\ \A i \in 1..Len(Costs(lots)) : Costs(rest)[i] =
             IF i <= Len(Costs(pieces)) THEN Costs(lots)[i] - Costs(pieces)[i] ELSE Costs(lots)[i]
    BY <1>1, <2>2, <2>3
  <2> QED BY <2>1, <2>4, CutSums DEF LotsCost
<1>11. SameNumbers(rest, lots)
  <2>1. \A i \in 1..m : rest[i].lot = lots[i].lot
    BY <1>3, <1>5, <1>6
  <2> QED BY <1>6, <2>1, AlikeByNumber
<1> QED BY <1>6, <1>7, <1>8, <1>9, <1>10, <1>11 DEF rest

\* A queue without its first lots, which hold neither units nor cost.
LEMMA WithoutFirst ==
  ASSUME NEW lots \in Seq(Piece), NEW w \in 0..Len(lots),
         \A i \in 1..w : lots[i].qty = 0 /\ lots[i].cost = 0
  PROVE  LET left == SubSeq(lots, w + 1, Len(lots))
         IN /\ left \in Seq(Piece) /\ Len(left) = Len(lots) - w
            /\ \A i \in 1..(Len(lots) - w) : left[i] = lots[w + i]
            /\ LotsUnits(left) = LotsUnits(lots) /\ LotsCost(left) = LotsCost(lots)
<1> DEFINE m == Len(lots)
           left == SubSeq(lots, w + 1, m)
<1>1. m \in Nat /\ w \in Nat /\ w <= m /\ w \in 0..m /\ m - w \in Nat /\ w + (m - w) = m
  OBVIOUS
<1>2. left \in Seq(Piece) /\ Len(left) = m - w /\ \A i \in 1..(m - w) : left[i] = lots[w + i]
  <2>1. m \in Nat /\ w \in Nat /\ w <= m /\ \A i \in 1..m : lots[i] \in Piece
    BY <1>1
  <2> QED BY <2>1
<1> HIDE DEF left
<1>3. \A i \in 1..w : i \in 1..m
  BY <1>1
<1>4. ASSUME NEW i \in 1..(m - w) PROVE w + i \in 1..m
  BY <1>1
<1>5. LotsUnits(left) = LotsUnits(lots)
  <2> DEFINE s == Units(lots)
             t == Units(left)
  <2>1. s \in Seq(Int) /\ t \in Seq(Int)
    BY <1>2, PiecesAdd, SumsGrow
  <2>2. /\ Len(s) = m /\ \A i \in 1..m : s[i] = lots[i].qty
        /\ Len(t) = m - w /\ \A i \in 1..(m - w) : t[i] = left[i].qty
    BY <1>2, PiecesAdd
  <2> HIDE DEF s, t, m
  <2>3. \A i \in 1..(m - w) : t[i] = s[w + i]
    BY <1>2, <1>4, <2>2, ZenonT(60)
  <2>4. \A i \in 0..(m - w) : Prefix(t)[i] = Prefix(s)[w + i] - Prefix(s)[w]
    <3>1. Len(s) = w + Len(t) /\ \A i \in 1..Len(t) : t[i] = s[w + i]
      BY <1>1, <2>2, <2>3
    <3>2. \A i \in 0..Len(t) : Prefix(t)[i] = Prefix(s)[w + i] - Prefix(s)[w]
      BY <1>1, <2>1, <3>1, LaterSums
    <3> QED BY <2>2, <3>2
  <2>5. Prefix(s)[w] = 0
    <3>1. w \in 0..Len(s) /\ \A i \in 1..w : s[i] = 0
      BY <1>1, <1>3, <2>2
    <3> QED BY <2>1, <3>1, ZerosAdd
  <2>6. Prefix(t)[m - w] = Prefix(s)[m] - 0
    <3>1. m - w \in 0..(m - w)
      BY <1>1
    <3> QED BY <1>1, <2>4, <2>5, <3>1
  <2>7. Total(t) = Prefix(t)[m - w] /\ Total(s) = Prefix(s)[m] /\ Total(s) \in Int
    BY <2>1, <2>2, TotalIs
  <2>8. Total(t) = Total(s)
    BY <2>6, <2>7
  <2> QED BY <2>8 DEF LotsUnits, s, t
<1>6. LotsCost(left) = LotsCost(lots)
  <2> DEFINE s == Costs(lots)
             t == Costs(left)
  <2>1. s \in Seq(Int) /\ t \in Seq(Int)
    BY <1>2, PiecesAdd, SumsGrow
  <2>2. /\ Len(s) = m /\ \A i \in 1..m : s[i] = lots[i].cost
        /\ Len(t) = m - w /\ \A i \in 1..(m - w) : t[i] = left[i].cost
    BY <1>2, PiecesAdd
  <2> HIDE DEF s, t, m
  <2>3. \A i \in 1..(m - w) : t[i] = s[w + i]
    BY <1>2, <1>4, <2>2
  <2>4. \A i \in 0..(m - w) : Prefix(t)[i] = Prefix(s)[w + i] - Prefix(s)[w]
    <3>1. Len(s) = w + Len(t) /\ \A i \in 1..Len(t) : t[i] = s[w + i]
      BY <1>1, <2>2, <2>3
    <3>2. \A i \in 0..Len(t) : Prefix(t)[i] = Prefix(s)[w + i] - Prefix(s)[w]
      BY <1>1, <2>1, <3>1, LaterSums
    <3> QED BY <2>2, <3>2
  <2>5. Prefix(s)[w] = 0
    <3>1. w \in 0..Len(s) /\ \A i \in 1..w : s[i] = 0
      BY <1>1, <1>3, <2>2
    <3> QED BY <2>1, <3>1, ZerosAdd
  <2>6. Prefix(t)[m - w] = Prefix(s)[m] - 0
    <3>1. m - w \in 0..(m - w)
      BY <1>1
    <3> QED BY <1>1, <2>4, <2>5, <3>1
  <2>7. Total(t) = Prefix(t)[m - w] /\ Total(s) = Prefix(s)[m] /\ Total(s) \in Int
    BY <2>1, <2>2, TotalIs
  <2>8. Total(t) = Total(s)
    BY <2>6, <2>7
  <2> QED BY <2>8 DEF LotsCost, s, t
<1> QED BY <1>2, <1>5, <1>6 DEF left

\* What a release leaves is what is not taken of the lots, past those that go whole.
LEMMA CutIs ==
  ASSUME NEW lots \in Seq(Piece), NEW pieces \in Seq(Piece), Len(pieces) <= Len(lots),
         \A i \in 1..Len(pieces) : i < Len(pieces) => pieces[i].qty = lots[i].qty
  PROVE  LET rest == [i \in DOMAIN lots |->
                        IF i \in DOMAIN pieces THEN Rest(lots[i], pieces[i]) ELSE lots[i]]
         IN \E w \in 0..Len(pieces) :
              /\ LeftBy(lots, pieces) = SubSeq(rest, w + 1, Len(lots))
              /\ \A i \in 1..Len(pieces) : i <= w <=> pieces[i].qty = lots[i].qty
<1> DEFINE k == Len(pieces)
           S == {i \in DOMAIN pieces : pieces[i].qty = lots[i].qty}
           w == Cardinality(S)
           rest == [i \in DOMAIN lots |->
                      IF i \in DOMAIN pieces THEN Rest(lots[i], pieces[i]) ELSE lots[i]]
<1>1. k \in Nat /\ DOMAIN pieces = 1..k
  OBVIOUS
<1>2. LeftBy(lots, pieces) = SubSeq(rest, w + 1, Len(lots))
  BY Zenon DEF LeftBy
<1> HIDE DEF rest
<1>3. \A i \in 1..k : i \in S <=> pieces[i].qty = lots[i].qty
  BY <1>1
<1>4. w \in 0..k /\ S = 1..w
  <2>1. S \in SUBSET (1..k)
    BY <1>1
  <2>2. ASSUME NEW i \in S, NEW j \in 1..i PROVE j \in S
    <3>1. i \in 1..k /\ j \in 1..k
      BY <2>1
    <3>2. j = i \/ j < k
      BY <1>1, <3>1
    <3>3. CASE j < k
      BY <1>1, <3>1, <3>3
    <3> QED BY <3>2, <3>3
  <2> HIDE DEF S
  <2> QED BY <1>1, <2>1, <2>2, FirstOnes
<1> HIDE DEF S, w
<1>5. \A i \in 1..k : i <= w <=> pieces[i].qty = lots[i].qty
  <2>1. \A i \in 1..k : i <= w <=> i \in S
    BY <1>1, <1>4
  <2> QED BY <1>3, <2>1
<1> QED BY <1>2, <1>4, <1>5 DEF rest

\* What a release leaves of the queue.
LEMMA LeftIs ==
  ASSUME NEW lots \in Seq(Piece), InOrder(lots), NEW pieces \in Seq(Piece),
         Len(pieces) <= Len(lots),
         \A i \in 1..Len(pieces) :
           /\ pieces[i].qty <= lots[i].qty /\ pieces[i].cost <= lots[i].cost
           /\ pieces[i].qty = lots[i].qty => pieces[i].cost = lots[i].cost
           /\ i < Len(pieces) => pieces[i].qty = lots[i].qty
  PROVE  LET left == LeftBy(lots, pieces)
         IN /\ left \in Seq(Piece) /\ InOrder(left)
            /\ LotsUnits(left) = LotsUnits(lots) - LotsUnits(pieces)
            /\ LotsCost(left) = LotsCost(lots) - LotsCost(pieces)
            /\ \A i \in 1..Len(left) : \E j \in 1..Len(lots) : left[i].day = lots[j].day
            /\ KeepsNumbers(left, lots)
<1> DEFINE m == Len(lots)
           k == Len(pieces)
           rest == [i \in DOMAIN lots |->
                      IF i \in DOMAIN pieces THEN Rest(lots[i], pieces[i]) ELSE lots[i]]
<1>1. m \in Nat /\ k \in Nat /\ k <= m /\ DOMAIN pieces = 1..k
  OBVIOUS
<1>2. PICK w \in 0..k : /\ LeftBy(lots, pieces) = SubSeq(rest, w + 1, m)
                        /\ \A i \in 1..k : i <= w <=> pieces[i].qty = lots[i].qty
  BY CutIs
<1> DEFINE left == SubSeq(rest, w + 1, m)
<1>3. w \in 0..k /\ LeftBy(lots, pieces) = left
  BY <1>2
<1>4. /\ rest \in Seq(Piece) /\ Len(rest) = m
      /\ LotsUnits(rest) = LotsUnits(lots) - LotsUnits(pieces)
      /\ LotsCost(rest) = LotsCost(lots) - LotsCost(pieces)
      /\ \A i \in 1..m : rest[i].day = lots[i].day
      /\ SameNumbers(rest, lots)
      /\ \A i \in 1..k : /\ rest[i].qty = lots[i].qty - pieces[i].qty
                         /\ rest[i].cost = lots[i].cost - pieces[i].cost
  BY RestIs
<1> HIDE DEF rest
<1>5. ASSUME NEW i \in 1..w PROVE rest[i].qty = 0 /\ rest[i].cost = 0
  <2>1. i \in 1..k /\ i \in 1..m /\ i <= w
    BY <1>1, <1>3
  <2>2. pieces[i].qty = lots[i].qty /\ pieces[i].cost = lots[i].cost
    BY <1>2, <2>1
  <2>3. lots[i].qty \in Nat /\ lots[i].cost \in Nat
    BY <2>1, PiecesAdd, PieceIs
  <2> QED BY <1>4, <2>1, <2>2, <2>3
<1>6. w \in 0..m /\ w \in Nat
  BY <1>1, <1>3
<1>7. /\ left \in Seq(Piece) /\ Len(left) = m - w
      /\ \A i \in 1..(m - w) : left[i] = rest[w + i]
      /\ LotsUnits(left) = LotsUnits(rest) /\ LotsCost(left) = LotsCost(rest)
  <2>1. w \in 0..Len(rest) /\ \A i \in 1..w : rest[i].qty = 0 /\ rest[i].cost = 0
    BY <1>4, <1>5, <1>6
  <2>2. LET cut == SubSeq(rest, w + 1, Len(rest))
        IN /\ cut \in Seq(Piece) /\ Len(cut) = Len(rest) - w
           /\ \A i \in 1..(Len(rest) - w) : cut[i] = rest[w + i]
           /\ LotsUnits(cut) = LotsUnits(rest) /\ LotsCost(cut) = LotsCost(rest)
    BY <1>4, <2>1, WithoutFirst
  <2> HIDE DEF m
  <2> QED BY <1>4, <2>2
<1>8. InOrder(rest)
  <2>1. Len(lots) = Len(rest) /\ \A i \in 1..Len(lots) : rest[i].day = lots[i].day
    BY <1>4
  <2> QED BY <1>4, <2>1, SameDays
<1> HIDE DEF left, m
<1>9. ASSUME NEW i \in 1..(m - w) PROVE w + i \in 1..m
  BY <1>1, <1>6
<1>10. InOrder(left)
  <2> SUFFICES ASSUME NEW i \in 2..(m - w) PROVE left[i - 1].day <= left[i].day
    BY <1>7 DEF InOrder
  <2>1. /\ i \in 1..(m - w) /\ i - 1 \in 1..(m - w) /\ w + i \in 2..m
        /\ w + (i - 1) = (w + i) - 1
    BY <1>1, <1>6
  <2>2. rest[(w + i) - 1].day <= rest[w + i].day
    BY <1>4, <1>8, <2>1 DEF InOrder
  <2>3. left[i] = rest[w + i] /\ left[i - 1] = rest[(w + i) - 1]
    BY <1>7, <2>1
  <2> QED BY <2>2, <2>3
<1>11. \A i \in 1..Len(left) : \E j \in 1..m : left[i].day = lots[j].day
  <2> SUFFICES ASSUME NEW i \in 1..(m - w) PROVE \E j \in 1..m : left[i].day = lots[j].day
    BY <1>7
  <2>1. w + i \in 1..m /\ left[i].day = lots[w + i].day
    BY <1>4, <1>7, <1>9
  <2> QED BY <2>1
<1>12. ASSUME NEW M, NumberedBy(lots, M) PROVE NumberedBy(left, M)
  <2>1. DOMAIN rest = 1..m /\ DOMAIN left = 1..(m - w)
    BY <1>4, <1>7
  <2>2. /\ \A i, j \in 1..m : rest[i].lot = rest[j].lot => i = j
        /\ \A i \in 1..m : rest[i].lot \in M
    BY <1>4, <1>12, <2>1 DEF SameNumbers, NumberedBy
  <2>3. \A i \in 1..(m - w) : left[i].lot \in M
    BY <1>7, <1>9, <2>2
  <2>4. ASSUME NEW i \in 1..(m - w), NEW j \in 1..(m - w), left[i].lot = left[j].lot PROVE i = j
    <3>1. rest[w + i].lot = rest[w + j].lot /\ w + i \in 1..m /\ w + j \in 1..m
      BY <1>7, <1>9, <2>4
    <3>2. w + i = w + j
      BY <2>2, <3>1
    <3> QED BY <1>6, <3>2
  <2> QED BY <2>1, <2>3, <2>4 DEF NumberedBy
<1>13. KeepsNumbers(left, lots)
  BY <1>12 DEF KeepsNumbers
<1> QED BY <1>3, <1>4, <1>7, <1>10, <1>11, <1>13 DEF m

LEMMA WithoutUnitsIs ==
  ASSUME NEW lots \in Seq(Piece)
  PROVE  LET bare == WithoutUnits(lots)
         IN /\ bare \in Seq(Piece) /\ Len(bare) = Len(lots)
            /\ \A i \in 1..Len(lots) : bare[i].qty = 0 /\ bare[i].cost = lots[i].cost
            /\ LotsUnits(bare) = 0 /\ LotsCost(bare) = LotsCost(lots)
<1> DEFINE bare == WithoutUnits(lots)
<1>1. Len(lots) \in Nat /\ DOMAIN lots = 1..Len(lots) /\ \A i \in 1..Len(lots) : lots[i] \in Piece
  BY PiecesAdd
<1>2. ASSUME NEW i \in 1..Len(lots)
      PROVE  /\ [lots[i] EXCEPT !.qty = 0] \in Piece /\ [lots[i] EXCEPT !.qty = 0].qty = 0
             /\ [lots[i] EXCEPT !.qty = 0].cost = lots[i].cost
  BY <1>1 DEF Piece
<1>3. bare = [i \in 1..Len(lots) |-> [lots[i] EXCEPT !.qty = 0]]
  BY <1>1, Zenon DEF WithoutUnits
<1> HIDE DEF bare
<1>4. /\ bare \in Seq(Piece) /\ Len(bare) = Len(lots)
      /\ \A i \in 1..Len(lots) : bare[i].qty = 0 /\ bare[i].cost = lots[i].cost
  <2> DEFINE x(i) == [lots[i] EXCEPT !.qty = 0]
  <2> HIDE DEF x
  <2>1. bare = [i \in 1..Len(lots) |-> x(i)]
    BY <1>3, Zenon DEF x
  <2>2. \A i \in 1..Len(lots) : x(i) \in Piece /\ x(i).qty = 0 /\ x(i).cost = lots[i].cost
    BY <1>2, Zenon DEF x
  <2> QED BY <1>1, <2>1, <2>2
<1>5. LotsUnits(bare) = 0
  <2>1. /\ Units(bare) \in Seq(Int) /\ Len(Units(bare)) = Len(lots)
        /\ \A i \in 1..Len(lots) : Units(bare)[i] = bare[i].qty
        /\ LotsUnits(bare) = Prefix(Units(bare))[Len(lots)]
    BY <1>4, PiecesAdd, SumsGrow
  <2>2. Len(lots) \in 0..Len(Units(bare)) /\ \A i \in 1..Len(lots) : Units(bare)[i] = 0
    BY <1>1, <1>4, <2>1
  <2> QED BY <2>1, <2>2, ZerosAdd
<1>6. LotsCost(bare) = LotsCost(lots)
  BY <1>4, SameCosts
<1> QED BY <1>4, <1>5, <1>6 DEF bare

\* The cost of lots without units leaves with the last unit.
LEMMA SweepIs ==
  ASSUME NEW lots \in Seq(Piece)
  PROVE  /\ Sweep(lots) \in Seq(Piece)
         /\ LotsUnits(Sweep(lots)) = 0 /\ LotsCost(Sweep(lots)) = LotsCost(lots)
<1> DEFINE bare == WithoutUnits(lots)
           keep == {i \in DOMAIN lots : lots[i].cost # 0}
<1>1. /\ bare \in Seq(Piece) /\ Len(bare) = Len(lots)
      /\ \A i \in 1..Len(lots) : bare[i].qty = 0 /\ bare[i].cost = lots[i].cost
      /\ LotsUnits(bare) = 0 /\ LotsCost(bare) = LotsCost(lots)
  BY WithoutUnitsIs
<1> HIDE DEF bare
<1>2. \A i \in 1..Len(bare) \ keep : bare[i].qty = 0 /\ bare[i].cost = 0
  BY <1>1
<1> HIDE DEF keep
<1>3. /\ Only(bare, keep) \in Seq(Piece)
      /\ LotsUnits(Only(bare, keep)) = LotsUnits(bare)
      /\ LotsCost(Only(bare, keep)) = LotsCost(bare)
  BY <1>1, <1>2, OnlyIs
<1>4. Sweep(lots) = Only(bare, keep)
  BY Zenon DEF Sweep, bare, keep
<1> QED BY <1>1, <1>3, <1>4

\* A release takes as many units as asked, and what it takes and what it leaves
\* is what there was.
LEMMA ReleaseIs ==
  ASSUME NEW d \in Nat, NEW p, IsPosition(p, d), NEW qty \in Nat \ {0}
  PROVE  LET r == ReleaseFIFO(p, qty)
         IN /\ r.ok <=> qty <= p.qty
            /\ qty <= p.qty =>
                 /\ r.pieces \in Seq(Piece) /\ LotsUnits(r.pieces) = qty
                 /\ IsPosition(r.pos, d) /\ r.pos.cost = p.cost - LotsCost(r.pieces)
                 /\ r.pos.realized = p.realized /\ r.pos.qty = p.qty - qty
                 /\ KeepsNumbers(r.pos.lots, p.lots)
<1> DEFINE lots == p.lots
           reached == Reached(lots, qty, Prefix(Units(lots)))
           left == LeftBy(lots, reached)
           all == reached \o Sweep(left)
           fits == qty <= p.qty
           r == ReleaseFIFO(p, qty)
           Took(pieces, rest) ==
             [ok |-> fits,
              pos |-> [p EXCEPT !.qty = @ - qty, !.cost = @ - LotsCost(pieces), !.lots = rest],
              pieces |-> pieces]
<1>1. r = IF qty = p.qty THEN Took(all, <<>>) ELSE Took(reached, left)
  BY Zenon DEF ReleaseFIFO, Withdrawn
<1>2. /\ DOMAIN p = DOMAIN NoPosition /\ lots \in Seq(Piece) /\ InOrder(lots)
      /\ LotsUnits(lots) = p.qty /\ LotsCost(lots) = p.cost
      /\ p.qty \in Nat /\ p.cost \in Nat
      /\ \A i \in 1..Len(lots) : lots[i].day <= d
      /\ p.realized \in Seq(Realization) /\ p.cur \in Int
  BY SoundIs
<1> HIDE DEF lots, reached, left, all, fits, r
<1>3. \A pieces, rest :
        LET t == Took(pieces, rest)
        IN /\ t.ok = fits /\ t.pieces = pieces
           /\ DOMAIN t.pos = DOMAIN NoPosition /\ t.pos.qty = p.qty - qty
           /\ t.pos.cost = p.cost - LotsCost(pieces) /\ t.pos.lots = rest
           /\ t.pos.realized = p.realized /\ t.pos.cur = p.cur
  BY <1>2, FieldsAre
<1> HIDE DEF Took
<1>4. r.ok <=> fits
  BY <1>1, <1>3
<1>5. ASSUME fits
      PROVE  /\ r.pieces \in Seq(Piece) /\ LotsUnits(r.pieces) = qty
             /\ IsPosition(r.pos, d) /\ r.pos.cost = p.cost - LotsCost(r.pieces)
             /\ r.pos.realized = p.realized /\ r.pos.qty = p.qty - qty
             /\ KeepsNumbers(r.pos.lots, lots)
  <2>1. qty <= LotsUnits(lots)
    BY <1>2, <1>5 DEF fits
  <2>2. /\ reached \in Seq(Piece) /\ Len(reached) <= Len(lots) /\ LotsUnits(reached) = qty
        /\ \A i \in 1..Len(reached) :
             /\ reached[i].qty <= lots[i].qty /\ reached[i].cost <= lots[i].cost
             /\ reached[i].day = lots[i].day
             /\ reached[i].qty = lots[i].qty => reached[i].cost = lots[i].cost
             /\ i < Len(reached) => reached[i].qty = lots[i].qty
    BY <1>2, <2>1, ReachedIs DEF reached
  <2>3. /\ left \in Seq(Piece) /\ InOrder(left)
        /\ LotsUnits(left) = LotsUnits(lots) - LotsUnits(reached)
        /\ LotsCost(left) = LotsCost(lots) - LotsCost(reached)
        /\ \A i \in 1..Len(left) : \E j \in 1..Len(lots) : left[i].day = lots[j].day
        /\ KeepsNumbers(left, lots)
    BY <1>2, <2>2, LeftIs DEF left
  <2>4. LotsCost(reached) \in Nat /\ LotsCost(left) \in Nat
    BY <2>2, <2>3, PiecesAdd
  <2>5. CASE qty = p.qty
    <3>1. r = Took(all, <<>>)
      BY <1>1, <2>5
    <3>2. /\ Sweep(left) \in Seq(Piece)
          /\ LotsUnits(Sweep(left)) = 0 /\ LotsCost(Sweep(left)) = LotsCost(left)
      BY <2>3, SweepIs
    <3>3. /\ all \in Seq(Piece) /\ LotsUnits(all) = qty + 0
          /\ LotsCost(all) = LotsCost(reached) + LotsCost(left)
      BY <2>2, <3>2, PiecesJoin DEF all
    <3>4. LotsCost(all) = p.cost
      BY <1>2, <2>3, <2>4, <3>3
    <3>5. /\ r.pieces = all /\ DOMAIN r.pos = DOMAIN NoPosition /\ r.pos.qty = 0
          /\ r.pos.cost = p.cost - LotsCost(all) /\ r.pos.lots = <<>>
          /\ r.pos.realized = p.realized /\ r.pos.cur = p.cur
      BY <1>2, <1>3, <2>5, <3>1
    <3>6. Queue(<<>>, 0, 0)
      <4>1. <<>> \in Seq(Piece) /\ Len(<<>>) = 0 /\ InOrder(<<>>)
        BY DEF InOrder
      <4>2. LotsUnits(<<>>) = 0 /\ LotsCost(<<>>) = 0
        <5>1. /\ Units(<<>>) \in Seq(Int) /\ Len(Units(<<>>)) = 0
              /\ Costs(<<>>) \in Seq(Int) /\ Len(Costs(<<>>)) = 0
          BY <4>1, PiecesAdd, SumsGrow
        <5> QED BY <5>1, TotalIs DEF LotsUnits, LotsCost
      <4> QED BY <4>1, <4>2 DEF Queue
    <3>7. r.pos.cost = 0 /\ Len(r.pos.lots) = 0
      BY <1>2, <3>4, <3>5
    <3>8. IsPosition(r.pos, d)
      BY <1>2, <3>5, <3>6, <3>7 DEF IsPosition
    <3>9. KeepsNumbers(r.pos.lots, lots)
      BY <3>5, NoneNumbered DEF KeepsNumbers
    <3> QED BY <1>2, <2>5, <3>3, <3>5, <3>8, <3>9
  <2>6. CASE qty # p.qty
    <3>1. r = Took(reached, left)
      BY <1>1, <2>6
    <3>2. /\ r.pieces = reached /\ DOMAIN r.pos = DOMAIN NoPosition /\ r.pos.qty = p.qty - qty
          /\ r.pos.cost = p.cost - LotsCost(reached) /\ r.pos.lots = left
          /\ r.pos.realized = p.realized /\ r.pos.cur = p.cur
      BY <1>3, <3>1
    <3>3. Queue(left, p.qty - qty, p.cost - LotsCost(reached))
      BY <1>2, <2>2, <2>3 DEF Queue
    <3>4. \A i \in 1..Len(left) : left[i].day <= d
      BY <1>2, <2>3
    <3>5. IsPosition(r.pos, d)
      BY <1>2, <3>2, <3>3, <3>4 DEF IsPosition
    <3> QED BY <2>2, <2>3, <3>2, <3>5
  <2> QED BY <2>5, <2>6
<1> QED BY <1>4, <1>5 DEF fits, r, lots

-----------------------------------------------------------------------------
(* Shares of the basis. *)

\* Counting the places of a set up to each place.
LEMMA CountSums ==
  ASSUME NEW s \in Seq(Int), NEW H \in SUBSET (1..Len(s)),
         \A i \in 1..Len(s) : s[i] = IF i \in H THEN 1 ELSE 0
  PROVE  IsFiniteSet(H) /\ Cardinality(H) \in Nat /\ Total(s) = Cardinality(H)
<1> DEFINE m == Len(s)
           upTo(i) == {j \in H : j <= i}
           G == {i \in 0..m : IsFiniteSet(upTo(i)) /\ Prefix(s)[i] = Cardinality(upTo(i))}
<1>1. m \in Nat /\ \A j \in H : j \in Int /\ j >= 1 /\ j <= m
  OBVIOUS
<1>2. Prefix(s)[0] = 0 /\ \A i \in 1..m : Prefix(s)[i] = Prefix(s)[i - 1] + s[i]
  BY PrefixIs
<1>3. 0 \in G
  <2>1. upTo(0) = {}
    <3>1. \A j \in H : ~(j <= 0)
      BY <1>1
    <3> QED BY <3>1
  <2>2. IsFiniteSet(upTo(0)) /\ Cardinality(upTo(0)) = 0
    <3> HIDE DEF upTo
    <3> QED BY <2>1, FS_EmptySet
  <2> HIDE DEF upTo
  <2>3. 0 \in 0..m
    BY <1>1
  <2> QED BY <1>2, <2>2, <2>3
<1>4. ASSUME NEW i \in 1..m, i - 1 \in G PROVE i \in G
  <2>1. /\ IsFiniteSet(upTo(i - 1)) /\ Prefix(s)[i - 1] = Cardinality(upTo(i - 1))
        /\ Prefix(s)[i] = Prefix(s)[i - 1] + s[i] /\ i \in 0..m
    BY <1>1, <1>2, <1>4
  <2>2. CASE i \in H
    <3>1. upTo(i) = upTo(i - 1) \cup {i} /\ i \notin upTo(i - 1)
      <4>1. i \in Int /\ ~(i <= i - 1) /\ \A j \in H : j <= i <=> j <= i - 1 \/ j = i
        BY <1>1
      <4> QED BY <2>2, <4>1
    <3>2. s[i] = 1
      BY <2>2
    <3> HIDE DEF upTo
    <3>3. IsFiniteSet(upTo(i)) /\ Cardinality(upTo(i)) = Cardinality(upTo(i - 1)) + 1
      <4>1. Cardinality(upTo(i - 1)) \in Nat
        BY <2>1, FS_CardinalityType
      <4>2. /\ IsFiniteSet(upTo(i - 1) \cup {i})
            /\ Cardinality(upTo(i - 1) \cup {i})
                 = IF i \in upTo(i - 1) THEN Cardinality(upTo(i - 1))
                   ELSE Cardinality(upTo(i - 1)) + 1
        BY <2>1, FS_AddElement
      <4> QED BY <3>1, <4>2, Zenon
    <3>4. Prefix(s)[i] = Cardinality(upTo(i))
      BY <2>1, <3>2, <3>3
    <3> QED BY <2>1, <3>3, <3>4
  <2>3. CASE i \notin H
    <3>1. upTo(i) = upTo(i - 1)
      <4>1. \A j \in H : j <= i <=> j <= i - 1
        BY <1>1, <2>3
      <4> QED BY <4>1
    <3>2. s[i] = 0
      BY <2>3
    <3> HIDE DEF upTo
    <3>3. Cardinality(upTo(i - 1)) \in Nat
      BY <2>1, FS_CardinalityType
    <3>4. Prefix(s)[i] = Cardinality(upTo(i))
      BY <2>1, <3>1, <3>2, <3>3
    <3> QED BY <2>1, <3>1, <3>4
  <2> QED BY <2>2, <2>3
<1>5. m \in G
  <2> HIDE DEF G, m
  <2>1. \A i \in 0..m : i \in G
    BY <1>1, <1>3, <1>4, Climbing
  <2> QED BY <1>1, <2>1
<1>6. upTo(m) = H
  <2>1. \A j \in H : j <= m
    BY <1>1
  <2> HIDE DEF m
  <2> QED BY <2>1
<1> HIDE DEF upTo
<1>7. IsFiniteSet(H) /\ Prefix(s)[m] = Cardinality(H)
  BY <1>5, <1>6
<1> QED BY <1>7, FS_CardinalityType DEF Total

\* x times the elements of s is y times those of t, and those of u, place by place.
InStepOf(x, s, y, t, u) ==
  /\ s \in Seq(Int) /\ t \in Seq(Int) /\ u \in Seq(Int) /\ x \in Int /\ y \in Int
  /\ Len(t) = Len(s) /\ Len(u) = Len(s)
  /\ \A i \in 1..Len(s) : x * s[i] = y * t[i] + u[i]

\* Sums keep a linear equation between the elements.
LEMMA LinearSums ==
  ASSUME NEW s, NEW t, NEW u, NEW x, NEW y, InStepOf(x, s, y, t, u)
  PROVE  x * Total(s) = y * Total(t) + Total(u)
<1>0. /\ s \in Seq(Int) /\ t \in Seq(Int) /\ u \in Seq(Int) /\ x \in Int /\ y \in Int
      /\ Len(t) = Len(s) /\ Len(u) = Len(s)
      /\ \A i \in 1..Len(s) : x * s[i] = y * t[i] + u[i]
  BY DEF InStepOf
<1> DEFINE G == {i \in 0..Len(s) : x * Prefix(s)[i] = y * Prefix(t)[i] + Prefix(u)[i]}
<1>1. Len(s) \in Nat
  BY <1>0
<1>2. /\ Prefix(s) \in [0..Len(s) -> Int] /\ Prefix(s)[0] = 0
      /\ \A i \in 1..Len(s) : Prefix(s)[i] = Prefix(s)[i - 1] + s[i]
  BY <1>0, PrefixIs
<1>3. /\ Prefix(t) \in [0..Len(s) -> Int] /\ Prefix(t)[0] = 0
      /\ \A i \in 1..Len(s) : Prefix(t)[i] = Prefix(t)[i - 1] + t[i]
  BY <1>0, PrefixIs
<1>4. /\ Prefix(u) \in [0..Len(s) -> Int] /\ Prefix(u)[0] = 0
      /\ \A i \in 1..Len(s) : Prefix(u)[i] = Prefix(u)[i - 1] + u[i]
  BY <1>0, PrefixIs
<1>5. 0 \in G
  <2>1. x * 0 = y * 0 + 0
    BY <1>0
  <2> QED BY <1>0, <1>1, <1>2, <1>3, <1>4, <2>1
<1>6. ASSUME NEW i \in 1..Len(s), i - 1 \in G PROVE i \in G
  <2> DEFINE a == Prefix(s)[i - 1]
             b == Prefix(t)[i - 1]
             c == Prefix(u)[i - 1]
             e == s[i]
             f == t[i]
             g == u[i]
  <2>1. i \in 0..Len(s) /\ i - 1 \in 0..Len(s)
    BY <1>1
  <2>2. a \in Int /\ b \in Int /\ c \in Int
    BY <1>2, <1>3, <1>4, <2>1
  <2>3. e \in Int /\ f \in Int /\ g \in Int
    BY <1>0, SMTT(30)
  <2>4. x * a = y * b + c /\ x * e = y * f + g
    BY <1>0, <1>6
  <2>5. Prefix(s)[i] = a + e /\ Prefix(t)[i] = b + f /\ Prefix(u)[i] = c + g
    BY <1>2, <1>3, <1>4
  <2> HIDE DEF a, b, c, e, f, g
  <2>6. x * (a + e) = x * a + x * e /\ y * (b + f) = y * b + y * f
    BY <1>0, <2>2, <2>3
  <2>7. x * a \in Int /\ x * e \in Int /\ y * b \in Int /\ y * f \in Int
    BY <1>0, <2>2, <2>3
  <2>8. x * (a + e) = y * (b + f) + (c + g)
    BY <1>0, <2>2, <2>3, <2>4, <2>6, <2>7, SMTT(30)
  <2> QED BY <2>1, <2>5, <2>8
<1>7. Len(s) \in G
  <2> HIDE DEF G
  <2>1. \A i \in 0..Len(s) : i \in G
    BY <1>1, <1>5, <1>6, Climbing
  <2> QED BY <1>1, <2>1
<1> QED BY <1>0, <1>7 DEF Total

\* Among m places ordered by what they hold, the larger first and the earlier
\* first among equals, as many as one likes are the first.
LEMMA RanksFill ==
  ASSUME NEW m \in Nat, NEW rem \in [1..m -> Nat], NEW count \in 0..m
  PROVE  LET Ahead(i) == {j \in 1..m : rem[j] > rem[i] \/ (rem[j] = rem[i] /\ j < i)}
         IN Cardinality({i \in 1..m : Cardinality(Ahead(i)) < count}) = count
<1> DEFINE Before(j, i) == rem[j] > rem[i] \/ (rem[j] = rem[i] /\ j < i)
           Ahead(i) == {j \in 1..m : Before(j, i)}
           rank(i) == Cardinality(Ahead(i))
           First(c) == {i \in 1..m : rank(i) < c}
           G == {c \in 0..m : Cardinality(First(c)) = c}
<1>1. \A i, j, k \in 1..m : /\ ~Before(i, i)
                            /\ i # j => Before(i, j) \/ Before(j, i)
                            /\ Before(i, j) /\ Before(j, k) => Before(i, k)
  <2>1. \A i \in 1..m : rem[i] \in Nat /\ i \in Nat
    OBVIOUS
  <2> QED BY <2>1
<1> HIDE DEF Before
<1>2. IsFiniteSet(1..m) /\ Cardinality(1..m) = m
  BY FS_Interval
<1>3. \A S \in SUBSET (1..m) : IsFiniteSet(S) /\ Cardinality(S) \in Nat /\ Cardinality(S) <= m
  <2> SUFFICES ASSUME NEW S \in SUBSET (1..m)
               PROVE  IsFiniteSet(S) /\ Cardinality(S) \in Nat /\ Cardinality(S) <= m
    OBVIOUS
  <2>1. IsFiniteSet(S) /\ Cardinality(S) <= Cardinality(1..m)
    BY <1>2, FS_Subset
  <2> QED BY <1>2, <2>1, FS_CardinalityType
<1>4. ASSUME NEW i \in 1..m PROVE Ahead(i) \in SUBSET (1..m) /\ rank(i) \in Nat
  <2>1. Ahead(i) \in SUBSET (1..m)
    OBVIOUS
  <2> HIDE DEF Ahead
  <2> QED BY <1>3, <2>1
<1>5. ASSUME NEW i \in 1..m, NEW j \in 1..m, Before(j, i)
      PROVE  rank(j) < rank(i)
  <2>1. Ahead(j) \in SUBSET Ahead(i)
    BY <1>1, <1>5
  <2>2. j \in Ahead(i) /\ j \notin Ahead(j)
    BY <1>1, <1>5
  <2>3. IsFiniteSet(Ahead(i)) /\ rank(i) \in Nat /\ rank(j) \in Nat
    <3>1. Ahead(i) \in SUBSET (1..m)
      OBVIOUS
    <3> HIDE DEF Ahead
    <3> QED BY <1>3, <1>4, <3>1
  <2> HIDE DEF Ahead
  <2>4. rank(j) <= rank(i) /\ (rank(i) = rank(j) => Ahead(i) = Ahead(j))
    BY <2>1, <2>3, FS_Subset
  <2> QED BY <2>2, <2>3, <2>4
<1>6. ASSUME NEW i \in 1..m, NEW j \in 1..m, rank(j) < rank(i)
      PROVE  Before(j, i)
  <2>1. rank(i) \in Nat /\ rank(j) \in Nat
    BY <1>4
  <2>2. i # j
    <3> HIDE DEF rank
    <3> QED BY <1>6, <2>1
  <2>3. ASSUME Before(i, j) PROVE FALSE
    <3>1. rank(i) < rank(j)
      BY <1>5, <2>3
    <3> HIDE DEF rank
    <3> QED BY <1>6, <2>1, <3>1
  <2> QED BY <1>1, <2>2, <2>3
<1> HIDE DEF rank
<1>7. 0 \in G
  <2>1. First(0) = {}
    BY <1>4
  <2> HIDE DEF First
  <2> QED BY <2>1, FS_EmptySet
<1>8. ASSUME NEW c \in 1..m, c - 1 \in G PROVE c \in G
  <2> DEFINE b == c - 1
             Later == (1..m) \ First(b)
             R == {rank(i) : i \in Later}
  <2>1. b \in Nat /\ b < m /\ c = b + 1 /\ Cardinality(First(b)) = b
        /\ First(b) \in SUBSET (1..m)
    BY <1>8
  <2>2. Later # {}
    <3> HIDE DEF b
    <3>1. SUFFICES ASSUME Later = {} PROVE FALSE
      OBVIOUS
    <3>2. First(b) = 1..m
      BY <2>1, <3>1
    <3> HIDE DEF First
    <3> QED BY <1>2, <2>1, <3>2
  <2> HIDE DEF b, First
  <2>3. \A i \in Later : i \in 1..m /\ rank(i) \in Nat
    BY <1>4
  <2>4. PICK q \in R : \A r \in R : q <= r
    <3>1. R \in SUBSET Nat /\ R # {}
      BY <2>2, <2>3
    <3> QED BY <3>1, SmallestOf
  <2>5. PICK i \in Later : rank(i) = q
    BY <2>4
  <2>6. i \in 1..m /\ \A j \in Later : rank(i) <= rank(j)
    BY <2>3, <2>4, <2>5
  <2>7. Ahead(i) = First(b)
    <3>1. ASSUME NEW j \in Ahead(i) PROVE j \in First(b)
      <4>1. j \in 1..m /\ Before(j, i)
        OBVIOUS
      <4>2. rank(j) < rank(i) /\ rank(i) \in Nat /\ rank(j) \in Nat
        BY <1>4, <1>5, <2>6, <4>1
      <4>3. j \notin Later
        BY <2>6, <4>2
      <4> QED BY <4>1, <4>3
    <3>2. ASSUME NEW j \in First(b) PROVE j \in Ahead(i)
      <4>1. j \in 1..m /\ rank(j) < b
        BY DEF First
      <4>2. ~(rank(i) < b)
        BY <2>5 DEF First
      <4>3. rank(i) \in Nat /\ rank(j) \in Nat
        BY <1>4, <2>6, <4>1
      <4>4. rank(j) < rank(i)
        BY <2>1, <4>1, <4>2, <4>3
      <4>5. Before(j, i)
        BY <1>6, <2>6, <4>1, <4>4
      <4> QED BY <4>1, <4>5
    <3> HIDE DEF Ahead
    <3> QED BY <3>1, <3>2
  <2>8. rank(i) = b
    BY <2>1, <2>7, Zenon DEF rank
  <2>9. First(c) = First(b) \cup {i}
    <3>1. ASSUME NEW j \in First(c) PROVE j \in First(b) \cup {i}
      <4>1. j \in 1..m /\ rank(j) < c /\ rank(j) \in Nat
        BY <1>4 DEF First
      <4>2. CASE rank(j) < b
        BY <4>1, <4>2 DEF First
      <4>3. CASE ~(rank(j) < b)
        <5>1. rank(j) = rank(i)
          BY <2>1, <2>8, <4>1, <4>3
        <5>2. ~Before(i, j) /\ ~Before(j, i)
          <6>1. ~(rank(j) < rank(i)) /\ ~(rank(i) < rank(j))
            BY <4>1, <5>1
          <6> QED BY <1>5, <2>6, <4>1, <6>1
        <5> QED BY <1>1, <2>6, <4>1, <5>2
      <4> QED BY <4>2, <4>3
    <3>2. ASSUME NEW j \in First(b) PROVE j \in First(c)
      BY <1>4, <2>1, SMTT(30) DEF First
    <3>3. i \in First(c)
      BY <2>1, <2>6, <2>8 DEF First
    <3> QED BY <3>1, <3>2, <3>3
  <2>10. Cardinality(First(c)) = c
    <3>1. IsFiniteSet(First(b)) /\ i \notin First(b)
      BY <1>3, <2>1, <2>5
    <3> QED BY <2>1, <2>9, <3>1, FS_AddElement, SMTT(30)
  <2>11. c \in 0..m
    OBVIOUS
  <2> QED BY <2>10, <2>11
<1>9. count \in G
  <2> HIDE DEF G
  <2> QED BY <1>7, <1>8, Climbing
<1>10. Cardinality(First(count)) = count
  BY <1>9
<1> QED BY <1>10 DEF rank, Before

LEMMA DivisionIs ==
  ASSUME NEW a \in Nat, NEW b \in Nat \ {0}
  PROVE  a = b * (a \div b) + (a % b) /\ a \div b \in Nat /\ a % b \in 0..(b - 1)
<1>1. a \div b \in Nat
  OBVIOUS
<1>2. a % b \in Nat /\ a % b < b
  OBVIOUS
<1>3. a - b * (a \div b) = a % b
  OBVIOUS
<1>4. b * (a \div b) \in Int
  BY <1>1
<1> DEFINE c == b * (a \div b)
           r == a % b
           q == a \div b
<1>5. q \in Nat /\ r \in Nat /\ r < b /\ c \in Int /\ a - c = r
  BY <1>1, <1>2, <1>3, <1>4
<1> HIDE DEF c, r, q
<1>6. a = c + r /\ r \in 0..(b - 1)
  BY <1>5
<1>7. a = c + r /\ q \in Nat /\ r \in 0..(b - 1)
  BY <1>5, <1>6
<1> QED BY <1>7, Zenon DEF c, r, q

LEMMA SameOrLess ==
  ASSUME NEW b \in Nat \ {0}, NEW x \in Int, NEW y \in Int
  PROVE  /\ b * x <= b * y => x <= y
         /\ b * x < b * y => x < y
<1>1. ASSUME y < x PROVE b * y < b * x
  <2>1. b * (x - y) > 0 /\ b * (x - y) = b * x - b * y
    BY <1>1
  <2> QED BY <2>1
<1>2. b * x \in Int /\ b * y \in Int
  OBVIOUS
<1> QED BY <1>1, <1>2

\* Elements of at most b, and of nothing outside H, add up to at most b for
\* each place of H.
LEMMA BoundedSums ==
  ASSUME NEW s \in Seq(Int), NEW H \in SUBSET (1..Len(s)), NEW b \in Nat,
         \A i \in 1..Len(s) : s[i] <= b /\ (i \notin H => s[i] <= 0)
  PROVE  Total(s) <= b * Cardinality(H)
<1> DEFINE t == [i \in 1..Len(s) |-> IF i \in H THEN 1 ELSE 0]
           u == [i \in 1..Len(s) |-> b * t[i] - s[i]]
<1>1. Len(s) \in Nat /\ \A i \in 1..Len(s) : s[i] \in Int
  OBVIOUS
<1>2. t \in Seq(Int) /\ Len(t) = Len(s) /\ \A i \in 1..Len(s) : t[i] = IF i \in H THEN 1 ELSE 0
  BY <1>1
<1> HIDE DEF t
<1>3. \A i \in 1..Len(s) : b * t[i] - s[i] \in Nat
  <2> SUFFICES ASSUME NEW i \in 1..Len(s) PROVE b * t[i] - s[i] \in Nat
    OBVIOUS
  <2>1. CASE i \in H
    BY <1>1, <1>2, <2>1
  <2>2. CASE i \notin H
    BY <1>1, <1>2, <2>2
  <2> QED BY <2>1, <2>2
<1>4. u \in Seq(Nat) /\ Len(u) = Len(s) /\ \A i \in 1..Len(s) : u[i] = b * t[i] - s[i]
  BY <1>1, <1>3
<1> HIDE DEF u
<1>5. u \in Seq(Int) /\ Total(u) \in Nat
  BY <1>4, SumsGrow
<1>6. \A i \in 1..Len(s) : b * t[i] = 1 * s[i] + u[i]
  <2> SUFFICES ASSUME NEW i \in 1..Len(s) PROVE b * t[i] = 1 * s[i] + u[i]
    OBVIOUS
  <2>1. b * t[i] \in Int
    BY <1>2
  <2> QED BY <1>1, <1>4, <2>1
<1>7. b * Total(t) = 1 * Total(s) + Total(u)
  <2>1. Len(s) = Len(t) /\ Len(u) = Len(t) /\ \A i \in 1..Len(t) : b * t[i] = 1 * s[i] + u[i]
    BY <1>2, <1>4, <1>6
  <2>2. b \in Int /\ 1 \in Int
    OBVIOUS
  <2>3. s \in Seq(Int) /\ t \in Seq(Int) /\ u \in Seq(Int)
    BY <1>2, <1>5
  <2>4. Len(s) = Len(t)
    BY <1>2
  <2> DEFINE one == 1
  <2>5. one \in Int /\ \A i \in 1..Len(t) : b * t[i] = one * s[i] + u[i]
    BY <2>1, <2>2, Zenon
  <2> HIDE DEF one
  <2>6. InStepOf(b, t, one, s, u)
    BY <2>1, <2>2, <2>3, <2>5, Zenon DEF InStepOf
  <2>7. b * Total(t) = one * Total(s) + Total(u)
    BY <2>6, LinearSums
  <2> QED BY <2>7 DEF one
<1>8. Total(t) = Cardinality(H)
  <2>1. H \in SUBSET (1..Len(t)) /\ \A i \in 1..Len(t) : t[i] = IF i \in H THEN 1 ELSE 0
    BY <1>2
  <2> QED BY <1>2, <2>1, CountSums
<1>9. Total(s) \in Int
  BY TotalIs
<1>10. 1 * Total(s) = Total(s)
  BY <1>9
<1> QED BY <1>5, <1>7, <1>8, <1>9, <1>10

\* The largest-remainder allocation hands out exactly what is moved, and no
\* lot gives more than it cost.
LEMMA AllottedIs ==
  ASSUME NEW lots \in Seq(Piece), NEW total \in Nat \ {0}, total = LotsCost(lots),
         NEW moved \in 0..total
  PROVE  LET pieces == Allotted(lots, total, moved)
         IN /\ pieces \in Seq(Piece) /\ Len(pieces) = Len(lots)
            /\ LotsCost(pieces) = moved
            /\ \A i \in 1..Len(lots) : pieces[i].cost \in 0..lots[i].cost
<1> DEFINE m == Len(lots)
           floor == [i \in DOMAIN lots |-> (moved * lots[i].cost) \div total]
           rem == [i \in DOMAIN lots |-> (moved * lots[i].cost) % total]
           Ahead(i) == {j \in DOMAIN lots : rem[j] > rem[i] \/ (rem[j] = rem[i] /\ j < i)}
           extra == moved - Total(floor)
           given(i) == floor[i] + (IF Cardinality(Ahead(i)) < extra THEN 1 ELSE 0)
           pieces == [i \in DOMAIN lots |-> [lots[i] EXCEPT !.cost = given(i)]]
           cost(i) == lots[i].cost
<1>1. Allotted(lots, total, moved) = pieces
  BY Zenon DEF Allotted
<1>2. /\ m \in Nat /\ DOMAIN lots = 1..m
      /\ \A i \in 1..m : lots[i] \in Piece
      /\ Costs(lots) \in Seq(Nat) /\ Len(Costs(lots)) = m
      /\ \A i \in 1..m : Costs(lots)[i] = cost(i)
      /\ Total(Costs(lots)) = total
  BY PiecesAdd DEF LotsCost
<1>3. \A i \in 1..m : cost(i) \in Nat
  BY <1>2, PieceIs
<1>4. moved \in Nat /\ moved <= total
  OBVIOUS
<1> HIDE DEF m, cost
<1>5. ASSUME NEW i \in 1..m
      PROVE  /\ moved * cost(i) = total * ((moved * cost(i)) \div total) + ((moved * cost(i)) % total)
             /\ (moved * cost(i)) \div total \in Nat
             /\ (moved * cost(i)) % total \in 0..(total - 1)
  <2>1. moved * cost(i) \in Nat
    BY <1>3, <1>4
  <2> QED BY <2>1, DivisionIs
<1>6. /\ floor = [i \in 1..m |-> (moved * cost(i)) \div total]
      /\ rem = [i \in 1..m |-> (moved * cost(i)) % total]
  BY <1>2, Zenon DEF cost
<1> HIDE DEF floor, rem
<1>7. /\ floor \in Seq(Nat) /\ Len(floor) = m /\ rem \in Seq(Nat) /\ Len(rem) = m
      /\ rem \in [1..m -> Nat]
      /\ \A i \in 1..m : /\ floor[i] \in Nat /\ rem[i] \in Nat /\ rem[i] < total
                         /\ moved * cost(i) = total * floor[i] + rem[i]
  <2> DEFINE a(i) == (moved * cost(i)) \div total
             b(i) == (moved * cost(i)) % total
  <2>1. \A i \in 1..m : a(i) \in Nat /\ b(i) \in 0..(total - 1) /\ moved * cost(i) = total * a(i) + b(i)
    <3> SUFFICES ASSUME NEW i \in 1..m
                 PROVE  a(i) \in Nat /\ b(i) \in 0..(total - 1) /\ moved * cost(i) = total * a(i) + b(i)
      BY Zenon
    <3> DEFINE x == moved * cost(i)
    <3>1. x = total * (x \div total) + (x % total) /\ x \div total \in Nat /\ x % total \in 0..(total - 1)
      BY <1>5, Zenon
    <3> QED BY <3>1, Zenon
  <2> HIDE DEF a, b
  <2>2. floor = [i \in 1..m |-> a(i)] /\ rem = [i \in 1..m |-> b(i)]
    BY <1>6, Zenon DEF a, b
  <2>3. \A i \in 1..m : b(i) \in Nat /\ b(i) < total
    BY <2>1
  <2>4. floor \in Seq(Nat) /\ Len(floor) = m /\ \A i \in 1..m : floor[i] = a(i)
    BY <1>2, <2>1, <2>2, SMTT(30)
  <2>5. rem \in Seq(Nat) /\ Len(rem) = m /\ rem \in [1..m -> Nat] /\ \A i \in 1..m : rem[i] = b(i)
    BY <1>2, <2>2, <2>3
  <2> QED BY <2>1, <2>3, <2>4, <2>5
<1>8. floor \in Seq(Int) /\ Total(floor) \in Nat /\ rem \in Seq(Int) /\ Total(rem) \in Nat
      /\ Costs(lots) \in Seq(Int)
  BY <1>2, <1>7, SumsGrow
<1>9. moved * total = total * Total(floor) + Total(rem)
  <2>1. /\ Len(floor) = Len(Costs(lots)) /\ Len(rem) = Len(Costs(lots)) /\ moved \in Int /\ total \in Int
        /\ \A i \in 1..Len(Costs(lots)) : moved * Costs(lots)[i] = total * floor[i] + rem[i]
    BY <1>2, <1>4, <1>7
  <2>2. moved * Total(Costs(lots)) = total * Total(floor) + Total(rem)
    <3> DEFINE c == Costs(lots)
    <3>1. c \in Seq(Int)
      BY <1>8
    <3> HIDE DEF c
    <3>2. /\ Len(floor) = Len(c) /\ Len(rem) = Len(c) /\ moved \in Int /\ total \in Int
          /\ \A i \in 1..Len(c) : moved * c[i] = total * floor[i] + rem[i]
      BY <2>1 DEF c
    <3>3. floor \in Seq(Int) /\ rem \in Seq(Int)
      BY <1>8
    <3>4. InStepOf(moved, c, total, floor, rem)
      BY <3>1, <3>2, <3>3, Zenon DEF InStepOf
    <3>5. moved * Total(c) = total * Total(floor) + Total(rem)
      BY <3>4, LinearSums
    <3> QED BY <3>5 DEF c
  <2> QED BY <1>2, <2>2
<1> HIDE DEF extra
<1>10. extra \in Int /\ extra = moved - Total(floor) /\ total * extra = Total(rem)
  <2>1. extra \in Int /\ extra = moved - Total(floor)
    BY <1>4, <1>8 DEF extra
  <2> DEFINE f == Total(floor)
             r == Total(rem)
  <2>2. f \in Int /\ r \in Int /\ moved * total = total * f + r /\ extra = moved - f
    BY <1>8, <1>9, <2>1
  <2> HIDE DEF f, r
  <2>3. total * (moved - f) = moved * total - total * f /\ total * f \in Int
    BY <1>4, <2>2
  <2>4. total * extra = r
    BY <1>4, <2>2, <2>3, SMTT(30)
  <2> QED BY <2>1, <2>4 DEF r
<1> DEFINE K == {i \in 1..m : rem[i] > 0}
<1>11. K \in SUBSET (1..m) /\ IsFiniteSet(1..m) /\ Cardinality(1..m) = m
  <2>1. IsFiniteSet(1..m) /\ Cardinality(1..m) = IF 1 > m THEN 0 ELSE m - 1 + 1
    BY <1>2, FS_Interval
  <2> QED BY <1>2, <2>1
<1>12. IsFiniteSet(K) /\ Cardinality(K) \in Nat /\ Cardinality(K) <= m
  BY <1>11, FS_Subset, FS_CardinalityType
<1>13. extra >= 0 /\ extra <= Cardinality(K)
  <2>1. Total(rem) <= total * Cardinality(K)
    <3>1. \A i \in 1..Len(rem) : rem[i] <= total /\ (i \notin K => rem[i] <= 0)
      <4> SUFFICES ASSUME NEW i \in 1..m PROVE rem[i] <= total /\ (i \notin K => rem[i] <= 0)
        BY <1>7
      <4>1. rem[i] \in Nat /\ rem[i] < total
        BY <1>7
      <4> QED BY <4>1
    <3>2. K \in SUBSET (1..Len(rem))
      BY <1>7, <1>11
    <3> HIDE DEF K
    <3> QED BY <1>8, <3>1, <3>2, BoundedSums
  <2>2. total * 0 <= total * extra /\ total * extra <= total * Cardinality(K)
    BY <1>8, <1>10, <2>1
  <2> HIDE DEF K
  <2> QED BY <1>10, <1>12, <2>2, SameOrLess
<1>14. extra \in 0..m
  BY <1>2, <1>10, <1>12, <1>13
<1> DEFINE H == {i \in 1..m : Cardinality(Ahead(i)) < extra}
<1>15. \A i : Ahead(i) = {j \in 1..m : rem[j] > rem[i] \/ (rem[j] = rem[i] /\ j < i)}
  BY <1>2, Zenon
<1> HIDE DEF Ahead
<1>16. H \in SUBSET (1..m) /\ Cardinality(H) = extra
  <2> DEFINE Front(i) == {j \in 1..m : rem[j] > rem[i] \/ (rem[j] = rem[i] /\ j < i)}
  <2>1. Cardinality({i \in 1..m : Cardinality(Front(i)) < extra}) = extra
    BY <1>2, <1>7, <1>14, RanksFill
  <2>2. \A i : Front(i) = Ahead(i)
    BY <1>15, Zenon
  <2> HIDE DEF Front
  <2>3. H = {i \in 1..m : Cardinality(Front(i)) < extra}
    BY <2>2, Zenon
  <2> QED BY <2>1, <2>3
<1>17. ASSUME NEW i \in H PROVE rem[i] > 0
  <2>1. i \in 1..m /\ Cardinality(Ahead(i)) < extra
    OBVIOUS
  <2>2. SUFFICES ASSUME rem[i] = 0 PROVE FALSE
    BY <1>7, <2>1
  <2>3. K \subseteq Ahead(i) /\ Ahead(i) \subseteq 1..m
    BY <1>7, <1>15, <2>2
  <2>4. IsFiniteSet(Ahead(i)) /\ Cardinality(Ahead(i)) \in Nat
    BY <1>11, <2>3, FS_Subset, FS_CardinalityType
  <2>5. Cardinality(K) <= Cardinality(Ahead(i))
    BY <2>3, <2>4, FS_Subset
  <2> HIDE DEF K
  <2> QED BY <1>10, <1>12, <1>13, <2>1, <2>4, <2>5
<1> HIDE DEF given
<1>18. ASSUME NEW i \in 1..m
       PROVE  given(i) \in 0..cost(i) /\ given(i) = floor[i] + (IF i \in H THEN 1 ELSE 0)
  <2>1. given(i) = floor[i] + (IF i \in H THEN 1 ELSE 0)
    BY DEF given
  <2>2. floor[i] \in Nat /\ rem[i] \in Nat /\ cost(i) \in Nat /\ moved * cost(i) = total * floor[i] + rem[i]
    BY <1>3, <1>7
  <2>3. moved * cost(i) <= total * cost(i)
    BY <1>4, <2>2, SMTT(30)
  <2>4. total * floor[i] \in Nat
    BY <2>2
  <2>5. CASE i \in H
    <3>1. rem[i] > 0
      BY <1>17, <2>5
    <3>2. total * floor[i] < total * cost(i)
      <4> DEFINE a == total * floor[i]
                 b == total * cost(i)
                 c == moved * cost(i)
      <4>1. a \in Nat /\ b \in Nat /\ c = a + rem[i] /\ c <= b
        BY <2>2, <2>3, <2>4, SMTT(30)
      <4> HIDE DEF a, b, c
      <4>2. a < b
        BY <2>2, <3>1, <4>1
      <4> QED BY <4>2 DEF a, b
    <3>3. floor[i] < cost(i)
      BY <2>2, <3>2, SameOrLess
    <3> QED BY <2>1, <2>2, <2>5, <3>3, SMTT(30)
  <2>6. CASE i \notin H
    <3>1. total * floor[i] <= total * cost(i)
      <4> DEFINE a == total * floor[i]
                 b == total * cost(i)
                 c == moved * cost(i)
      <4>1. a \in Nat /\ b \in Nat /\ c = a + rem[i] /\ c <= b
        BY <2>2, <2>3, <2>4
      <4> HIDE DEF a, b, c
      <4>2. a <= b
        BY <2>2, <4>1
      <4> QED BY <4>2 DEF a, b
    <3>2. floor[i] <= cost(i)
      BY <2>2, <3>1, SameOrLess, SMTT(30)
    <3> QED BY <2>1, <2>2, <2>6, <3>2
  <2> QED BY <2>5, <2>6
<1> HIDE DEF H, K
<1>19. /\ pieces \in Seq(Piece) /\ Len(pieces) = m
       /\ \A i \in 1..m : pieces[i].cost = given(i)
  <2> DEFINE x(i) == [lots[i] EXCEPT !.cost = given(i)]
  <2>1. ASSUME NEW i \in 1..m PROVE x(i) \in Piece /\ x(i).cost = given(i)
    <3>1. given(i) \in Nat
      BY <1>3, <1>18
    <3>2. lots[i] \in Piece
      BY <1>2
    <3> DEFINE y == lots[i]
               g == given(i)
    <3> HIDE DEF y, g
    <3>3. [y EXCEPT !.cost = g] \in Piece /\ [y EXCEPT !.cost = g].cost = g
      BY <3>1, <3>2 DEF Piece, y, g
    <3> QED BY <3>3 DEF y, g
  <2> HIDE DEF x
  <2>2. pieces = [i \in 1..m |-> x(i)]
    BY <1>2, Zenon DEF x
  <2> HIDE DEF pieces
  <2> QED BY <1>2, <2>1, <2>2
<1> HIDE DEF pieces
<1>20. LotsCost(pieces) = moved
  <2> DEFINE t == [i \in 1..m |-> IF i \in H THEN 1 ELSE 0]
  <2>1. t \in Seq(Int) /\ Len(t) = m /\ \A i \in 1..m : t[i] = IF i \in H THEN 1 ELSE 0
    BY <1>2
  <2> HIDE DEF t
  <2>2. Total(t) = extra
    <3>1. H \in SUBSET (1..Len(t)) /\ \A i \in 1..Len(t) : t[i] = IF i \in H THEN 1 ELSE 0
      BY <1>16, <2>1
    <3> QED BY <1>16, <2>1, <3>1, CountSums
  <2>3. /\ Costs(pieces) \in Seq(Int) /\ Len(Costs(pieces)) = m
        /\ \A i \in 1..m : Costs(pieces)[i] = given(i)
    <3>1. /\ Costs(pieces) \in Seq(Int) /\ Len(Costs(pieces)) = Len(pieces)
          /\ \A i \in 1..Len(pieces) : Costs(pieces)[i] = pieces[i].cost
      BY <1>19, PiecesAdd, SumsGrow
    <3> QED BY <1>19, <3>1
  <2>4. \A i \in 1..m : floor[i] = Costs(pieces)[i] - t[i]
    <3> SUFFICES ASSUME NEW i \in 1..m PROVE floor[i] = Costs(pieces)[i] - t[i]
      OBVIOUS
    <3>1. floor[i] \in Nat /\ given(i) = floor[i] + t[i] /\ t[i] \in Int
      <4>1. floor[i] \in Nat
        BY <1>7
      <4>2. given(i) = floor[i] + (IF i \in H THEN 1 ELSE 0)
        BY <1>18
      <4>3. t[i] = (IF i \in H THEN 1 ELSE 0) /\ t[i] \in Int
        BY <2>1
      <4> QED BY <4>1, <4>2, <4>3
    <3> QED BY <2>3, <3>1
  <2>5. Prefix(floor)[m] = Prefix(Costs(pieces))[m] - Prefix(t)[m]
    <3>1. /\ Len(t) = Len(Costs(pieces)) /\ Len(floor) = Len(Costs(pieces))
          /\ \A i \in 1..Len(Costs(pieces)) : floor[i] = Costs(pieces)[i] - t[i]
      BY <1>7, <2>1, <2>3, <2>4
    <3>2. \A i \in 0..Len(Costs(pieces)) : Prefix(floor)[i] = Prefix(Costs(pieces))[i] - Prefix(t)[i]
      BY <1>8, <2>1, <2>3, <3>1, SumsDiffer, ZenonT(60)
    <3>3. m \in 0..Len(Costs(pieces))
      BY <1>2, <2>3
    <3> QED BY <3>2, <3>3
  <2>6. /\ Total(floor) = Prefix(floor)[m] /\ Total(t) = Prefix(t)[m]
        /\ Total(Costs(pieces)) = Prefix(Costs(pieces))[m] /\ Total(Costs(pieces)) \in Int
    BY <1>7, <1>8, <2>1, <2>3, TotalIs
  <2>7. Total(Costs(pieces)) = moved
    <3> DEFINE f == Total(floor)
               g == Total(Costs(pieces))
    <3>1. f \in Int /\ g \in Int /\ f = g - extra /\ extra \in Int /\ extra = moved - f
      BY <1>8, <1>10, <2>2, <2>5, <2>6, SMTT(30)
    <3> HIDE DEF f, g
    <3>2. g = moved
      BY <1>4, <3>1
    <3> QED BY <3>2 DEF g
  <2> QED BY <2>7 DEF LotsCost
<1> QED BY <1>1, <1>18, <1>19, <1>20 DEF m, cost

\* Pieces that cost nothing.
LEMMA WithoutCostIs ==
  ASSUME NEW lots \in Seq(Piece)
  PROVE  LET bare == WithoutCost(lots)
         IN /\ bare \in Seq(Piece) /\ Len(bare) = Len(lots)
            /\ \A i \in 1..Len(lots) : bare[i].cost = 0
            /\ LotsCost(bare) = 0
<1> DEFINE bare == WithoutCost(lots)
           x(i) == [lots[i] EXCEPT !.cost = 0]
<1>1. Len(lots) \in Nat /\ DOMAIN lots = 1..Len(lots) /\ \A i \in 1..Len(lots) : lots[i] \in Piece
  BY PiecesAdd
<1>2. ASSUME NEW i \in 1..Len(lots) PROVE x(i) \in Piece /\ x(i).cost = 0
  BY <1>1 DEF Piece
<1> HIDE DEF x
<1>3. bare = [i \in 1..Len(lots) |-> x(i)]
  BY <1>1, Zenon DEF WithoutCost, x
<1> HIDE DEF bare
<1>4. bare \in Seq(Piece) /\ Len(bare) = Len(lots) /\ \A i \in 1..Len(lots) : bare[i].cost = 0
  BY <1>1, <1>2, <1>3
<1>5. LotsCost(bare) = 0
  <2>1. /\ Costs(bare) \in Seq(Int) /\ Len(Costs(bare)) = Len(bare)
        /\ \A i \in 1..Len(bare) : Costs(bare)[i] = 0
    BY <1>4, PiecesAdd, SumsGrow
  <2>2. Len(bare) \in 0..Len(Costs(bare)) /\ \A i \in 1..Len(bare) : Costs(bare)[i] = 0
    BY <1>1, <1>4, <2>1
  <2>3. Prefix(Costs(bare))[Len(bare)] = 0
    BY <2>1, <2>2, ZerosAdd
  <2> QED BY <1>4, <2>3, PiecesAdd
<1> QED BY <1>4, <1>5 DEF bare

\* A share of at most one is no more than the whole.
LEMMA ShareIs ==
  ASSUME NEW total \in Nat, NEW share \in 0..DivScale
  PROVE  /\ (total * share) \div DivScale \in 0..total
         /\ total * share < DivScale => (total * share) \div DivScale = 0
         /\ total * share >= DivScale => total > 0
<1> DEFINE x == total * share
           q == x \div DivScale
           r == x % DivScale
<1>1. DivScale \in Nat \ {0} /\ share \in Nat /\ share <= DivScale
  BY DivScaleAssumption
<1>2. x \in Nat
  BY <1>1
<1>3. x <= DivScale * total
  <2>1. total * share <= total * DivScale
    BY <1>1
  <2> QED BY <1>1, <2>1
<1>4. total = 0 => x = 0
  BY <1>1
<1> HIDE DEF x
<1>5. x = DivScale * q + r /\ q \in Nat /\ r \in Nat
  <2>1. x = DivScale * (x \div DivScale) + (x % DivScale) /\ x \div DivScale \in Nat
        /\ x % DivScale \in 0..(DivScale - 1)
    BY <1>1, <1>2, DivisionIs
  <2> QED BY <1>1, <2>1
<1> HIDE DEF q, r
<1>6. DivScale * q \in Nat /\ DivScale * total \in Nat
  BY <1>1, <1>5
<1>7. DivScale * q <= DivScale * total
  BY <1>2, <1>3, <1>5, <1>6
<1>8. q <= total
  BY <1>1, <1>5, <1>7, SameOrLess
<1>9. ASSUME x < DivScale PROVE q = 0
  <2>1. DivScale * q < DivScale * 1
    BY <1>1, <1>2, <1>5, <1>6, <1>9
  <2>2. q < 1
    BY <1>1, <1>5, <2>1, SameOrLess
  <2> QED BY <1>5, <2>2
<1>10. x >= DivScale => total > 0
  BY <1>1, <1>4
<1> QED BY <1>5, <1>8, <1>9, <1>10 DEF q, x

\* A spin-off's breakdown: exactly the share of the basis, rounded once, and of
\* no lot more than it cost.
LEMMA SpinoffPiecesIs ==
  ASSUME NEW lots \in Seq(Piece), NEW share \in 0..DivScale
  PROVE  LET pieces == SpinoffPieces(lots, share)
         IN /\ pieces \in Seq(Piece) /\ Len(pieces) = Len(lots)
            /\ LotsCost(pieces) = (LotsCost(lots) * share) \div DivScale
            /\ \A i \in 1..Len(lots) : pieces[i].cost \in 0..lots[i].cost
<1> DEFINE total == LotsCost(lots)
           moved == (total * share) \div DivScale
           pieces == SpinoffPieces(lots, share)
<1>1. pieces = IF total * share < DivScale THEN WithoutCost(lots) ELSE Allotted(lots, total, moved)
  BY Zenon DEF SpinoffPieces
<1>2. total \in Nat /\ Len(lots) \in Nat /\ \A i \in 1..Len(lots) : lots[i] \in Piece
  BY PiecesAdd
<1>3. \A i \in 1..Len(lots) : lots[i].cost \in Nat
  BY <1>2, PieceIs
<1> HIDE DEF total, pieces
<1>4. /\ moved \in 0..total
      /\ total * share < DivScale => moved = 0
      /\ total * share >= DivScale => total > 0
  BY <1>2, ShareIs, Zenon
<1> DEFINE x == total * share
<1>5. x \in Nat /\ DivScale \in Nat
  BY <1>2, DivScaleAssumption
<1> HIDE DEF moved, x
<1>6. CASE x < DivScale
  <2>1. pieces = WithoutCost(lots) /\ moved = 0
    BY <1>1, <1>4, <1>6, Zenon DEF x
  <2>2. /\ pieces \in Seq(Piece) /\ Len(pieces) = Len(lots)
        /\ \A i \in 1..Len(lots) : pieces[i].cost = 0
        /\ LotsCost(pieces) = 0
    BY <2>1, WithoutCostIs
  <2>3. \A i \in 1..Len(lots) : pieces[i].cost \in 0..lots[i].cost
    BY <1>3, <2>2
  <2> QED BY <2>1, <2>2, <2>3 DEF pieces, moved, total
<1>7. CASE ~(x < DivScale)
  <2>1. total > 0
    <3>1. x >= DivScale
      BY <1>5, <1>7
    <3> QED BY <1>4, <3>1 DEF x
  <2>2. pieces = Allotted(lots, total, moved) /\ total \in Nat \ {0}
    BY <1>1, <1>2, <1>7, <2>1 DEF x
  <2>3. /\ pieces \in Seq(Piece) /\ Len(pieces) = Len(lots)
        /\ LotsCost(pieces) = moved
        /\ \A i \in 1..Len(lots) : pieces[i].cost \in 0..lots[i].cost
    <3>1. moved \in 0..total /\ total = LotsCost(lots)
      BY <1>4 DEF total
    <3> QED BY <2>2, <3>1, AllottedIs
  <2> QED BY <2>3 DEF pieces, moved, total
<1> QED BY <1>6, <1>7

\* A drain takes of no lot more than it cost.
LEMMA DrainIs ==
  ASSUME NEW lots \in Seq(Piece), NEW amount \in Nat
  PROVE  LET pieces == DrainPieces(lots, amount)
         IN /\ pieces \in Seq(Piece) /\ Len(pieces) = Len(lots)
            /\ \A i \in 1..Len(lots) : pieces[i].cost \in 0..lots[i].cost
<1> DEFINE before == Prefix(Costs(lots))
           Take(i) == IF before[i - 1] >= amount THEN 0
                      ELSE Least(amount - before[i - 1], lots[i].cost)
           x(i) == [lots[i] EXCEPT !.cost = Take(i)]
           pieces == DrainPieces(lots, amount)
<1>1. /\ Len(lots) \in Nat /\ DOMAIN lots = 1..Len(lots)
      /\ \A i \in 1..Len(lots) : lots[i] \in Piece
      /\ Costs(lots) \in Seq(Int) /\ Len(Costs(lots)) = Len(lots)
  BY PiecesAdd, SumsGrow
<1>2. \A i \in 0..Len(lots) : before[i] \in Int
  BY <1>1, PrefixIs
<1>3. pieces = [i \in 1..Len(lots) |-> x(i)]
  BY <1>1, Zenon DEF DrainPieces
<1> HIDE DEF before, pieces
<1>4. ASSUME NEW i \in 1..Len(lots)
      PROVE  x(i) \in Piece /\ x(i).cost \in 0..lots[i].cost
  <2>1. i - 1 \in 0..Len(lots) /\ before[i - 1] \in Int
    <3>1. i - 1 \in 0..Len(lots)
      BY <1>1
    <3> QED BY <1>2, <3>1
  <2>2. lots[i] \in Piece /\ lots[i].cost \in Nat
    BY <1>1, PieceIs
  <2> DEFINE c == lots[i].cost
             b == before[i - 1]
             k == IF b >= amount THEN 0 ELSE Least(amount - b, c)
  <2>3. b \in Int /\ c \in Nat
    BY <2>1, <2>2
  <2> HIDE DEF b, c
  <2>4. k \in 0..c
    <3>1. CASE b >= amount
      BY <2>3, <3>1
    <3>2. CASE ~(b >= amount)
      BY <2>3, <3>2 DEF Least
    <3> QED BY <3>1, <3>2
  <2> HIDE DEF k
  <2>5. x(i) = [lots[i] EXCEPT !.cost = k]
    BY Zenon DEF k, b, c
  <2>6. k \in Nat
    BY <2>3, <2>4
  <2>7. x(i) \in Piece /\ x(i).cost = k
    <3> DEFINE y == lots[i]
    <3> HIDE DEF y
    <3>1. [y EXCEPT !.cost = k] \in Piece /\ [y EXCEPT !.cost = k].cost = k
      BY <2>2, <2>6 DEF Piece, y
    <3> QED BY <2>5, <3>1, Zenon DEF y
  <2> QED BY <2>4, <2>7 DEF c
<1> HIDE DEF x
<1> QED BY <1>1, <1>3, <1>4 DEF pieces

-----------------------------------------------------------------------------
(* What a position gave up. *)

GivenUp(s) == Total([i \in DOMAIN s |-> LotsCost(s[i].released)])

\* What was realized adds up, one realization after another.
LEMMA RealizedAdds ==
  ASSUME NEW s \in Seq(Realization), NEW x \in Realization
  PROVE  /\ GivenUp(s) \in Int /\ Append(s, x) \in Seq(Realization)
         /\ GivenUp(Append(s, x)) = GivenUp(s) + LotsCost(x.released)
<1> DEFINE c(i) == LotsCost(s[i].released)
           t == [i \in DOMAIN s |-> c(i)]
           e == LotsCost(x.released)
           more == Append(s, x)
           u == [i \in DOMAIN more |-> LotsCost(more[i].released)]
<1>1. /\ Len(s) \in Nat /\ DOMAIN s = 1..Len(s) /\ \A i \in 1..Len(s) : s[i] \in Realization
      /\ more \in Seq(Realization) /\ Len(more) = Len(s) + 1 /\ DOMAIN more = 1..(Len(s) + 1)
      /\ more[Len(s) + 1] = x /\ \A i \in 1..Len(s) : more[i] = s[i]
  OBVIOUS
<1>2. \A y \in Realization : y.released \in Seq(Piece)
  BY DEF Realization
<1>3. \A y \in Realization : LotsCost(y.released) \in Int
  <2> SUFFICES ASSUME NEW y \in Realization PROVE LotsCost(y.released) \in Int
    OBVIOUS
  <2>1. y.released \in Seq(Piece)
    BY <1>2
  <2> QED BY <2>1, PiecesAdd
<1>4. e \in Int /\ \A i \in 1..Len(s) : c(i) \in Int
  BY <1>1, <1>3
<1>5. u = [i \in 1..(Len(s) + 1) |-> LotsCost(more[i].released)]
  BY <1>1
<1>6. LotsCost(more[Len(s) + 1].released) = e /\ \A i \in 1..Len(s) : LotsCost(more[i].released) = c(i)
  BY <1>1
<1> HIDE DEF more, e, c
<1>7. t \in Seq(Int) /\ Len(t) = Len(s) /\ \A i \in 1..Len(s) : t[i] = c(i)
  BY <1>1, <1>4
<1>8. GivenUp(s) = Total(t)
  BY Zenon DEF GivenUp, c
<1> HIDE DEF t
<1>9. u = Append(t, e)
  <2> DEFINE v(i) == LotsCost(more[i].released)
  <2>1. v(Len(s) + 1) = e /\ \A i \in 1..Len(s) : v(i) = c(i)
    BY <1>6
  <2>2. u = [i \in 1..(Len(s) + 1) |-> v(i)]
    BY <1>5, Zenon
  <2> HIDE DEF v, u
  <2>3. \A i \in 1..(Len(s) + 1) : i # Len(s) + 1 => i \in 1..Len(s)
    BY <1>1
  <2>4. u \in Seq(Int) /\ Len(u) = Len(s) + 1
    BY <1>1, <1>4, <2>1, <2>2, <2>3
  <2>5. /\ Append(t, e) \in Seq(Int) /\ Len(Append(t, e)) = Len(s) + 1
        /\ Append(t, e)[Len(s) + 1] = e
        /\ \A i \in 1..Len(s) : Append(t, e)[i] = t[i]
    BY <1>4, <1>7
  <2>6. \A i \in 1..Len(u) : u[i] = Append(t, e)[i]
    BY <1>1, <1>7, <2>1, <2>2, <2>3, <2>4, <2>5
  <2> QED BY <2>4, <2>5, <2>6, SameElements
<1>10. GivenUp(more) = Total(u)
  BY Zenon DEF GivenUp
<1> HIDE DEF u
<1>11. GivenUp(more) = Total(t) + e /\ Total(t) \in Int
  BY <1>4, <1>7, <1>9, <1>10, OneMore, TotalIs
<1> QED BY <1>1, <1>8, <1>11 DEF more, e

\* What a step of the fold does to a position: it stays sound, and the basis
\* held and given up grows by what came in less what left.
Reckoned(p, r, d, in, out) ==
  /\ IsPosition(r, d)
  /\ r.cost + GivenUp(r.realized) = p.cost + GivenUp(p.realized) + in - out

\* The lots less the cost of the pieces.
LEMMA CheaperIs ==
  ASSUME NEW lots \in Seq(Piece), InOrder(lots), NEW pieces \in Seq(Piece),
         Len(pieces) = Len(lots), \A i \in 1..Len(lots) : pieces[i].cost \in 0..lots[i].cost
  PROVE  LET left == [i \in DOMAIN lots |-> [lots[i] EXCEPT !.cost = @ - pieces[i].cost]]
         IN /\ left \in Seq(Piece) /\ Len(left) = Len(lots) /\ InOrder(left)
            /\ \A i \in 1..Len(lots) : left[i].day = lots[i].day
            /\ SameNumbers(left, lots)
            /\ LotsUnits(left) = LotsUnits(lots)
            /\ LotsCost(left) = LotsCost(lots) - LotsCost(pieces)
<1> DEFINE x(i) == [lots[i] EXCEPT !.cost = @ - pieces[i].cost]
           left == [i \in DOMAIN lots |-> x(i)]
<1>1. /\ Len(lots) \in Nat /\ DOMAIN lots = 1..Len(lots)
      /\ \A i \in 1..Len(lots) : lots[i] \in Piece
      /\ \A i \in 1..Len(lots) : pieces[i] \in Piece
  BY PiecesAdd
<1>2. ASSUME NEW i \in 1..Len(lots)
      PROVE  /\ x(i) \in Piece /\ x(i).qty = lots[i].qty /\ x(i).day = lots[i].day
             /\ x(i).lot = lots[i].lot
             /\ x(i).cost = lots[i].cost - pieces[i].cost
  <2> DEFINE y == lots[i]
             c == pieces[i].cost
             k == y.cost - c
  <2>1. y \in Piece /\ y.cost \in Nat /\ c \in 0..y.cost
    BY <1>1, PieceIs
  <2>2. x(i) = [y EXCEPT !.cost = @ - c]
    BY Zenon
  <2> HIDE DEF x, y, c
  <2>3. k \in Nat
    BY <2>1
  <2>4. x(i) = [y EXCEPT !.cost = k]
    BY <2>1, <2>2 DEF Piece
  <2> HIDE DEF k
  <2>5. /\ x(i) \in Piece /\ x(i).qty = y.qty /\ x(i).day = y.day /\ x(i).cost = k
        /\ x(i).lot = y.lot
    BY <2>1, <2>3, <2>4 DEF Piece
  <2> QED BY <2>5 DEF y, c, k
<1> HIDE DEF x
<1>3. left = [i \in 1..Len(lots) |-> x(i)]
  BY <1>1
<1>4. (left) = [i \in DOMAIN lots |-> [lots[i] EXCEPT !.cost = @ - pieces[i].cost]]
  BY Zenon DEF x
<1> HIDE DEF left
<1>5. /\ left \in Seq(Piece) /\ Len(left) = Len(lots)
      /\ \A i \in 1..Len(lots) : left[i] = x(i)
  BY <1>1, <1>2, <1>3
<1>6. \A i \in 1..Len(lots) : /\ left[i].qty = lots[i].qty /\ left[i].day = lots[i].day
                              /\ left[i].cost = lots[i].cost - pieces[i].cost
  BY <1>2, <1>5
<1>7. InOrder(left)
  BY <1>5, <1>6, SameDays
<1>8. LotsUnits(left) = LotsUnits(lots)
  BY <1>5, <1>6, SameUnits
<1>9. LotsCost(left) = LotsCost(lots) - LotsCost(pieces)
  <2>1. /\ Costs(left) \in Seq(Int) /\ Costs(lots) \in Seq(Int) /\ Costs(pieces) \in Seq(Int)
        /\ Len(Costs(left)) = Len(lots) /\ Len(Costs(lots)) = Len(lots)
        /\ Len(Costs(pieces)) = Len(lots)
        /\ \A i \in 1..Len(lots) : /\ Costs(left)[i] = left[i].cost
                                   /\ Costs(lots)[i] = lots[i].cost
                                   /\ Costs(pieces)[i] = pieces[i].cost
        /\ LotsCost(left) = Prefix(Costs(left))[Len(lots)]
        /\ LotsCost(lots) = Prefix(Costs(lots))[Len(lots)]
        /\ LotsCost(pieces) = Prefix(Costs(pieces))[Len(lots)]
    <3>1. /\ Costs(left) \in Seq(Int) /\ Len(Costs(left)) = Len(lots)
          /\ \A i \in 1..Len(lots) : Costs(left)[i] = left[i].cost
          /\ LotsCost(left) = Prefix(Costs(left))[Len(lots)]
      BY <1>5, PiecesAdd, SumsGrow
    <3>2. /\ Costs(pieces) \in Seq(Int) /\ Len(Costs(pieces)) = Len(lots)
          /\ \A i \in 1..Len(lots) : Costs(pieces)[i] = pieces[i].cost
          /\ LotsCost(pieces) = Prefix(Costs(pieces))[Len(lots)]
      BY PiecesAdd, SumsGrow
    <3>3. /\ Costs(lots) \in Seq(Int) /\ Len(Costs(lots)) = Len(lots)
          /\ \A i \in 1..Len(lots) : Costs(lots)[i] = lots[i].cost
          /\ LotsCost(lots) = Prefix(Costs(lots))[Len(lots)]
      BY PiecesAdd, SumsGrow
    <3> QED BY <3>1, <3>2, <3>3
  <2>2. \A i \in 1..Len(Costs(lots)) : Costs(left)[i] = Costs(lots)[i] - Costs(pieces)[i]
    BY <1>6, <2>1, ZenonT(60)
  <2>3. \A i \in 0..Len(Costs(lots)) :
          Prefix(Costs(left))[i] = Prefix(Costs(lots))[i] - Prefix(Costs(pieces))[i]
    <3>1. Len(Costs(pieces)) = Len(Costs(lots)) /\ Len(Costs(left)) = Len(Costs(lots))
      BY <2>1
    <3>2. Costs(left) \in Seq(Int) /\ Costs(lots) \in Seq(Int) /\ Costs(pieces) \in Seq(Int)
      BY <2>1
    <3> QED BY <2>2, <3>1, <3>2, SumsDiffer
  <2>4. Len(lots) \in 0..Len(Costs(lots))
    BY <1>1, <2>1
  <2> QED BY <2>1, <2>3, <2>4
<1>10. SameNumbers(left, lots)
  <2>1. \A i \in 1..Len(lots) : left[i].lot = lots[i].lot
    BY <1>2, <1>5
  <2> QED BY <1>5, <2>1, AlikeByNumber
<1> QED BY <1>4, <1>5, <1>6, <1>7, <1>8, <1>9, <1>10, Zenon

-----------------------------------------------------------------------------
(* One operation of each type. *)

\* An operation with the columns the engine reads.
Entry(o) ==
  /\ IsEntry(o) /\ o.id \in Int

\* The numbers of the lots a row brings.
NumbersGiven(o) == {LotID(o, s) : s \in 0..Len(o.lots)}
NumbersOf(o)    == IF o.typ \in Arrivals \cup {"buy"} THEN NumbersGiven(o) ELSE {}

\* A step of the fold renumbers nothing: the lots that come with o have its
\* numbers, the others keep theirs.
Joins(p, r, o) ==
  \A M : LotOrigin(o) # 0 /\ NumberedBy(p.lots, M) /\ M \cap NumbersOf(o) = {}
           => NumberedBy(r.lots, M \cup NumbersOf(o))

LEMMA KeepsJoins ==
  ASSUME NEW p, NEW r, NEW o, KeepsNumbers(r.lots, p.lots)
  PROVE  Joins(p, r, o)
<1> SUFFICES ASSUME NEW M, NumberedBy(p.lots, M) PROVE NumberedBy(r.lots, M \cup NumbersOf(o))
  BY Zenon DEF Joins
<1>1. NumberedBy(r.lots, M)
  BY Zenon DEF KeepsNumbers
<1> QED BY <1>1 DEF NumberedBy

LEMMA SameJoins ==
  ASSUME NEW p, NEW r, NEW o, r.lots = p.lots
  PROVE  Joins(p, r, o)
<1>1. KeepsNumbers(r.lots, p.lots)
  BY Zenon DEF KeepsNumbers
<1> QED BY <1>1, KeepsJoins

LEMMA SinglesAre ==
  ASSUME NEW x \in Piece
  PROVE  /\ <<x>> \in Seq(Piece) /\ Len(<<x>>) = 1 /\ <<x>>[1] = x
         /\ LotsUnits(<<x>>) = x.qty /\ LotsCost(<<x>>) = x.cost
<1>1. <<>> \in Seq(Piece) /\ Len(<<>>) = 0 /\ Append(<<>>, x) = <<x>>
  OBVIOUS
<1>2. LotsUnits(<<>>) = 0 /\ LotsCost(<<>>) = 0
  <2>1. /\ Units(<<>>) \in Seq(Int) /\ Len(Units(<<>>)) = 0
        /\ Costs(<<>>) \in Seq(Int) /\ Len(Costs(<<>>)) = 0
    BY <1>1, PiecesAdd, SumsGrow
  <2> QED BY <2>1, TotalIs DEF LotsUnits, LotsCost
<1>3. /\ Append(<<>>, x) \in Seq(Piece)
      /\ LotsUnits(Append(<<>>, x)) = LotsUnits(<<>>) + x.qty
      /\ LotsCost(Append(<<>>, x)) = LotsCost(<<>>) + x.cost
  BY <1>1, OnePieceMore
<1>4. x.qty \in Nat /\ x.cost \in Nat
  BY PieceIs
<1>5. <<x>> \in Seq(Piece) /\ Len(<<x>>) = 1 /\ <<x>>[1] = x
  OBVIOUS
<1> QED BY <1>1, <1>2, <1>3, <1>4, <1>5

LEMMA HeldIs ==
  ASSUME NEW d \in Nat, NEW p, IsPosition(p, d)
  PROVE  p.cost \in Nat /\ GivenUp(p.realized) \in Int /\ p.realized \in Seq(Realization)
<1>1. p.cost \in Nat /\ p.realized \in Seq(Realization)
  BY SoundIs
<1> DEFINE x == [day |-> 0, cur |-> 0, fee |-> 0, proceeds |-> 0, released |-> <<>>]
<1>2. x \in Realization
  BY DEF Realization
<1> QED BY <1>1, <1>2, RealizedAdds

\* Positions with the same holdings are accounted for alike.
LEMMA SamePosition ==
  ASSUME NEW d \in Nat, NEW p, IsPosition(p, d), NEW r, DOMAIN r = DOMAIN p, r.lots = p.lots,
         r.qty = p.qty, r.cost = p.cost, r.realized \in Seq(Realization), r.cur \in Int
  PROVE  IsPosition(r, d)
BY Zenon DEF IsPosition

\* A purchase brings its price and its fee as basis.
LEMMA BuyIs ==
  ASSUME NEW d \in Nat, NEW p, IsPosition(p, d), NEW o, Entry(o), o.day = d, CheckShape(o),
         o.typ = "buy", ApplyBuy(p, o).ok
  PROVE  /\ Reckoned(p, ApplyBuy(p, o).pos, d, o.fee - o.amount, 0)
         /\ Joins(p, ApplyBuy(p, o).pos, o)
<1> DEFINE lot == [lot |-> LotID(o, 0), qty |-> o.qty, day |-> o.day, cost |-> o.fee - o.amount]
           q == AddLot(p, lot)
           r == [q EXCEPT !.fees = AddToList(@, o.cur, o.fee)]
           fits == o.amount < 0
<1>1. ApplyBuy(p, o) = [ok |-> fits, pos |-> r]
  BY Zenon DEF ApplyBuy, Provided, AddFee
<1>2. /\ o.qty \in Int /\ o.amount \in Int /\ o.ext \in Int /\ o.id \in Int /\ o.fee \in Nat
  BY DEF Entry, IsEntry
<1>3. o.qty > 0
  BY DEF CheckShape, Trades
<1>4. LotID(o, 0) \in Int \X Int
  BY <1>2 DEF LotID, LotOrigin, NoLot
<1> HIDE DEF fits, r, q, lot
<1>5. fits /\ ApplyBuy(p, o).pos = r
  BY <1>1
<1>6. lot \in Piece /\ lot.day <= d /\ lot.cost = o.fee - o.amount
  BY <1>2, <1>3, <1>4, <1>5 DEF fits, lot, Piece
<1>7. /\ IsPosition(q, d) /\ q.cost = p.cost + lot.cost /\ q.realized = p.realized
      /\ \A M : NumberedBy(p.lots, M) /\ lot.lot \notin M => NumberedBy(q.lots, M \cup {lot.lot})
  <2>1. lot \in Piece /\ lot.day <= d
    BY <1>6
  <2>2. /\ IsPosition(AddLot(p, lot), d) /\ AddLot(p, lot).cost = p.cost + lot.cost
        /\ AddLot(p, lot).realized = p.realized
    BY <2>1, AddLotSound
  <2>3. ASSUME NEW M, NumberedBy(p.lots, M), lot.lot \notin M
        PROVE  NumberedBy(AddLot(p, lot).lots, M \cup {lot.lot})
    BY <2>1, <2>3, AddLotSound
  <2> QED BY <2>2, <2>3, Zenon DEF q
<1>8. /\ DOMAIN r = DOMAIN q /\ r.lots = q.lots /\ r.qty = q.qty /\ r.cost = q.cost
      /\ r.realized = q.realized /\ r.cur = q.cur
  <2>1. DOMAIN q = DOMAIN NoPosition
    BY <1>7, SoundIs
  <2> QED BY <2>1, FieldsAre DEF r
<1>9. p.cost \in Nat /\ GivenUp(p.realized) \in Int /\ q.realized \in Seq(Realization)
      /\ q.cur \in Int
  BY <1>7, HeldIs, SoundIs
<1>10. IsPosition(r, d)
  BY <1>7, <1>8, <1>9, SamePosition
<1>11. r.cost + GivenUp(r.realized) = p.cost + GivenUp(p.realized) + (o.fee - o.amount) - 0
  <2>1. GivenUp(r.realized) = GivenUp(p.realized) /\ r.cost = p.cost + (o.fee - o.amount)
    BY <1>6, <1>7, <1>8
  <2> QED BY <1>2, <1>9, <2>1
<1>12. Joins(p, r, o)
  <2> SUFFICES ASSUME NEW M, LotOrigin(o) # 0, NumberedBy(p.lots, M), M \cap NumbersOf(o) = {}
               PROVE  NumberedBy(r.lots, M \cup NumbersOf(o))
    BY Zenon DEF Joins
  <2>1. lot.lot = LotID(o, 0)
    BY DEF lot
  <2>2. Len(o.lots) \in Nat
    BY DEF Entry, IsEntry
  <2>3. LotID(o, 0) \in NumbersOf(o)
    BY <2>2 DEF NumbersOf, NumbersGiven
  <2>4. NumberedBy(q.lots, M \cup {lot.lot})
    BY <1>7, <2>1, <2>3
  <2> QED BY <1>8, <2>1, <2>3, <2>4 DEF NumberedBy
<1> QED BY <1>5, <1>10, <1>11, <1>12 DEF Reckoned

\* An operation that moves neither units nor basis.
LEMMA UntouchedIs ==
  ASSUME NEW d \in Nat, NEW p, IsPosition(p, d), NEW r, DOMAIN r = DOMAIN p, r.lots = p.lots,
         r.qty = p.qty, r.cost = p.cost, r.realized = p.realized, r.cur = p.cur
  PROVE  Reckoned(p, r, d, 0, 0)
<1>1. p.cost \in Nat /\ GivenUp(p.realized) \in Int /\ p.realized \in Seq(Realization)
      /\ p.cur \in Int
  BY HeldIs, SoundIs
<1>2. IsPosition(r, d)
  BY <1>1, SamePosition
<1>3. r.cost + GivenUp(r.realized) = p.cost + GivenUp(p.realized) + 0 - 0
  <2> DEFINE g == GivenUp(p.realized)
  <2>1. GivenUp(r.realized) = g /\ g \in Int /\ r.cost = p.cost
    BY <1>1
  <2> HIDE DEF g
  <2>2. r.cost + g = p.cost + g + 0 - 0
    BY <1>1, <2>1
  <2> QED BY <2>1, <2>2 DEF g
<1> QED BY <1>2, <1>3 DEF Reckoned

LEMMA IncomeIs ==
  ASSUME NEW d \in Nat, NEW p, IsPosition(p, d), NEW o
  PROVE  /\ Reckoned(p, ApplyIncome(p, o).pos, d, 0, 0)
         /\ Reckoned(p, ApplyFee(p, o).pos, d, 0, 0)
         /\ Joins(p, ApplyIncome(p, o).pos, o) /\ Joins(p, ApplyFee(p, o).pos, o)
<1>1. DOMAIN p = DOMAIN NoPosition
  BY SoundIs
<1> DEFINE income(q) == AddToList(q.income, o.cur, o.amount)
           fees == AddToList(p.fees, o.cur, -o.amount)
           a == [p EXCEPT !.income = income(p)]
           b == [p EXCEPT !.fees = fees]
           c == [b EXCEPT !.income = income(b)]
<1>2. /\ ApplyIncome(p, o) = [ok |-> TRUE, pos |-> [p EXCEPT !.income = AddToList(@, o.cur, o.amount)]]
      /\ ApplyFee(p, o) =
           [ok |-> TRUE,
            pos |-> [[p EXCEPT !.fees = AddToList(@, o.cur, -o.amount)]
                        EXCEPT !.income = AddToList(@, o.cur, o.amount)]]
  BY Zenon DEF ApplyIncome, ApplyFee, AddIncome, Provided
<1>3. ApplyIncome(p, o).pos = a /\ ApplyFee(p, o).pos = c
  <2>1. /\ ApplyIncome(p, o).pos = [p EXCEPT !.income = AddToList(@, o.cur, o.amount)]
        /\ ApplyFee(p, o).pos = [[p EXCEPT !.fees = AddToList(@, o.cur, -o.amount)]
                                   EXCEPT !.income = AddToList(@, o.cur, o.amount)]
    BY <1>2
  <2> QED BY <2>1, Zenon
<1> DEFINE x == income(p)
           y == income(b)
<1>4. a = [p EXCEPT !.income = x] /\ c = [b EXCEPT !.income = y]
  BY Zenon
<1> HIDE DEF a, b, c, x, y, fees
<1>5. /\ DOMAIN a = DOMAIN p /\ a.lots = p.lots /\ a.qty = p.qty /\ a.cost = p.cost
      /\ a.realized = p.realized /\ a.cur = p.cur
  BY <1>1, <1>4, FieldsAre
<1>6. /\ DOMAIN b = DOMAIN p /\ b.lots = p.lots /\ b.qty = p.qty /\ b.cost = p.cost
      /\ b.realized = p.realized /\ b.cur = p.cur
  BY <1>1, FieldsAre DEF b
<1>7. /\ DOMAIN c = DOMAIN p /\ c.lots = p.lots /\ c.qty = p.qty /\ c.cost = p.cost
      /\ c.realized = p.realized /\ c.cur = p.cur
  BY <1>1, <1>4, <1>6, FieldsAre
<1>8. Reckoned(p, a, d, 0, 0) /\ Reckoned(p, c, d, 0, 0)
  BY <1>5, <1>7, UntouchedIs
<1>9. Joins(p, a, o) /\ Joins(p, c, o)
  BY <1>5, <1>7, SameJoins
<1> QED BY <1>3, <1>8, <1>9

\* What is realized on a position is added to what it gave up.
LEMMA RealizeIs ==
  ASSUME NEW d \in Nat, NEW q, IsPosition(q, d), NEW o, Entry(o), NEW fee \in Int,
         NEW pieces \in Seq(Piece)
  PROVE  LET r == Realize(q, o, fee, pieces)
         IN /\ IsPosition(r, d) /\ r.cost = q.cost
            /\ GivenUp(r.realized) = GivenUp(q.realized) + LotsCost(pieces)
            /\ r.lots = q.lots
<1> DEFINE x == [day |-> o.day, cur |-> o.cur, fee |-> fee, proceeds |-> o.amount,
                 released |-> pieces]
           s == Append(q.realized, x)
           r == Realize(q, o, fee, pieces)
<1>1. r = [q EXCEPT !.realized = s]
  BY Zenon DEF Realize
<1>2. x \in Realization
  BY DEF Realization, Entry, IsEntry
<1>3. x.released = pieces
  OBVIOUS
<1>4. DOMAIN q = DOMAIN NoPosition /\ q.realized \in Seq(Realization) /\ q.cur \in Int
  BY SoundIs
<1> HIDE DEF x
<1>5. /\ s \in Seq(Realization) /\ GivenUp(s) = GivenUp(q.realized) + LotsCost(pieces)
  BY <1>2, <1>3, <1>4, RealizedAdds
<1> HIDE DEF r, s
<1>6. /\ DOMAIN r = DOMAIN q /\ r.lots = q.lots /\ r.qty = q.qty /\ r.cost = q.cost
      /\ r.realized = s /\ r.cur = q.cur
  BY <1>1, <1>4, FieldsAre
<1>7. IsPosition(r, d)
  BY <1>4, <1>5, <1>6, SamePosition
<1> QED BY <1>5, <1>6, <1>7 DEF r

\* A disposal gives up exactly the basis it releases.
LEMMA DisposalIs ==
  ASSUME NEW d \in Nat, NEW p, IsPosition(p, d), NEW o, Entry(o), CheckShape(o),
         o.typ \in {"sell", "redemption"}, ApplyDisposal(p, o).ok
  PROVE  /\ Reckoned(p, ApplyDisposal(p, o).pos, d, 0, 0)
         /\ Joins(p, ApplyDisposal(p, o).pos, o)
<1> DEFINE out == ReleaseFIFO(p, o.qty)
           q == Realize(out.pos, o, o.fee, out.pieces)
           r == [q EXCEPT !.fees = AddToList(@, o.cur, o.fee)]
           fits == o.amount > 0 /\ out.ok
<1>1. ApplyDisposal(p, o) = [ok |-> fits, pos |-> r]
  BY Zenon DEF ApplyDisposal, Provided, AddFee
<1>2. o.qty \in Nat \ {0} /\ o.fee \in Int
  BY SMTT(30) DEF Entry, IsEntry, CheckShape, Trades
<1> HIDE DEF fits, r, q, out
<1>3. fits /\ ApplyDisposal(p, o).pos = r
  BY <1>1
<1>4. out.ok
  BY <1>3 DEF fits
<1>5. /\ out.pieces \in Seq(Piece) /\ IsPosition(out.pos, d)
      /\ out.pos.cost = p.cost - LotsCost(out.pieces)
      /\ out.pos.realized = p.realized
      /\ KeepsNumbers(out.pos.lots, p.lots)
  BY <1>2, <1>4, ReleaseIs DEF out
<1>6. /\ IsPosition(q, d) /\ q.cost = out.pos.cost
      /\ GivenUp(q.realized) = GivenUp(out.pos.realized) + LotsCost(out.pieces)
      /\ q.lots = out.pos.lots
  BY <1>2, <1>5, RealizeIs DEF q
<1>7. /\ DOMAIN r = DOMAIN q /\ r.lots = q.lots /\ r.qty = q.qty /\ r.cost = q.cost
      /\ r.realized = q.realized /\ r.cur = q.cur
  <2>1. DOMAIN q = DOMAIN NoPosition
    BY <1>6, SoundIs
  <2> QED BY <2>1, FieldsAre DEF r
<1>8. q.realized \in Seq(Realization) /\ p.cost \in Nat /\ GivenUp(p.realized) \in Int
      /\ LotsCost(out.pieces) \in Nat /\ q.cur \in Int
  BY <1>5, <1>6, HeldIs, SoundIs, PiecesAdd
<1>9. IsPosition(r, d)
  BY <1>6, <1>7, <1>8, SamePosition
<1>10. r.cost + GivenUp(r.realized) = p.cost + GivenUp(p.realized) + 0 - 0
  <2> DEFINE g == GivenUp(p.realized)
             c == LotsCost(out.pieces)
  <2>1. GivenUp(r.realized) = g + c /\ r.cost = p.cost - c /\ g \in Int /\ c \in Int
    BY <1>5, <1>6, <1>7, <1>8
  <2> HIDE DEF g, c
  <2>2. r.cost + GivenUp(r.realized) = p.cost + g + 0 - 0
    BY <1>8, <2>1
  <2> QED BY <2>2 DEF g
<1>11. Joins(p, r, o)
  <2>1. KeepsNumbers(r.lots, p.lots)
    BY <1>5, <1>6, <1>7, Zenon
  <2> QED BY <2>1, KeepsJoins
<1> QED BY <1>3, <1>9, <1>10, <1>11 DEF Reckoned

\* The share of the basis a repayment takes is at most the whole.
LEMMA AmortizedShareIs ==
  ASSUME NEW p, NEW o, o.face \in Nat \ {0}, p.qty \in Nat \ {0}, o.amount \in Nat
  PROVE  AmortizedShare(p, o) \in 0..DivScale
<1> DEFINE principal == o.face * p.qty
           x == 2 * o.amount * DivScale + principal
           y == 2 * principal
           q == x \div y
<1>1. AmortizedShare(p, o) = Least(DivScale, q)
  BY Zenon DEF AmortizedShare
<1>2. DivScale \in Nat
  BY DivScaleAssumption
<1>3. principal \in Nat \ {0}
  BY SMTT(30)
<1> HIDE DEF principal
<1>4. x \in Nat /\ y \in Nat \ {0}
  <2>1. 2 * o.amount * DivScale \in Nat
    BY <1>2
  <2> QED BY <1>3, <2>1
<1> HIDE DEF x, y
<1>5. q \in Nat
  BY <1>4, DivisionIs
<1> HIDE DEF q
<1> QED BY <1>1, <1>2, <1>5 DEF Least

\* What a repayment takes is of no lot more than it cost.
LEMMA RepaidIs ==
  ASSUME NEW d \in Nat, NEW p, IsPosition(p, d), NEW o, Entry(o), o.amount > 0
  PROVE  LET pieces == Repaid(p, o)
         IN /\ pieces \in Seq(Piece) /\ Len(pieces) = Len(p.lots)
            /\ \A i \in 1..Len(p.lots) : pieces[i].cost \in 0..p.lots[i].cost
<1>1. /\ p.lots \in Seq(Piece) /\ p.qty \in Nat /\ p.cost \in Nat
  BY SoundIs
<1>2. o.face \in Int /\ o.amount \in Nat
  BY DEF Entry, IsEntry
<1> DEFINE fits == o.face > 0 /\ p.qty > 0
           share == AmortizedShare(p, o)
           amount == Least(o.amount, p.cost)
<1>3. Repaid(p, o) = IF fits THEN SpinoffPieces(p.lots, share) ELSE DrainPieces(p.lots, amount)
  BY Zenon DEF Repaid
<1>4. CASE fits
  <2>1. share \in 0..DivScale
    BY <1>1, <1>2, <1>4, AmortizedShareIs
  <2>2. Repaid(p, o) = SpinoffPieces(p.lots, share)
    BY <1>3, <1>4, Zenon
  <2> HIDE DEF share
  <2> QED BY <1>1, <2>1, <2>2, SpinoffPiecesIs
<1>5. CASE ~fits
  <2>1. amount \in Nat
    BY <1>1, <1>2 DEF Least
  <2>2. Repaid(p, o) = DrainPieces(p.lots, amount)
    BY <1>3, <1>5, Zenon
  <2> HIDE DEF amount
  <2> QED BY <1>1, <2>1, <2>2, DrainIs
<1> QED BY <1>4, <1>5

\* The pieces that cost something, without their units, cost as much as all.
LEMMA GivenIs ==
  ASSUME NEW pieces \in Seq(Piece)
  PROVE  LET given == Only(WithoutUnits(pieces), {i \in DOMAIN pieces : pieces[i].cost > 0})
         IN given \in Seq(Piece) /\ LotsCost(given) = LotsCost(pieces)
<1> DEFINE bare == WithoutUnits(pieces)
           keep == {i \in DOMAIN pieces : pieces[i].cost > 0}
<1>1. /\ bare \in Seq(Piece) /\ Len(bare) = Len(pieces)
      /\ \A i \in 1..Len(pieces) : bare[i].cost = pieces[i].cost
      /\ LotsCost(bare) = LotsCost(pieces)
  BY WithoutUnitsIs
<1>2. /\ DOMAIN pieces = 1..Len(pieces)
      /\ \A i \in 1..Len(pieces) : pieces[i].cost \in Nat
  <2>1. DOMAIN pieces = 1..Len(pieces) /\ \A i \in 1..Len(pieces) : pieces[i] \in Piece
    BY PiecesAdd
  <2> QED BY <2>1, PieceIs
<1>3. \A i \in 1..Len(bare) \ keep : bare[i].cost = 0
  BY <1>1, <1>2
<1> HIDE DEF bare, keep
<1>4. Only(bare, keep) \in Seq(Piece) /\ LotsCost(Only(bare, keep)) = LotsCost(bare)
  BY <1>1, <1>3, OnlyIs
<1> QED BY <1>1, <1>4 DEF bare, keep

\* A repayment gives up exactly the basis it takes from the lots.
LEMMA AmortizationIs ==
  ASSUME NEW d \in Nat, NEW p, IsPosition(p, d), NEW o, Entry(o), ApplyAmortization(p, o).ok
  PROVE  /\ Reckoned(p, ApplyAmortization(p, o).pos, d, 0, 0)
         /\ Joins(p, ApplyAmortization(p, o).pos, o)
<1> DEFINE pieces == Repaid(p, o)
           given == Only(WithoutUnits(pieces), {i \in DOMAIN pieces : pieces[i].cost > 0})
           lots == [i \in DOMAIN p.lots |-> [p.lots[i] EXCEPT !.cost = @ - pieces[i].cost]]
           q == [p EXCEPT !.cost = @ - LotsCost(pieces), !.lots = lots]
           r == Realize(q, o, 0, given)
           fits == o.amount > 0 /\ p.held
<1>1. ApplyAmortization(p, o) = [ok |-> fits, pos |-> r]
  BY Zenon DEF ApplyAmortization, Provided
<1> HIDE DEF pieces, given, lots, q, r, fits
<1>2. fits /\ ApplyAmortization(p, o).pos = r
  BY <1>1
<1>3. o.amount > 0
  BY <1>2 DEF fits
<1>4. /\ pieces \in Seq(Piece) /\ Len(pieces) = Len(p.lots)
      /\ \A i \in 1..Len(p.lots) : pieces[i].cost \in 0..p.lots[i].cost
  BY <1>3, RepaidIs DEF pieces
<1>5. /\ DOMAIN p = DOMAIN NoPosition /\ p.lots \in Seq(Piece) /\ InOrder(p.lots)
      /\ LotsUnits(p.lots) = p.qty /\ LotsCost(p.lots) = p.cost
      /\ \A i \in 1..Len(p.lots) : p.lots[i].day <= d
      /\ p.realized \in Seq(Realization) /\ p.cur \in Int
  BY SoundIs
<1>6. /\ lots \in Seq(Piece) /\ Len(lots) = Len(p.lots) /\ InOrder(lots)
      /\ \A i \in 1..Len(p.lots) : lots[i].day = p.lots[i].day
      /\ SameNumbers(lots, p.lots)
      /\ LotsUnits(lots) = LotsUnits(p.lots)
      /\ LotsCost(lots) = LotsCost(p.lots) - LotsCost(pieces)
  BY <1>4, <1>5, CheaperIs DEF lots
<1>7. /\ DOMAIN q = DOMAIN NoPosition /\ q.lots = lots /\ q.qty = p.qty
      /\ q.cost = p.cost - LotsCost(pieces) /\ q.realized = p.realized /\ q.cur = p.cur
  BY <1>5, FieldsAre DEF q
<1>8. IsPosition(q, d)
  <2>1. Queue(q.lots, q.qty, q.cost)
    BY <1>5, <1>6, <1>7 DEF Queue
  <2>2. \A i \in 1..Len(q.lots) : q.lots[i].day <= d
    BY <1>5, <1>6, <1>7
  <2> QED BY <1>5, <1>7, <2>1, <2>2 DEF IsPosition
<1>9. given \in Seq(Piece) /\ LotsCost(given) = LotsCost(pieces)
  BY <1>4, GivenIs DEF given
<1>10. /\ IsPosition(r, d) /\ r.cost = q.cost /\ r.lots = q.lots
       /\ GivenUp(r.realized) = GivenUp(q.realized) + LotsCost(given)
  BY <1>8, <1>9, RealizeIs DEF r
<1>11. r.cost + GivenUp(r.realized) = p.cost + GivenUp(p.realized) + 0 - 0
  <2> DEFINE g == GivenUp(p.realized)
             c == LotsCost(pieces)
  <2>1. GivenUp(r.realized) = g + c /\ r.cost = p.cost - c /\ g \in Int /\ c \in Int /\ p.cost \in Int
    BY <1>4, <1>7, <1>9, <1>10, HeldIs, PiecesAdd
  <2> HIDE DEF g, c
  <2>2. r.cost + GivenUp(r.realized) = p.cost + g + 0 - 0
    BY <2>1
  <2> QED BY <2>2 DEF g
<1>12. Joins(p, r, o)
  <2>1. KeepsNumbers(r.lots, p.lots)
    BY <1>6, <1>7, <1>10, SameKeeps
  <2> QED BY <2>1, KeepsJoins
<1> QED BY <1>2, <1>10, <1>11, <1>12 DEF Reckoned

LEMMA GateIs ==
  ASSUME NEW c, NEW p
  PROVE  Provided(c, p).ok = c /\ Provided(c, p).pos = p
BY DEF Provided

\* The pieces of a stored breakdown.
LEMMA EnteredLotsIs ==
  ASSUME NEW o, Entry(o), PiecesExist(o)
  PROVE  /\ o.lots \in Seq(Piece) /\ Len(o.lots) \in Nat
         /\ \A i \in 1..Len(o.lots) : o.lots[i].day <= o.day
<1> DEFINE Raw == PieceColumns
           lots == o.lots
<1>1. lots \in Seq(Raw)
  BY DEF Entry, IsEntry
<1>2. \A i \in DOMAIN lots : lots[i].qty >= 0 /\ lots[i].cost >= 0 /\ lots[i].day <= o.day
  BY Zenon DEF PiecesExist
<1> HIDE DEF lots, Raw
<1>3. Len(lots) \in Nat /\ DOMAIN lots = 1..Len(lots) /\ \A i \in 1..Len(lots) : lots[i] \in Raw
  BY <1>1
<1>4. ASSUME NEW i \in 1..Len(lots) PROVE lots[i] \in Piece
  <2> DEFINE x == lots[i]
  <2>1. x \in Raw /\ x.qty >= 0 /\ x.cost >= 0
    BY <1>2, <1>3
  <2> HIDE DEF x
  <2>2. x \in Piece
    BY <2>1 DEF Raw, PieceColumns, Piece
  <2> QED BY <2>2 DEF x
<1>5. lots \in Seq(Piece)
  BY <1>1, <1>3, <1>4
<1> QED BY <1>2, <1>3, <1>5 DEF lots

\* A spent lot is nothing.
LEMMA WithoutSpentIs ==
  ASSUME NEW d \in Nat, NEW p, IsPosition(p, d)
  PROVE  LET r == WithoutSpent(p)
         IN /\ IsPosition(r, d) /\ r.cost = p.cost /\ r.realized = p.realized
            /\ KeepsNumbers(r.lots, p.lots)
<1> DEFINE keep == {i \in DOMAIN p.lots : ~Spent(p.lots[i])}
           lots == Only(p.lots, keep)
           r == WithoutSpent(p)
<1>1. r = [p EXCEPT !.lots = lots]
  BY Zenon DEF WithoutSpent, Unspent
<1>2. /\ DOMAIN p = DOMAIN NoPosition /\ p.lots \in Seq(Piece) /\ InOrder(p.lots)
      /\ LotsUnits(p.lots) = p.qty /\ LotsCost(p.lots) = p.cost
      /\ DOMAIN p.lots = 1..Len(p.lots)
      /\ \A i \in 1..Len(p.lots) : p.lots[i].day <= d
      /\ p.realized \in Seq(Realization) /\ p.cur \in Int
  BY SoundIs
<1>3. \A i \in 1..Len(p.lots) \ keep : p.lots[i].qty = 0 /\ p.lots[i].cost = 0
  BY <1>2 DEF Spent
<1> HIDE DEF keep
<1>4. /\ lots \in Seq(Piece) /\ InOrder(lots)
      /\ LotsUnits(lots) = LotsUnits(p.lots) /\ LotsCost(lots) = LotsCost(p.lots)
      /\ \A j \in 1..Len(lots) : \E i \in 1..Len(p.lots) : lots[j] = p.lots[i]
  <2> DEFINE all == p.lots
  <2>1. /\ all \in Seq(Piece) /\ InOrder(all)
        /\ \A i \in 1..Len(all) \ keep : all[i].qty = 0
        /\ \A i \in 1..Len(all) \ keep : all[i].cost = 0
    BY <1>2, <1>3
  <2> HIDE DEF all
  <2>2. /\ Only(all, keep) \in Seq(Piece) /\ InOrder(Only(all, keep))
        /\ LotsUnits(Only(all, keep)) = LotsUnits(all) /\ LotsCost(Only(all, keep)) = LotsCost(all)
        /\ \A j \in 1..Len(Only(all, keep)) : \E i \in 1..Len(all) : Only(all, keep)[j] = all[i]
    BY <2>1, OnlyIs
  <2> QED BY <2>2 DEF all
<1> HIDE DEF lots, r
<1>5. /\ DOMAIN r = DOMAIN NoPosition /\ r.lots = lots /\ r.qty = p.qty /\ r.cost = p.cost
      /\ r.realized = p.realized /\ r.cur = p.cur
  BY <1>1, <1>2, FieldsAre
<1>6. Queue(r.lots, r.qty, r.cost)
  BY <1>2, <1>4, <1>5 DEF Queue
<1>7. \A i \in 1..Len(r.lots) : r.lots[i].day <= d
  <2> SUFFICES ASSUME NEW j \in 1..Len(lots) PROVE lots[j].day <= d
    BY <1>5
  <2>1. PICK i \in 1..Len(p.lots) : lots[j] = p.lots[i]
    BY <1>4
  <2> QED BY <1>2, <2>1
<1>8. IsPosition(r, d)
  BY <1>2, <1>5, <1>6, <1>7 DEF IsPosition
<1>9. KeepsNumbers(lots, p.lots)
  <2> DEFINE all == p.lots
  <2>1. all \in Seq(Piece)
    BY <1>2
  <2> HIDE DEF all
  <2>2. \A M : NumberedBy(all, M) => NumberedBy(Only(all, keep), M)
    BY <2>1, OnlyKeeps
  <2> QED BY <2>2 DEF KeepsNumbers, all, lots
<1> QED BY <1>5, <1>8, <1>9 DEF r

\* A step that takes out pieces of this cost.
LEMMA LeavesIs ==
  ASSUME NEW d \in Nat, NEW p, IsPosition(p, d), NEW r, IsPosition(r, d), NEW c \in Int,
         r.cost = p.cost - c, r.realized = p.realized
  PROVE  Reckoned(p, r, d, 0, c)
<1> DEFINE g == GivenUp(p.realized)
<1>1. g \in Int /\ p.cost \in Int /\ GivenUp(r.realized) = g
  BY HeldIs
<1> HIDE DEF g
<1>2. r.cost + g = p.cost + g + 0 - c
  BY <1>1
<1>3. r.cost + GivenUp(r.realized) = p.cost + g + 0 - c
  BY <1>1, <1>2
<1> QED BY <1>3 DEF Reckoned, g

\* A parcel that leaves as its recorded breakdown takes its basis with it.
LEMMA DepartureIs ==
  ASSUME NEW d \in Nat, NEW p, IsPosition(p, d), NEW o, Entry(o), o.lots # <<>>,
         ApplyDeparture(p, o).ok
  PROVE  /\ Reckoned(p, ApplyDeparture(p, o).pos, d, 0, LotsCost(o.lots))
         /\ Joins(p, ApplyDeparture(p, o).pos, o)
<1> DEFINE out == Taken(p, o.lots)
           left == WithoutSpent(out.pos)
           fits == CheckTransferLots(o)
           enough == o.qty <= p.qty
           released == ReleaseRecorded(p, o)
           r == ApplyDeparture(p, o)
<1>1. r = IF Provided(fits, p).ok THEN ReleaseRecorded(Provided(fits, p).pos, o)
          ELSE Provided(fits, p)
  BY Zenon DEF ApplyDeparture, Then
<1>2. r = IF fits THEN released ELSE Provided(fits, p)
  <2>1. Provided(fits, p).ok = fits /\ Provided(fits, p).pos = p
    BY GateIs
  <2> HIDE DEF fits
  <2> QED BY <1>1, <2>1
<1>3. released = IF Provided(enough, p).ok
                 THEN Then(Run(TakePiece, Provided(enough, p).pos, o.lots),
                           LAMBDA q : Provided(TRUE, WithoutSpent(q)))
                 ELSE Provided(enough, p)
  BY Zenon DEF ReleaseRecorded, Then
<1>4. released = IF enough THEN IF out.ok THEN Provided(TRUE, left) ELSE out
                 ELSE Provided(enough, p)
  <2>1. Provided(enough, p).ok = enough /\ Provided(enough, p).pos = p
    BY GateIs
  <2>2. ASSUME enough
        PROVE  released = Then(out, LAMBDA q : Provided(TRUE, WithoutSpent(q)))
    BY <1>3, <2>1, <2>2, Zenon DEF Taken
  <2>3. Then(out, LAMBDA q : Provided(TRUE, WithoutSpent(q)))
          = IF out.ok THEN Provided(TRUE, left) ELSE out
    BY Zenon DEF Then
  <2>4. ASSUME ~enough PROVE released = Provided(enough, p)
    BY <1>3, <2>1, <2>4, Zenon
  <2> HIDE DEF enough, released, out, left
  <2> QED BY <2>2, <2>3, <2>4, Zenon
<1> HIDE DEF fits, enough, released, out, left, r
<1>5. fits /\ r = released
  <2>1. CASE ~fits
    <3>1. r = Provided(fits, p)
      BY <1>2, <2>1
    <3>2. r.ok = fits
      BY <3>1, GateIs
    <3> QED BY <2>1, <3>2 DEF r
  <2> QED BY <1>2, <2>1
<1>6. enough /\ out.ok /\ r = Provided(TRUE, left)
  <2>1. CASE ~enough
    <3>1. released = Provided(enough, p)
      BY <1>4, <2>1
    <3>2. r.ok = enough
      BY <1>5, <3>1, GateIs
    <3> QED BY <2>1, <3>2 DEF r
  <2>2. CASE enough /\ ~out.ok
    <3>1. r = out
      BY <1>4, <1>5, <2>2
    <3> QED BY <2>2, <3>1 DEF r
  <2> QED BY <1>4, <1>5, <2>1, <2>2
<1>7. r.pos = left
  BY <1>6, GateIs
<1>8. o.lots \in Seq(Piece)
  BY <1>5, EnteredLotsIs DEF fits, CheckTransferLots
<1>9. /\ IsPosition(out.pos, d) /\ out.pos.cost = p.cost - LotsCost(o.lots)
      /\ out.pos.realized = p.realized /\ SameNumbers(out.pos.lots, p.lots)
  BY <1>6, <1>8, RunTakes DEF out
<1>10. /\ IsPosition(left, d) /\ left.cost = p.cost - LotsCost(o.lots)
       /\ left.realized = p.realized /\ KeepsNumbers(left.lots, out.pos.lots)
  BY <1>9, WithoutSpentIs DEF left
<1>11. LotsCost(o.lots) \in Int
  BY <1>8, PiecesAdd
<1>12. Joins(p, left, o)
  <2>1. KeepsNumbers(out.pos.lots, p.lots)
    BY <1>9, SameKeeps
  <2>2. KeepsNumbers(left.lots, p.lots)
    BY <1>10, <2>1 DEF KeepsNumbers
  <2> QED BY <2>2, KeepsJoins
<1> QED BY <1>7, <1>10, <1>11, <1>12, LeavesIs DEF r

\* A parcel without a breakdown leaves as a release.
LEMMA BareDepartureIs ==
  ASSUME NEW d \in Nat, NEW p, IsPosition(p, d), NEW o, Entry(o), CheckShape(o),
         o.typ \in Departures, o.lots = <<>>, ApplyDeparture(p, o).ok
  PROVE  IsPosition(ApplyDeparture(p, o).pos, d) /\ Joins(p, ApplyDeparture(p, o).pos, o)
<1> DEFINE fits == o.typ # "exchange_out"
           out == ReleaseFIFO(p, o.qty)
           gone == Provided(out.ok, out.pos)
           r == ApplyDeparture(p, o)
<1>1. r = IF Provided(fits, p).ok
          THEN Provided(ReleaseFIFO(Provided(fits, p).pos, o.qty).ok,
                        ReleaseFIFO(Provided(fits, p).pos, o.qty).pos)
          ELSE Provided(fits, p)
  BY Zenon DEF ApplyDeparture, Then
<1>2. r = IF fits THEN gone ELSE Provided(fits, p)
  <2>1. Provided(fits, p).ok = fits /\ Provided(fits, p).pos = p
    BY GateIs
  <2> HIDE DEF fits
  <2> QED BY <1>1, <2>1
<1> HIDE DEF fits, r, gone
<1>3. r = gone
  <2>1. CASE ~fits
    <3>1. r.ok = fits
      BY <1>2, <2>1, GateIs
    <3> QED BY <2>1, <3>1 DEF r
  <2> QED BY <1>2, <2>1
<1>4. out.ok /\ r.pos = out.pos
  <2> HIDE DEF out
  <2>1. gone.ok = out.ok /\ gone.pos = out.pos
    BY GateIs DEF gone
  <2> QED BY <1>3, <2>1 DEF r
<1>5. o.qty \in Nat \ {0}
  BY SMTT(30) DEF Entry, IsEntry, CheckShape
<1>6. IsPosition(out.pos, d) /\ KeepsNumbers(out.pos.lots, p.lots)
  BY <1>4, <1>5, ReleaseIs
<1> HIDE DEF out
<1> QED BY <1>4, <1>6, KeepsJoins DEF r

\* A spin-off takes out exactly the basis its breakdown names.
LEMMA SpinoffOutIs ==
  ASSUME NEW d \in Nat, NEW p, IsPosition(p, d), NEW o, Entry(o), ApplySpinoffOut(p, o).ok
  PROVE  /\ Reckoned(p, ApplySpinoffOut(p, o).pos, d, 0, LotsCost(o.lots))
         /\ Joins(p, ApplySpinoffOut(p, o).pos, o)
<1> DEFINE fits == o.amount >= 0 /\ CheckSpinoffLots(o)
           out == Carried(p, o.lots)
           r == ApplySpinoffOut(p, o)
<1>1. r = IF Provided(fits, p).ok THEN Run(Carved, Provided(fits, p).pos, o.lots)
          ELSE Provided(fits, p)
  BY Zenon DEF ApplySpinoffOut, Then
<1>2. r = IF fits THEN out ELSE Provided(fits, p)
  BY <1>1, GateIs, Zenon DEF Carried
<1> HIDE DEF fits, out, r
<1>3. fits /\ r = out
  <2>1. CASE ~fits
    <3>1. r = Provided(fits, p)
      BY <1>2, <2>1
    <3>2. r.ok = fits
      BY <3>1, GateIs
    <3> QED BY <2>1, <3>2 DEF r
  <2> QED BY <1>2, <2>1
<1>4. o.lots \in Seq(Piece)
  BY <1>3, EnteredLotsIs DEF fits, CheckSpinoffLots
<1>5. out.ok
  BY <1>3 DEF r
<1>6. /\ IsPosition(out.pos, d) /\ out.pos.cost = p.cost - LotsCost(o.lots)
      /\ out.pos.realized = p.realized /\ SameNumbers(out.pos.lots, p.lots)
  BY <1>4, <1>5, RunCarves DEF out
<1>7. LotsCost(o.lots) \in Int
  BY <1>4, PiecesAdd
<1>8. Joins(p, out.pos, o)
  <2>1. KeepsNumbers(out.pos.lots, p.lots)
    BY <1>6, SameKeeps
  <2> QED BY <2>1, KeepsJoins
<1> QED BY <1>3, <1>6, <1>7, <1>8, LeavesIs DEF r

\* The lots an arrival brings cost what its row says.
LEMMA ArrivingLotsIs ==
  ASSUME NEW d \in Nat, NEW o, Entry(o), o.day = d, o.qty > 0, o.amount >= 0,
         o.lots # <<>> => CheckTransferLots(o)
  PROVE  LET lots == ArrivingLots(o)
         IN /\ lots \in Seq(Piece) /\ \A i \in 1..Len(lots) : lots[i].day <= d
            /\ LotsCost(lots) = o.amount
            /\ LotOrigin(o) # 0 => NumberedBy(lots, NumbersGiven(o))
<1>1. o.qty \in Int /\ o.amount \in Int /\ o.ext \in Int /\ o.id \in Int
  BY DEF Entry, IsEntry
<1>2. \A i \in Int : LotID(o, i) \in Int \X Int
  BY <1>1 DEF LotID, LotOrigin, NoLot
<1>3. CASE o.lots = <<>>
  <2> DEFINE x == [lot |-> LotID(o, 0), qty |-> o.qty, cost |-> o.amount, day |-> NoDay]
  <2>1. ArrivingLots(o) = <<x>>
    BY <1>3, Zenon DEF ArrivingLots
  <2>2. LotID(o, 0) \in Int \X Int
    BY <1>2
  <2>3. x \in Piece /\ x.cost = o.amount /\ x.day <= d
    BY <1>1, <2>2 DEF Piece, NoDay
  <2>4. x.lot \in NumbersGiven(o)
    <3>1. x.lot = LotID(o, 0) /\ Len(o.lots) = 0
      BY <1>3
    <3> QED BY <3>1 DEF NumbersGiven
  <2> HIDE DEF x
  <2>5. <<x>> \in Seq(Piece) /\ DOMAIN <<x>> = {1} /\ <<x>>[1] = x
    BY <2>3
  <2>6. NumberedBy(<<x>>, NumbersGiven(o))
    BY <2>4, <2>5 DEF NumberedBy
  <2> QED BY <2>1, <2>3, <2>6, SinglesAre
<1>4. CASE o.lots # <<>>
  <2> DEFINE lots == o.lots
             x(i) == [lots[i] EXCEPT !.lot = LotID(o, i - 1)]
             new == ArrivingLots(o)
  <2>1. CheckTransferLots(o)
    BY <1>4
  <2>2. /\ lots \in Seq(Piece) /\ Len(lots) \in Nat
        /\ \A i \in 1..Len(lots) : lots[i].day <= o.day
    BY <2>1, EnteredLotsIs DEF CheckTransferLots
  <2>3. DOMAIN lots = 1..Len(lots) /\ \A i \in 1..Len(lots) : lots[i] \in Piece
    BY <2>2
  <2>4. new = [i \in 1..Len(lots) |-> x(i)]
    <3>1. new = [i \in DOMAIN lots |-> x(i)]
      BY <1>4, Zenon DEF ArrivingLots
    <3> QED BY <2>3, <3>1
  <2>5. LotsCost(lots) = o.amount
    BY <2>1, Zenon DEF CheckTransferLots
  <2> HIDE DEF lots
  <2>6. ASSUME NEW i \in 1..Len(lots)
        PROVE  /\ x(i) \in Piece /\ x(i).cost = lots[i].cost /\ x(i).day = lots[i].day
               /\ x(i).lot = LotID(o, i - 1)
    <3> DEFINE id == LotID(o, i - 1)
               y == lots[i]
    <3>1. id \in Int \X Int /\ y \in Piece
      <4>1. i - 1 \in Int
        BY <2>2
      <4>2. id \in Int \X Int
        BY <1>2, <4>1
      <4> QED BY <2>3, <4>2
    <3> HIDE DEF id, y
    <3>2. /\ [y EXCEPT !.lot = id] \in Piece /\ [y EXCEPT !.lot = id].cost = y.cost
          /\ [y EXCEPT !.lot = id].day = y.day /\ [y EXCEPT !.lot = id].lot = id
      BY <3>1 DEF Piece
    <3> QED BY <3>2 DEF id, y
  <2> HIDE DEF x, new
  <2>7. /\ new \in Seq(Piece) /\ Len(new) = Len(lots)
        /\ \A i \in 1..Len(lots) : /\ new[i].cost = lots[i].cost /\ new[i].day = lots[i].day
                                   /\ new[i].lot = LotID(o, i - 1)
    BY <2>2, <2>4, <2>6
  <2>8. LotsCost(new) = LotsCost(lots)
    BY <2>2, <2>7, SameCosts
  <2>9. \A i \in 1..Len(new) : new[i].day <= d
    BY <2>2, <2>7 DEF lots
  <2>10. ASSUME LotOrigin(o) # 0 PROVE NumberedBy(new, NumbersGiven(o))
    <3>1. DOMAIN new = 1..Len(lots)
      BY <2>7
    <3>2. \A i \in 1..Len(lots) : i - 1 \in 0..Len(lots)
      BY <2>2
    <3>3. \A i \in 1..Len(lots) : new[i].lot \in NumbersGiven(o)
      BY <2>7, <3>2 DEF NumbersGiven, lots
    <3>4. ASSUME NEW i \in 1..Len(lots), NEW j \in 1..Len(lots), new[i].lot = new[j].lot
          PROVE  i = j
      <4>1. <<LotOrigin(o), i - 1>> = <<LotOrigin(o), j - 1>>
        BY <2>7, <2>10, <3>4 DEF LotID
      <4>2. i - 1 = j - 1
        BY <4>1
      <4> QED BY <2>2, <4>2
    <3> QED BY <3>1, <3>3, <3>4 DEF NumberedBy
  <2> QED BY <2>5, <2>7, <2>8, <2>9, <2>10 DEF new
<1> QED BY <1>3, <1>4

\* An arrival brings the basis its row says.
LEMMA ArrivalIs ==
  ASSUME NEW d \in Nat, NEW p, IsPosition(p, d), NEW o, Entry(o), o.day = d, CheckShape(o),
         o.typ \in Arrivals, ApplyArrival(p, o).ok
  PROVE  /\ Reckoned(p, ApplyArrival(p, o).pos, d, o.amount, 0)
         /\ Joins(p, ApplyArrival(p, o).pos, o)
<1> DEFINE fits == /\ o.amount >= 0
                   /\ IF o.lots = <<>> THEN o.typ = "transfer_in" ELSE CheckTransferLots(o)
           lots == ArrivingLots(o)
           out == Arrived(p, lots)
           r == ApplyArrival(p, o)
<1>1. r = IF Provided(fits, p).ok
          THEN Run(LAMBDA q, lot : Provided(TRUE, AddLot(q, lot)), Provided(fits, p).pos, lots)
          ELSE Provided(fits, p)
  BY Zenon DEF ApplyArrival, Then
<1>2. r = IF fits THEN out ELSE Provided(fits, p)
  <2>1. Provided(fits, p).ok = fits /\ Provided(fits, p).pos = p
    BY GateIs
  <2>2. r = IF fits THEN Run(LAMBDA q, lot : Provided(TRUE, AddLot(q, lot)), p, lots)
            ELSE Provided(fits, p)
    <3> HIDE DEF fits, lots
    <3> QED BY <1>1, <2>1
  <2> QED BY <2>2, Zenon DEF Arrived
<1>3. fits
  <2> HIDE DEF fits, out, r
  <2> SUFFICES ASSUME ~fits PROVE FALSE
    OBVIOUS
  <2>1. r = Provided(fits, p)
    BY <1>2
  <2>2. r.ok = fits
    BY <2>1, GateIs
  <2> QED BY <2>2 DEF r
<1>4. r = out
  BY <1>2, <1>3, Zenon
<1>5. o.qty > 0 /\ o.amount >= 0 /\ (o.lots # <<>> => CheckTransferLots(o))
  <2>1. o.qty > 0
    BY DEF CheckShape, Arrivals
  <2> QED BY <1>3, <2>1, Zenon
<1>6. /\ lots \in Seq(Piece) /\ \A i \in 1..Len(lots) : lots[i].day <= d
      /\ LotsCost(lots) = o.amount
      /\ LotOrigin(o) # 0 => NumberedBy(lots, NumbersGiven(o))
  BY <1>5, ArrivingLotsIs
<1> HIDE DEF lots, out, fits, r
<1>7. /\ IsPosition(out.pos, d) /\ out.pos.cost = p.cost + o.amount
      /\ out.pos.realized = p.realized
      /\ \A M, K : NumberedBy(p.lots, M) /\ NumberedBy(lots, K) /\ M \cap K = {}
            => NumberedBy(out.pos.lots, M \cup K)
  BY <1>6, RunArrives DEF out
<1> DEFINE g == GivenUp(p.realized)
<1>8. g \in Int /\ p.cost \in Int /\ GivenUp(out.pos.realized) = g /\ o.amount \in Int
  BY <1>6, <1>7, HeldIs, PiecesAdd
<1> HIDE DEF g
<1>9. out.pos.cost + GivenUp(out.pos.realized) = p.cost + g + o.amount - 0
  BY <1>7, <1>8
<1>10. Joins(p, out.pos, o)
  <2>1. NumbersOf(o) = NumbersGiven(o)
    BY DEF NumbersOf
  <2> QED BY <1>6, <1>7, <2>1, Zenon DEF Joins
<1> QED BY <1>4, <1>7, <1>9, <1>10 DEF Reckoned, g, r

-----------------------------------------------------------------------------
(* Splits. *)

LEMMA ScaleGrows ==
  ASSUME NEW x \in Nat, NEW y \in Nat \ {0}, NEW a \in Nat, NEW b \in Nat, a <= b
  PROVE  /\ (a * x) \div y \in Nat /\ (b * x) \div y \in Nat
         /\ (a * x) \div y <= (b * x) \div y
<1> DEFINE u == a * x
           v == b * x
           s == u \div y
           t == v \div y
           e == v % y
           f == u % y
<1>1. u \in Nat /\ v \in Nat /\ u <= v
  OBVIOUS
<1> HIDE DEF u, v
<1>2. u = y * s + f /\ s \in Nat /\ f \in Nat /\ v = y * t + e /\ t \in Nat /\ e \in Nat /\ e < y
  <2>1. u = y * (u \div y) + (u % y) /\ u \div y \in Nat /\ u % y \in 0..(y - 1)
    BY <1>1, DivisionIs
  <2>2. v = y * (v \div y) + (v % y) /\ v \div y \in Nat /\ v % y \in 0..(y - 1)
    BY <1>1, DivisionIs
  <2> QED BY <2>1, <2>2
<1> HIDE DEF s, t, e, f
<1> DEFINE k == y * s
           m == y * t
<1>3. k \in Nat /\ m \in Nat /\ y * (t + 1) = m + y
  BY <1>2
<1>4. u = k + f /\ v = m + e
  BY <1>2
<1>5. y * s < y * (t + 1)
  <2> HIDE DEF k, m
  <2>1. k < m + y
    BY <1>1, <1>2, <1>3, <1>4
  <2>2. k < y * (t + 1)
    BY <1>3, <2>1
  <2> QED BY <2>2 DEF k
<1>6. s < t + 1
  <2>1. t + 1 \in Int
    BY <1>2
  <2> QED BY <1>2, <1>5, <2>1, SameOrLess
<1>7. s <= t
  BY <1>2, <1>6
<1> QED BY <1>2, <1>7 DEF s, t, u, v

\* A split truncates the whole once and its lots add up to the truncated whole.
LEMMA SplitIs ==
  ASSUME NEW d \in Nat, NEW p, IsPosition(p, d), NEW ratio, ratio[1] \in Nat, ratio[2] \in Nat \ {0}
  PROVE  /\ Reckoned(p, SplitLots(p, ratio), d, 0, 0)
         /\ SameNumbers(SplitLots(p, ratio).lots, p.lots)
<1> DEFINE m == Len(p.lots)
           Scale(q) == (q * ratio[1]) \div ratio[2]
           before == Prefix(Units(p.lots))
           UpTo(i) == IF i = m THEN Scale(p.qty) ELSE Scale(before[i])
           S(i) == Scale(before[i])
           x(i) == [p.lots[i] EXCEPT !.qty = UpTo(i) - (IF i = 1 THEN 0 ELSE UpTo(i - 1))]
           lots == [i \in 1..m |-> x(i)]
           q == SplitLots(p, ratio)
<1>1. q = [p EXCEPT !.qty = Scale(@), !.lots = lots]
  BY Zenon DEF SplitLots
<1>2. /\ DOMAIN p = DOMAIN NoPosition /\ p.lots \in Seq(Piece) /\ InOrder(p.lots)
      /\ LotsUnits(p.lots) = p.qty /\ LotsCost(p.lots) = p.cost
      /\ p.qty \in Nat /\ m \in Nat /\ DOMAIN p.lots = 1..m
      /\ \A i \in 1..m : p.lots[i] \in Piece /\ p.lots[i].day <= d /\ p.lots[i].day \in Nat
      /\ p.realized \in Seq(Realization) /\ p.cur \in Int
  BY SoundIs
<1>3. /\ Units(p.lots) \in Seq(Nat) /\ Len(Units(p.lots)) = m
      /\ LotsUnits(p.lots) = before[m]
  BY <1>2, PiecesAdd
<1>4. /\ \A i \in 0..m : before[i] \in Nat
      /\ \A i, j \in 0..m : i <= j => before[i] <= before[j]
      /\ before[0] = 0
  BY <1>3, SumsGrow, PrefixIs
<1> HIDE DEF before
<1>5. /\ \A i \in 0..m : S(i) \in Nat
      /\ \A i \in 1..m : S(i - 1) <= S(i)
      /\ S(0) = 0
  <2>1. ASSUME NEW i \in 1..m PROVE S(i - 1) \in Nat /\ S(i) \in Nat /\ S(i - 1) <= S(i)
    <3>1. i - 1 \in 0..m /\ i \in 0..m /\ i - 1 <= i
      BY <1>2
    <3>2. before[i - 1] \in Nat /\ before[i] \in Nat /\ before[i - 1] <= before[i]
      BY <1>4, <3>1
    <3> QED BY <3>2, ScaleGrows
  <2>2. S(0) = 0
    <3>1. 0 * ratio[1] = 0 /\ 0 \div ratio[2] = 0
      BY SMTT(30)
    <3> QED BY <1>4, <3>1
  <2> HIDE DEF S
  <2>3. ASSUME NEW i \in 0..m PROVE S(i) \in Nat
    <3>1. i = 0 \/ i \in 1..m
      BY <1>2
    <3> QED BY <2>1, <2>2, <3>1
  <2> QED BY <2>1, <2>2, <2>3
<1>6. UpTo(m) = S(m) /\ Scale(p.qty) = S(m)
  BY <1>2, <1>3
<1>7. \A i : UpTo(i) = S(i)
  BY <1>6, Zenon
<1> HIDE DEF UpTo, S
<1>8. ASSUME NEW i \in 1..m
      PROVE  UpTo(i) - (IF i = 1 THEN 0 ELSE UpTo(i - 1)) = S(i) - S(i - 1) /\ S(i) - S(i - 1) \in Nat
  <2>1. S(i - 1) \in Nat /\ S(i) \in Nat /\ S(i - 1) <= S(i)
    <3>1. i - 1 \in 0..m /\ i \in 0..m
      BY <1>2
    <3> QED BY <1>5, <3>1
  <2>2. CASE i = 1
    BY <1>5, <1>7, <2>1, <2>2
  <2>3. CASE i # 1
    BY <1>7, <2>1, <2>3
  <2> QED BY <2>2, <2>3
<1>9. ASSUME NEW i \in 1..m
      PROVE  /\ x(i) \in Piece /\ x(i).qty = S(i) - S(i - 1) /\ x(i).cost = p.lots[i].cost
             /\ x(i).day = p.lots[i].day /\ x(i).lot = p.lots[i].lot
  <2> DEFINE y == p.lots[i]
             k == UpTo(i) - (IF i = 1 THEN 0 ELSE UpTo(i - 1))
  <2>1. y \in Piece /\ k \in Nat /\ k = S(i) - S(i - 1)
    BY <1>2, <1>8
  <2> HIDE DEF y, k
  <2>2. /\ [y EXCEPT !.qty = k] \in Piece /\ [y EXCEPT !.qty = k].qty = k
        /\ [y EXCEPT !.qty = k].cost = y.cost /\ [y EXCEPT !.qty = k].day = y.day
        /\ [y EXCEPT !.qty = k].lot = y.lot
    BY <2>1 DEF Piece
  <2> QED BY <2>1, <2>2 DEF y, k
<1> HIDE DEF x
<1>10. /\ lots \in Seq(Piece) /\ Len(lots) = m
       /\ \A i \in 1..m : /\ lots[i].qty = S(i) - S(i - 1) /\ lots[i].cost = p.lots[i].cost
                          /\ lots[i].day = p.lots[i].day /\ lots[i].lot = p.lots[i].lot
  <2>1. \A i \in 1..m : lots[i] = x(i) /\ x(i) \in Piece
    BY <1>9
  <2>2. lots \in Seq(Piece) /\ Len(lots) = m
    BY <1>2, <1>9
  <2> HIDE DEF lots
  <2> QED BY <1>9, <2>1, <2>2
<1> DEFINE all == Scale(p.qty)
<1>11. q = [p EXCEPT !.qty = all, !.lots = lots]
  BY <1>1, Zenon
<1> HIDE DEF lots, q, all
<1>12. LotsUnits(lots) = S(m)
  <2> DEFINE u == Units(lots)
  <2>1. /\ u \in Seq(Int) /\ Len(u) = m /\ \A i \in 1..m : u[i] = lots[i].qty
        /\ LotsUnits(lots) = Prefix(u)[m]
    BY <1>10, PiecesAdd, SumsGrow
  <2> HIDE DEF u
  <2>2. Prefix(u)[0] = 0 /\ \A i \in 1..m : Prefix(u)[i] = Prefix(u)[i - 1] + u[i]
    BY <2>1, PrefixIs
  <2> DEFINE G == {i \in 0..m : Prefix(u)[i] = S(i)}
  <2>3. 0 \in G
    BY <1>2, <1>5, <2>2
  <2>4. \A i \in 1..m : i - 1 \in G => i \in G
    <3> SUFFICES ASSUME NEW i \in 1..m, i - 1 \in G PROVE i \in G
      OBVIOUS
    <3>1. S(i - 1) \in Nat /\ S(i) \in Nat
      <4>1. i - 1 \in 0..m /\ i \in 0..m
        BY <1>2
      <4> QED BY <1>5, <4>1
    <3>2. Prefix(u)[i] = S(i - 1) + (S(i) - S(i - 1))
      BY <1>10, <2>1, <2>2
    <3>3. i \in 0..m
      BY <1>2
    <3> QED BY <3>1, <3>2, <3>3
  <2> HIDE DEF G
  <2>5. \A i \in 0..m : i \in G
    BY <1>2, <2>3, <2>4, Climbing
  <2>6. m \in G
    BY <1>2, <2>5
  <2> QED BY <2>1, <2>6 DEF G
<1>13. LotsCost(lots) = p.cost
  BY <1>2, <1>10, SameCosts
<1>14. InOrder(lots)
  BY <1>2, <1>10, SameDays
<1>15. /\ DOMAIN q = DOMAIN NoPosition /\ q.lots = lots /\ q.qty = all /\ q.cost = p.cost
       /\ q.realized = p.realized /\ q.cur = p.cur
  BY <1>2, <1>11, FieldsAre
<1>16. all = S(m)
  BY <1>6 DEF all
<1>17. IsPosition(q, d)
  <2>1. Queue(q.lots, q.qty, q.cost)
    BY <1>10, <1>12, <1>13, <1>14, <1>15, <1>16 DEF Queue
  <2>2. \A i \in 1..Len(q.lots) : q.lots[i].day <= d
    BY <1>2, <1>10, <1>15
  <2> QED BY <1>2, <1>15, <2>1, <2>2 DEF IsPosition
<1>18. p.cost \in Nat /\ q.cost = p.cost - 0
  BY <1>15, HeldIs
<1>19. 0 \in Int
  OBVIOUS
<1>20. SameNumbers(q.lots, p.lots)
  BY <1>2, <1>10, <1>15, AlikeByNumber
<1> QED BY <1>15, <1>17, <1>18, <1>19, <1>20, LeavesIs DEF q

LEMMA WholeUnits ==
  ASSUME NEW q \in Nat \ {0}, NEW b \in Nat
  PROVE  (b * q) \div q = b
<1> DEFINE u == b * q
           x == u \div q
           r == u % q
<1>1. u \in Nat /\ u = q * b
  OBVIOUS
<1> HIDE DEF u
<1>2. u = q * x + r /\ x \in Nat /\ r \in Nat /\ r < q
  <2>1. u = q * (u \div q) + (u % q) /\ u \div q \in Nat /\ u % q \in 0..(q - 1)
    BY <1>1, DivisionIs
  <2> QED BY <2>1
<1> HIDE DEF x, r
<1>3. q * x \in Nat /\ q * b \in Nat /\ q * (x + 1) = q * x + q /\ x + 1 \in Int
  BY <1>2
<1>4. q * x <= q * b /\ q * b < q * (x + 1)
  <2> DEFINE k == q * x
             m == q * b
             e == q * (x + 1)
  <2>1. k \in Nat /\ m \in Nat /\ e = k + q /\ m = k + r
    BY <1>1, <1>2, <1>3
  <2> HIDE DEF k, m, e
  <2>2. k <= m /\ m < e
    BY <1>2, <2>1
  <2> QED BY <2>2 DEF k, m, e
<1>5. x <= b
  BY <1>2, <1>4, SameOrLess
<1>6. b < x + 1
  BY <1>3, <1>4, SameOrLess
<1> QED BY <1>2, <1>5, <1>6 DEF x, u

\* Nothing after the last piece with units: the sum up to it is the whole.
LEMMA NothingAfter ==
  ASSUME NEW s \in Seq(Nat), NEW k \in 1..Len(s), \A j \in 1..Len(s) : j > k => s[j] = 0
  PROVE  Prefix(s)[k] = Prefix(s)[Len(s)]
<1> DEFINE G == {i \in 0..Len(s) : i < k \/ Prefix(s)[i] = Prefix(s)[k]}
<1>1. /\ Len(s) \in Nat /\ s \in Seq(Int) /\ \A i \in 0..Len(s) : Prefix(s)[i] \in Nat
  BY SumsGrow
<1>2. \A i \in 1..Len(s) : Prefix(s)[i] = Prefix(s)[i - 1] + s[i]
  BY <1>1, PrefixIs
<1>3. 0 \in G
  BY <1>1
<1>4. \A i \in 1..Len(s) : i - 1 \in G => i \in G
  <2> SUFFICES ASSUME NEW i \in 1..Len(s), i - 1 \in G PROVE i \in G
    OBVIOUS
  <2>1. i \in 0..Len(s) /\ i - 1 \in 0..Len(s)
    BY <1>1
  <2>2. CASE i <= k
    BY <2>1, <2>2
  <2>3. CASE i > k
    <3>1. s[i] = 0 /\ Prefix(s)[i] = Prefix(s)[i - 1] + s[i] /\ Prefix(s)[i - 1] \in Nat
      BY <1>1, <1>2, <2>1, <2>3
    <3>2. ~(i - 1 < k)
      BY <2>3
    <3>3. Prefix(s)[i - 1] = Prefix(s)[k]
      BY <3>2
    <3>4. Prefix(s)[i] = Prefix(s)[k]
      BY <3>1, <3>3
    <3> QED BY <2>1, <3>4
  <2> QED BY <2>2, <2>3
<1> HIDE DEF G
<1>5. \A i \in 0..Len(s) : i \in G
  BY <1>1, <1>3, <1>4, Climbing
<1>6. Len(s) \in G
  BY <1>1, <1>5
<1> QED BY <1>1, <1>6 DEF G

\* Pieces of whole units are their own quantized breakdown, but for the spent.
LEMMA QuantizeIs ==
  ASSUME NEW pieces \in Seq(Piece), NEW q \in Nat \ {0}, LotsUnits(pieces) = q
  PROVE  LET lots == Quantize(pieces, q)
         IN lots \in Seq(Piece) /\ LotsUnits(lots) = q /\ lots # <<>> /\ lots = Unspent(pieces)
<1> DEFINE before == Prefix(Units(pieces))
           withUnits == {i \in DOMAIN pieces : pieces[i].qty > 0}
           UpTo(i) == IF i = 0 THEN 0
                      ELSE IF i \in withUnits /\ \A j \in withUnits : j <= i THEN q
                      ELSE (before[i] * q) \div q
           x(i) == [pieces[i] EXCEPT !.qty = UpTo(i) - UpTo(i - 1)]
           scaled == [i \in DOMAIN pieces |-> x(i)]
<1>1. Quantize(pieces, q) = Unspent(scaled)
  BY Zenon DEF Quantize, Rescale
<1>2. /\ Len(pieces) \in Nat /\ DOMAIN pieces = 1..Len(pieces)
      /\ \A i \in 1..Len(pieces) : pieces[i] \in Piece
      /\ Units(pieces) \in Seq(Nat) /\ Len(Units(pieces)) = Len(pieces)
      /\ \A i \in 1..Len(pieces) : Units(pieces)[i] = pieces[i].qty
      /\ before[Len(pieces)] = q
  BY PiecesAdd
<1>3. /\ \A i \in 0..Len(pieces) : before[i] \in Nat
      /\ before[0] = 0
      /\ \A i \in 1..Len(pieces) : before[i] = before[i - 1] + pieces[i].qty
  BY <1>2, SumsGrow, PrefixIs
<1>4. \A i \in 1..Len(pieces) : pieces[i].qty \in Nat
  BY <1>2, PieceIs
<1>5. ASSUME NEW i \in 1..Len(pieces), i \in withUnits /\ \A j \in withUnits : j <= i
      PROVE  before[i] = q
  <2>1. \A j \in 1..Len(Units(pieces)) : j > i => Units(pieces)[j] = 0
    <3> SUFFICES ASSUME NEW j \in 1..Len(pieces), j > i PROVE pieces[j].qty = 0
      BY <1>2
    <3>1. j \notin withUnits
      <4> HIDE DEF withUnits
      <4>1. ~(j <= i)
        BY <1>2
      <4> QED BY <1>5, <4>1
    <3>2. ~(pieces[j].qty > 0)
      BY <1>2, <3>1
    <3> QED BY <1>4, <3>2
  <2>2. i \in 1..Len(Units(pieces))
    BY <1>2
  <2> QED BY <1>2, <2>1, <2>2, NothingAfter
<1> HIDE DEF before, withUnits
<1>6. ASSUME NEW i \in 0..Len(pieces) PROVE UpTo(i) = before[i]
  <2>1. CASE i = 0
    BY <1>3, <2>1
  <2>2. CASE i # 0 /\ i \in withUnits /\ \A j \in withUnits : j <= i
    <3>1. i \in 1..Len(pieces)
      BY <2>2
    <3>2. before[i] = q
      BY <1>5, <2>2, <3>1
    <3> QED BY <2>2, <3>2, Zenon
  <2>3. CASE i # 0 /\ ~(i \in withUnits /\ \A j \in withUnits : j <= i)
    <3>1. UpTo(i) = (before[i] * q) \div q
      BY <2>3, Zenon
    <3>2. before[i] \in Nat
      BY <1>3
    <3> HIDE DEF UpTo
    <3> QED BY <3>1, <3>2, WholeUnits
  <2> QED BY <2>1, <2>2, <2>3
<1> HIDE DEF UpTo
<1>7. ASSUME NEW i \in 1..Len(pieces) PROVE x(i) = pieces[i]
  <2> DEFINE y == pieces[i]
             k == UpTo(i) - UpTo(i - 1)
  <2>1. k = y.qty
    <3>1. i \in 0..Len(pieces) /\ i - 1 \in 0..Len(pieces)
      BY <1>2
    <3>2. UpTo(i) = before[i] /\ UpTo(i - 1) = before[i - 1]
      BY <1>6, <3>1
    <3> QED BY <1>3, <1>4, <3>1, <3>2, SMTT(30)
  <2>2. y \in Piece
    BY <1>2
  <2> HIDE DEF y, k
  <2>3. [y EXCEPT !.qty = k] = y
    BY <2>1, <2>2 DEF Piece
  <2> QED BY <2>3 DEF y, k
<1> HIDE DEF x
<1>8. scaled = pieces
  <2>1. scaled = [i \in 1..Len(pieces) |-> x(i)]
    BY <1>2
  <2> HIDE DEF scaled
  <2> QED BY <1>2, <1>7, <2>1
<1> HIDE DEF scaled
<1> DEFINE keep == {i \in DOMAIN pieces : ~Spent(pieces[i])}
           lots == Only(pieces, keep)
<1>9. Quantize(pieces, q) = lots
  BY <1>1, <1>8, Zenon DEF Unspent
<1>13. Quantize(pieces, q) = Unspent(pieces)
  BY <1>1, <1>8, Zenon
<1>10. \A i \in 1..Len(pieces) \ keep : pieces[i].qty = 0
  BY <1>2 DEF Spent
<1> HIDE DEF keep
<1>11. lots \in Seq(Piece) /\ LotsUnits(lots) = q
  BY <1>10, OnlyIs
<1> HIDE DEF lots
<1>12. lots # <<>>
  <2> SUFFICES ASSUME lots = <<>> PROVE FALSE
    OBVIOUS
  <2>1. Len(lots) = 0 /\ Units(lots) \in Seq(Int) /\ Len(Units(lots)) = 0
    BY <1>11, PiecesAdd, SumsGrow
  <2>2. LotsUnits(lots) = 0
    BY <2>1, TotalIs DEF LotsUnits
  <2> QED BY <1>11, <2>2
<1> QED BY <1>9, <1>11, <1>12, <1>13

-----------------------------------------------------------------------------
(* The fold. *)

\* What is sound by a day is sound later.
LEMMA SoundLater ==
  ASSUME NEW d \in Nat, NEW e \in Nat, d <= e, NEW p, IsPosition(p, d)
  PROVE  IsPosition(p, e)
<1>1. \A i \in 1..Len(p.lots) : p.lots[i].day <= e
  <2>1. \A i \in 1..Len(p.lots) : p.lots[i].day <= d /\ p.lots[i].day \in Nat
    BY SoundIs
  <2> QED BY <2>1
<1> QED BY <1>1 DEF IsPosition

LEMMA NoPositionIs ==
  ASSUME NEW d \in Nat
  PROVE  /\ IsPosition(NoPosition, d)
         /\ NoPosition.cost = 0 /\ GivenUp(NoPosition.realized) = 0
<1>1. /\ NoPosition.lots = <<>> /\ NoPosition.qty = 0 /\ NoPosition.cost = 0
      /\ NoPosition.realized = <<>> /\ NoPosition.cur = 0
  BY DEF NoPosition
<1>2. <<>> \in Seq(Piece) /\ Len(<<>>) = 0 /\ InOrder(<<>>) /\ <<>> \in Seq(Realization)
  BY DEF InOrder
<1>3. LotsUnits(<<>>) = 0 /\ LotsCost(<<>>) = 0
  <2>1. /\ Units(<<>>) \in Seq(Int) /\ Len(Units(<<>>)) = 0
        /\ Costs(<<>>) \in Seq(Int) /\ Len(Costs(<<>>)) = 0
    BY <1>2, PiecesAdd, SumsGrow
  <2> QED BY <2>1, TotalIs DEF LotsUnits, LotsCost
<1>4. Queue(NoPosition.lots, NoPosition.qty, NoPosition.cost)
  BY <1>1, <1>2, <1>3 DEF Queue
<1>5. IsPosition(NoPosition, d)
  BY <1>1, <1>2, <1>4 DEF IsPosition
<1>6. GivenUp(<<>>) = 0
  <2> DEFINE s == <<>>
             t == [i \in DOMAIN s |-> LotsCost(s[i].released)]
  <2>1. GivenUp(s) = Total(t)
    BY Zenon DEF GivenUp
  <2>2. t = <<>>
    OBVIOUS
  <2>3. <<>> \in Seq(Int) /\ Len(<<>>) = 0
    OBVIOUS
  <2> QED BY <2>1, <2>2, <2>3, TotalIs
<1> QED BY <1>1, <1>5, <1>6

\* Settling the currency touches no holding.
LEMMA SettleIs ==
  ASSUME NEW d \in Nat, NEW p, IsPosition(p, d), NEW o, o.cur \in Int
  PROVE  LET r == Settle(p, o).pos
         IN IsPosition(r, d) /\ r.cost = p.cost /\ r.realized = p.realized /\ r.lots = p.lots
<1> DEFINE a == [p EXCEPT !.seen = TRUE, !.settled = TRUE, !.cur = o.cur]
           c == IF ~p.seen THEN o.cur ELSE IF p.settled THEN p.cur ELSE Least(p.cur, o.cur)
           b == [p EXCEPT !.seen = TRUE, !.cur = c]
           r == Settle(p, o).pos
<1>1. r = a \/ r = b
  <2> DEFINE must == MustMatchPositionCurrency(o)
             fits == p.settled => o.cur = p.cur
             e == [p EXCEPT !.seen = TRUE,
                            !.cur = IF ~p.seen THEN o.cur
                                    ELSE IF p.settled THEN @ ELSE Least(@, o.cur)]
  <2>1. Settle(p, o) = IF must THEN Provided(fits, a) ELSE Provided(TRUE, e)
    BY Zenon DEF Settle
  <2>2. e = b
    BY Zenon
  <2> HIDE DEF must, fits, e, a, b
  <2>3. Settle(p, o) = Provided(fits, a) \/ Settle(p, o) = Provided(TRUE, b)
    BY <2>1, <2>2
  <2>4. Provided(fits, a).pos = a /\ Provided(TRUE, b).pos = b
    BY GateIs
  <2> QED BY <2>3, <2>4
<1>2. DOMAIN p = DOMAIN NoPosition /\ p.realized \in Seq(Realization)
      /\ p.cur \in Int
  BY SoundIs
<1>6. c \in Int
  BY <1>2 DEF Least
<1> HIDE DEF c
<1>3. /\ DOMAIN a = DOMAIN p /\ a.lots = p.lots /\ a.qty = p.qty /\ a.cost = p.cost
      /\ a.realized = p.realized /\ a.cur = o.cur
  BY <1>2, FieldsAre
<1>4. /\ DOMAIN b = DOMAIN p /\ b.lots = p.lots /\ b.qty = p.qty /\ b.cost = p.cost
      /\ b.realized = p.realized /\ b.cur = c
  BY <1>2, FieldsAre
<1> HIDE DEF a, b
<1>5. IsPosition(a, d) /\ IsPosition(b, d)
  BY <1>2, <1>3, <1>4, <1>6, SamePosition
<1> QED BY <1>1, <1>3, <1>4, <1>5

BasisTaken(o) ==
  IF o.typ \in Departures \cup {"spinoff_out"} THEN LotsCost(o.lots) ELSE 0

\* One accepted operation of any type; what a parcel without a breakdown takes
\* is not on its row.
LEMMA ApplyIs ==
  ASSUME NEW d \in Nat, NEW p, IsPosition(p, d), NEW o, Entry(o), o.day = d, CheckShape(o),
         Apply(p, o).ok
  PROVE  /\ IsPosition(Apply(p, o).pos, d) /\ Joins(p, Apply(p, o).pos, o)
         /\ BasisBrought(o) \in Nat
         /\ (o.typ \in Departures => o.lots # <<>>)
              => Reckoned(p, Apply(p, o).pos, d, BasisBrought(o), BasisTaken(o))
<1> DEFINE r == Apply(p, o)
<1>1. CASE o.typ = "buy"
  <2>1. r = ApplyBuy(p, o) /\ BasisBrought(o) = o.fee - o.amount /\ BasisTaken(o) = 0
    BY <1>1 DEF Apply, BasisBrought, BasisTaken, Departures, Arrivals
  <2>2. o.fee - o.amount \in Nat
    <3> DEFINE x == ApplyBuy(p, o)
               fits == o.amount < 0
               q == AddFee(AddLot(p, [lot |-> LotID(o, 0), qty |-> o.qty, day |-> o.day,
                                      cost |-> o.fee - o.amount]), o)
    <3>1. x = Provided(fits, q)
      BY Zenon DEF ApplyBuy
    <3> HIDE DEF fits, q
    <3>2. fits
      BY <2>1, <3>1, GateIs
    <3>3. o.fee \in Nat /\ o.amount \in Int
      BY DEF Entry, IsEntry
    <3> QED BY <3>2, <3>3 DEF fits
  <2> QED BY <1>1, <2>1, <2>2, BuyIs DEF Reckoned
<1>2. CASE o.typ \in {"sell", "redemption"}
  <2>1. r = ApplyDisposal(p, o) /\ BasisBrought(o) = 0 /\ BasisTaken(o) = 0
    BY <1>2 DEF Apply, BasisBrought, BasisTaken, Departures, Arrivals
  <2> QED BY <1>2, <2>1, DisposalIs DEF Reckoned
<1>3. CASE o.typ \in {"dividend", "coupon", "tax"}
  <2>1. r = ApplyIncome(p, o) /\ BasisBrought(o) = 0 /\ BasisTaken(o) = 0
    BY <1>3 DEF Apply, BasisBrought, BasisTaken, Departures, Arrivals
  <2> QED BY <2>1, IncomeIs DEF Reckoned
<1>4. CASE o.typ = "fee"
  <2>1. r = ApplyFee(p, o) /\ BasisBrought(o) = 0 /\ BasisTaken(o) = 0
    BY <1>4 DEF Apply, BasisBrought, BasisTaken, Departures, Arrivals
  <2> QED BY <2>1, IncomeIs DEF Reckoned
<1>5. CASE o.typ = "amortization"
  <2>1. r = ApplyAmortization(p, o) /\ BasisBrought(o) = 0 /\ BasisTaken(o) = 0
    BY <1>5 DEF Apply, BasisBrought, BasisTaken, Departures, Arrivals
  <2> QED BY <2>1, AmortizationIs DEF Reckoned
<1>6. CASE o.typ \in Departures
  <2>1. r = ApplyDeparture(p, o) /\ BasisBrought(o) = 0 /\ BasisTaken(o) = LotsCost(o.lots)
    BY <1>6 DEF Apply, BasisBrought, BasisTaken, Departures, Arrivals
  <2>2. CASE o.lots # <<>>
    BY <1>6, <2>1, <2>2, DepartureIs DEF Reckoned
  <2>3. CASE o.lots = <<>>
    <3>1. IsPosition(r.pos, d) /\ Joins(p, r.pos, o)
      BY <1>6, <2>1, <2>3, BareDepartureIs
    <3> HIDE DEF r
    <3> QED BY <1>6, <2>1, <2>3, <3>1 DEF r
  <2> QED BY <2>2, <2>3
<1>7. CASE o.typ \in Arrivals
  <2>1. r = ApplyArrival(p, o) /\ BasisBrought(o) = o.amount /\ BasisTaken(o) = 0
    BY <1>7 DEF Apply, BasisBrought, BasisTaken, Departures, Arrivals
  <2>2. o.amount \in Nat
    <3> DEFINE fits == /\ o.amount >= 0
                       /\ IF o.lots = <<>> THEN o.typ = "transfer_in" ELSE CheckTransferLots(o)
               y == Provided(fits, p)
    <3>1. ApplyArrival(p, o) = IF y.ok THEN Run(LAMBDA q, lot : Provided(TRUE, AddLot(q, lot)),
                                                y.pos, ArrivingLots(o))
                               ELSE y
      BY Zenon DEF ApplyArrival, Then
    <3> HIDE DEF fits
    <3>2. y.ok = fits
      BY GateIs
    <3> HIDE DEF y
    <3>3. y.ok
      <4> SUFFICES ASSUME ~y.ok PROVE FALSE
        OBVIOUS
      <4>1. ApplyArrival(p, o) = y
        BY <3>1, Zenon
      <4> QED BY <2>1, <4>1
    <3>4. o.amount \in Int
      BY DEF Entry, IsEntry
    <3>5. o.amount >= 0
      BY <3>2, <3>3 DEF fits
    <3> QED BY <3>4, <3>5
  <2> QED BY <1>7, <2>1, <2>2, ArrivalIs DEF Reckoned
<1>8. CASE o.typ = "spinoff_out"
  <2>1. r = ApplySpinoffOut(p, o) /\ BasisBrought(o) = 0 /\ BasisTaken(o) = LotsCost(o.lots)
    BY <1>8 DEF Apply, BasisBrought, BasisTaken, Departures, Arrivals
  <2> QED BY <2>1, SpinoffOutIs DEF Reckoned
<1>9. CASE o.typ = "split"
  <2>1. r = Provided(TRUE, SplitLots(p, o.ratio)) /\ BasisBrought(o) = 0 /\ BasisTaken(o) = 0
    BY <1>9 DEF Apply, BasisBrought, BasisTaken, Departures, Arrivals
  <2>2. o.ratio[1] \in Nat /\ o.ratio[2] \in Nat \ {0}
    <3>1. o.ratio \in Int \X (Nat \ {0}) /\ o.ratio[1] > 0
      BY <1>9 DEF Entry, IsEntry, CheckShape
    <3> QED BY <3>1
  <2>3. r.pos = SplitLots(p, o.ratio)
    BY <2>1, GateIs, ZenonT(60)
  <2> DEFINE ratio == o.ratio
             new == SplitLots(p, ratio)
  <2>4. ratio[1] \in Nat /\ ratio[2] \in Nat \ {0} /\ r.pos = new
    BY <2>2, <2>3
  <2> HIDE DEF ratio, r, new
  <2>5. Reckoned(p, new, d, 0, 0) /\ SameNumbers(new.lots, p.lots)
    BY <2>4, SplitIs DEF new
  <2>6. Reckoned(p, r.pos, d, 0, 0)
    BY <2>4, <2>5, Zenon
  <2>7. BasisBrought(o) = 0 /\ BasisTaken(o) = 0
    BY <2>1
  <2>8. Joins(p, new, o)
    <3>1. KeepsNumbers(new.lots, p.lots)
      BY <2>5, SameKeeps
    <3> QED BY <3>1, KeepsJoins
  <2> QED BY <2>4, <2>6, <2>7, <2>8 DEF r, Reckoned
<1>10. CASE o.typ \notin ({"buy", "sell", "redemption", "dividend", "coupon", "tax", "fee",
                           "amortization", "spinoff_out", "split"} \cup Departures \cup Arrivals)
  <2>1. r = Provided(FALSE, p)
    BY <1>10 DEF Apply, Departures, Arrivals
  <2>2. r.ok = FALSE
    BY <2>1, GateIs
  <2> QED BY <2>2
<1> QED BY <1>1, <1>2, <1>3, <1>4, <1>5, <1>6, <1>7, <1>8, <1>9, <1>10

\* What an accepted entry makes of a book: nothing, or another position of its paper.
Untouched(b, o, f) == f = b /\ (~RequiresInstrument(o.typ) \/ o.typ = "conversion")

Touched(b, o, f) ==
  LET s == Settle(PositionOf(b, o.paper), o)
  IN /\ CheckShape(o) /\ s.ok /\ Apply(s.pos, o).ok
     /\ DOMAIN f = DOMAIN b \cup {o.paper} /\ f[o.paper] = Apply(s.pos, o).pos
     /\ \A x \in DOMAIN b \ {o.paper} : f[x] = b[x]

LEMMA FoldOneGives ==
  ASSUME NEW b, NEW o, FoldOne(b, o).ok
  PROVE  Untouched(b, o, FoldOne(b, o).pos) \/ Touched(b, o, FoldOne(b, o).pos)
<1> DEFINE q == PositionOf(b, o.paper)
           s == Settle(q, o)
           z == IF s.ok THEN Apply(s.pos, o) ELSE s
           next == [x \in DOMAIN b \cup {o.paper} |-> IF x = o.paper THEN z.pos ELSE b[x]]
           needs == RequiresInstrument(o.typ)
           shaped == CheckShape(o)
           f == FoldOne(b, o)
<1>1. f = IF o.paper = NoPaper THEN Provided(~needs, b)
          ELSE IF ~shaped THEN Provided(FALSE, b)
          ELSE IF o.typ = "conversion" THEN Provided(TRUE, b)
          ELSE Provided(z.ok, next)
  BY Zenon DEF FoldOne, Then
<1> HIDE DEF next, needs, shaped, f
<1>2. CASE o.paper = NoPaper
  <2>1. f = Provided(~needs, b)
    BY <1>1, <1>2, Zenon
  <2>2. f.pos = b /\ f.ok = ~needs
    BY <2>1, GateIs
  <2> QED BY <2>2 DEF f, needs, Untouched
<1>3. CASE o.paper # NoPaper /\ ~shaped
  <2>1. f = Provided(FALSE, b)
    BY <1>1, <1>3, Zenon
  <2>2. f.ok = FALSE
    BY <2>1, GateIs
  <2> QED BY <2>2 DEF f
<1>4. CASE o.paper # NoPaper /\ shaped /\ o.typ = "conversion"
  <2>1. f = Provided(TRUE, b)
    BY <1>1, <1>4, Zenon
  <2>2. f.pos = b
    BY <2>1, GateIs
  <2> QED BY <1>4, <2>2 DEF f, Untouched
<1>5. CASE o.paper # NoPaper /\ shaped /\ o.typ # "conversion"
  <2>1. f = Provided(z.ok, next)
    <3> HIDE DEF z
    <3> QED BY <1>1, <1>5, Zenon
  <2>2. f.pos = next /\ z.ok
    <3> HIDE DEF z
    <3>1. f.pos = next /\ f.ok = z.ok
      BY <2>1, GateIs
    <3> QED BY <3>1 DEF f
  <2>3. s.ok /\ z = Apply(s.pos, o)
    <3> HIDE DEF s
    <3>1. CASE ~s.ok
      <4>1. z = s
        BY <3>1
      <4> QED BY <2>2, <3>1, <4>1
    <3> QED BY <3>1
  <2> HIDE DEF s
  <2>4. Apply(s.pos, o).ok
    BY <2>2, <2>3
  <2> DEFINE y == z.pos
  <2>5. y = Apply(s.pos, o).pos
    <3> HIDE DEF z
    <3> QED BY <2>3
  <2> HIDE DEF y
  <2>6. /\ DOMAIN next = DOMAIN b \cup {o.paper} /\ next[o.paper] = y
        /\ \A x \in DOMAIN b \ {o.paper} : next[x] = b[x]
    <3>1. next = [x \in DOMAIN b \cup {o.paper} |-> IF x = o.paper THEN y ELSE b[x]]
      BY Zenon DEF next, y
    <3> QED BY <3>1
  <2>7. shaped /\ s.ok /\ f.pos = next
    BY <1>5, <2>2, <2>3
  <2> QED BY <2>4, <2>5, <2>6, <2>7, Zenon DEF Touched, f, s, q, shaped
<1> QED BY <1>2, <1>3, <1>4, <1>5

\* A book of positions by day d.
IsBook(b, d) == \A x \in DOMAIN b : IsPosition(b[x], d)

\* A book by day e, and an entry it folds on that day or later.
Foldable(b, e, o) ==
  /\ e \in Nat /\ e <= o.day /\ IsBook(b, e) /\ Entry(o) /\ FoldOne(b, o).ok

LEMMA BeforeIs ==
  ASSUME NEW b, NEW e, NEW o, Foldable(b, e, o)
  PROVE  LET q == PositionOf(b, o.paper)
             s == Settle(q, o)
         IN /\ o.day \in Nat /\ IsBook(b, o.day) /\ IsPosition(q, o.day)
            /\ IsPosition(s.pos, o.day) /\ s.pos.cost = q.cost /\ s.pos.realized = q.realized
            /\ s.pos.lots = q.lots
<1> DEFINE d == o.day
           q == PositionOf(b, o.paper)
           s == Settle(q, o)
<1>1. d \in Nat /\ e \in Nat /\ e <= d /\ o.cur \in Int
  BY DEF Foldable, Entry, IsEntry
<1>2. ASSUME NEW x \in DOMAIN b PROVE IsPosition(b[x], d)
  <2>1. IsPosition(b[x], e)
    BY DEF Foldable, IsBook
  <2> HIDE DEF d
  <2> QED BY <1>1, <2>1, SoundLater
<1>3. IsPosition(q, d)
  <2>1. CASE o.paper \in DOMAIN b
    <3>1. q = b[o.paper]
      BY <2>1 DEF PositionOf
    <3> QED BY <1>2, <2>1, <3>1
  <2>2. CASE o.paper \notin DOMAIN b
    <3>1. q = NoPosition
      BY <2>2 DEF PositionOf
    <3> QED BY <1>1, <3>1, NoPositionIs
  <2> QED BY <2>1, <2>2
<1> HIDE DEF q
<1>4. /\ IsPosition(s.pos, d) /\ s.pos.cost = q.cost /\ s.pos.realized = q.realized
      /\ s.pos.lots = q.lots
  BY <1>1, <1>3, SettleIs
<1> QED BY <1>1, <1>2, <1>3, <1>4 DEF IsBook, q

\* One accepted entry leaves the book as it was, or folds one position of it.
FoldedInto(b, o, f) ==
  /\ BasisBrought(o) \in Nat
  /\ \/ f = b /\ BasisBrought(o) = 0 /\ BasisTaken(o) = 0 /\ NumbersOf(o) = {}
     \/ /\ DOMAIN f = DOMAIN b \cup {o.paper}
        /\ \A x \in DOMAIN b \ {o.paper} : f[x] = b[x]
        /\ IsPosition(f[o.paper], o.day) /\ Joins(PositionOf(b, o.paper), f[o.paper], o)
        /\ (o.typ \in Departures => o.lots # <<>>)
             => Reckoned(PositionOf(b, o.paper), f[o.paper], o.day,
                         BasisBrought(o), BasisTaken(o))

LEMMA FoldOneIs ==
  ASSUME NEW b, NEW e, NEW o, Foldable(b, e, o)
  PROVE  FoldedInto(b, o, FoldOne(b, o).pos)
<1> DEFINE q == PositionOf(b, o.paper)
           s == Settle(q, o)
           d == o.day
           f == FoldOne(b, o).pos
           in == BasisBrought(o)
           out == BasisTaken(o)
<1>1. Untouched(b, o, f) \/ Touched(b, o, f)
  BY FoldOneGives DEF Foldable
<1> HIDE DEF f
<1>2. CASE Untouched(b, o, f)
  <2>1. in = 0 /\ out = 0 /\ NumbersOf(o) = {}
    BY <1>2 DEF Untouched, RequiresInstrument, BasisBrought, BasisTaken, Trades, Arrivals,
                Departures, NumbersOf
  <2> QED BY <1>2, <2>1 DEF Untouched, FoldedInto, f
<1>3. CASE Touched(b, o, f)
  <2>1. /\ CheckShape(o) /\ s.ok /\ Apply(s.pos, o).ok
        /\ DOMAIN f = DOMAIN b \cup {o.paper} /\ f[o.paper] = Apply(s.pos, o).pos
        /\ \A x \in DOMAIN b \ {o.paper} : f[x] = b[x]
    BY <1>3, Zenon DEF Touched
  <2>2. /\ d \in Nat /\ IsPosition(q, d)
        /\ IsPosition(s.pos, d) /\ s.pos.cost = q.cost /\ s.pos.realized = q.realized
        /\ s.pos.lots = q.lots
    BY BeforeIs
  <2>3. Entry(o)
    BY DEF Foldable
  <2> HIDE DEF q, s
  <2> DEFINE p == s.pos
             new == Apply(p, o).pos
             told == o.typ \in Departures => o.lots # <<>>
  <2>4. IsPosition(p, d) /\ Apply(p, o).ok
    BY <2>1, <2>2
  <2> HIDE DEF p
  <2>5. /\ IsPosition(new, d) /\ Joins(p, new, o) /\ in \in Nat
        /\ told => Reckoned(p, new, d, in, out)
    BY <2>1, <2>2, <2>3, <2>4, ApplyIs
  <2>6. f[o.paper] = new
    BY <2>1, Zenon DEF p
  <2> HIDE DEF new, in, out, told
  <2>7. (told => Reckoned(q, new, d, in, out)) /\ Joins(q, new, o)
    <3>1. p.cost = q.cost /\ p.realized = q.realized /\ p.lots = q.lots
      BY <2>2 DEF p
    <3>2. told => Reckoned(q, new, d, in, out)
      BY <2>5, <3>1 DEF Reckoned
    <3>3. Joins(q, new, o)
      BY <2>5, <3>1 DEF Joins
    <3> QED BY <3>2, <3>3
  <2>8. /\ told => Reckoned(q, f[o.paper], d, in, out)
        /\ IsPosition(f[o.paper], d) /\ Joins(q, f[o.paper], o)
    BY <2>5, <2>6, <2>7
  <2> QED BY <2>1, <2>5, <2>8, Zenon DEF FoldedInto, f, q, in, out, told
<1> QED BY <1>1, <1>2, <1>3

-----------------------------------------------------------------------------
(* Deltas. *)

\* Rows the table may hold once the database clock has reached clock.
Recorded(rows, clock) ==
  /\ clock \in Nat
  /\ \A r \in rows : /\ IsRow(r)
                     /\ r.id \in 1..clock
                     /\ r.stamp \in 1..(clock + AppAhead)

\* The journals an accepted delta touches fold with it.
Sound(rows, d) ==
  d.ok => Checked(rows, d.remove, d.add, AcctsOf(d.remove \cup d.add))

\* n legs of a hand entry.
Legible(legs, n) ==
  n \in Nat /\ DOMAIN legs = 1..n /\ \A i \in 1..n : IsRow(legs[i])

-----------------------------------------------------------------------------
(* Rows. *)

LEMMA RecordedLater ==
  ASSUME NEW rows, NEW clock, Recorded(rows, clock), NEW t \in Nat
  PROVE  Recorded(rows, clock + t)
<1>1. clock \in Nat /\ AppAhead \in Nat
  BY AppAheadAssumption DEF Recorded
<1>2. 1..clock \subseteq 1..(clock + t)
      /\ 1..(clock + AppAhead) \subseteq 1..(clock + t + AppAhead)
  BY <1>1
<1>3. clock + t \in Nat
  BY <1>1
<1> QED
  BY <1>2, <1>3, Zenon DEF Recorded

LEMMA RowFields ==
  ASSUME NEW r, IsRow(r)
  PROVE  {"id", "acct", "src", "at", "stamp", "amount", "group", "lots", "ext"}
           \subseteq DOMAIN r
BY DEF IsRow, Blank

LEMMA BreakdownWritten ==
  ASSUME NEW r, IsRow(r), NEW settled
  PROVE  LET w == WithBreakdown(r, settled)
         IN IsRow(w) /\ w.id = r.id /\ w.stamp = r.stamp /\ w.acct = r.acct
<1>1. {"id", "acct", "stamp", "amount", "lots"} \subseteq DOMAIN r
  BY RowFields, Zenon
<1> QED
  BY <1>1, Zenon DEF WithBreakdown, IsRow

-----------------------------------------------------------------------------
(* With one clock the row a hand entry judges is the row it stores. *)

LEMMA MaxIs ==
  ASSUME NEW S, NEW m \in Int, m \in S, \A x \in S : x \in Int /\ x <= m
  PROVE  Max(S) = m
<1>1. \E x \in S : \A y \in S : x >= y
  OBVIOUS
<1>2. Max(S) \in S /\ \A y \in S : Max(S) >= y
  BY <1>1, Zenon DEF Max
<1>3. Max(S) >= m
  BY <1>2, Zenon
<1>4. Max(S) \in Int /\ Max(S) <= m
  BY <1>2, Zenon
<1> HIDE DEF Max
<1> QED
  BY <1>3, <1>4

LEMMA StampIsClock ==
  ASSUME NEW rows, NEW clock, Recorded(rows, clock), AppAhead = 0
  PROVE  CheckStamp(rows, clock) = clock
<1> DEFINE S == {clock + AppAhead} \cup {r.stamp : r \in rows}
<1>1. clock \in S /\ \A x \in S : x \in Int /\ x <= clock
  BY DEF Recorded
<1> QED
  BY <1>1, MaxIs DEF CheckStamp, Recorded

LEMMA JudgedIsStored ==
  ASSUME NEW rows, NEW clock, NEW legs, NEW n,
         Recorded(rows, clock), Legible(legs, n), AppAhead = 0
  PROVE  AsChecked(rows, clock, Stored(clock, legs)) = Stored(clock, legs)
<1> DEFINE At(i) == [legs[i] EXCEPT !.id = clock + i, !.stamp = clock + i]
           Judged(x) == [x EXCEPT !.stamp = CheckStamp(RowsOf(rows, x.acct), clock)
                                              + (x.id - clock)]
<1>1. ASSUME NEW i \in DOMAIN legs
      PROVE  Judged(At(i)) = At(i)
  <2>1. Recorded(RowsOf(rows, At(i).acct), clock)
    BY Zenon DEF Recorded, RowsOf
  <2>2. CheckStamp(RowsOf(rows, At(i).acct), clock) = clock
    BY <2>1, StampIsClock
  <2>3. i \in Nat /\ clock \in Nat
    BY DEF Legible, Recorded
  <2>4. At(i).id = clock + i /\ [At(i) EXCEPT !.stamp = clock + i] = At(i)
    <3> DEFINE r == legs[i]
               s == clock + i
    <3>1. IsRow(r)
      BY Zenon DEF Legible
    <3> HIDE DEF r, s
    <3>2. {"id", "stamp"} \subseteq DOMAIN r
      BY <3>1, RowFields, Zenon
    <3>3. [r EXCEPT !.id = s, !.stamp = s].id = s
      BY <3>2, Zenon
    <3>4. [[r EXCEPT !.id = s, !.stamp = s] EXCEPT !.stamp = s]
            = [r EXCEPT !.id = s, !.stamp = s]
      BY <3>2, Zenon
    <3> QED
      BY <3>3, <3>4, Zenon DEF r, s
  <2> HIDE DEF At
  <2>5. clock + (At(i).id - clock) = clock + i
    BY <2>3, <2>4
  <2>6. Judged(At(i)) = [At(i) EXCEPT !.stamp = clock + i]
    BY <2>2, <2>5, Zenon
  <2> QED
    BY <2>4, <2>6, Zenon
<1>2. Stored(clock, legs) = {At(i) : i \in DOMAIN legs}
  BY Zenon DEF Stored
<1>3. AsChecked(rows, clock, Stored(clock, legs)) = {Judged(x) : x \in Stored(clock, legs)}
  BY Zenon DEF AsChecked
<1> QED
  <2> HIDE DEF At, Judged
  <2> QED
    BY <1>1, <1>2, <1>3, ZenonT(90)

-----------------------------------------------------------------------------
(* Every entry judges what it writes. *)

LEMMA HandSound ==
  ASSUME NEW rows, NEW clock, NEW legs, NEW n, NEW remove, NEW cond,
         Recorded(rows, clock), Legible(legs, n), AppAhead = 0
  PROVE  Sound(rows, HandDelta(rows, clock, legs, remove, cond))
<1> DEFINE d == HandDelta(rows, clock, legs, remove, cond)
           new == Stored(clock, legs)
<1>1. Recorded(rows \ remove, clock)
  BY Zenon DEF Recorded
<1>2. AsChecked(rows \ remove, clock, new) = new
  BY <1>1, JudgedIsStored, Zenon
<1>3. d.remove = remove /\ d.add = new
  BY DEF HandDelta
<1>4. d.ok => Checked(rows, remove, new, AcctsOf(new \cup remove))
  <2> HIDE DEF new
  <2>1. d.ok = (/\ cond
                /\ Checked(rows, remove, AsChecked(rows \ remove, clock, new),
                           AcctsOf(new \cup remove)))
    BY DEF HandDelta, new
  <2> HIDE DEF d
  <2> QED
    BY <1>2, <2>1, Zenon
<1>5. new \cup remove = remove \cup new
  OBVIOUS
<1> HIDE DEF d, new
<1>6. Sound(rows, d)
  BY <1>3, <1>4, <1>5, Zenon DEF Sound
<1> QED
  BY <1>6, Zenon DEF d

LEMMA RestateSound ==
  ASSUME NEW rows, NEW old, NEW new, NEW cond
  PROVE  Sound(rows, RestateDelta(rows, old, new, cond))
BY DEF Sound, RestateDelta

LEMMA ImportSound ==
  ASSUME NEW rows, NEW clock, NEW add, NEW remove
  PROVE  Sound(rows, ApplyImportDelta(rows, clock, add, remove))
<1> DEFINE d == ApplyImportDelta(rows, clock, add, remove)
<1>1. d.remove = remove
  BY DEF ApplyImportDelta, ImportIn, ImportOver, ImportAsked, WrittenOf, Written
<1>2. d.ok => Checked(rows, remove, d.add, AcctsOf(remove \cup d.add))
  BY Zenon DEF ApplyImportDelta, ImportIn, ImportOver, ImportAsked, WrittenOf, Written
<1> HIDE DEF d
<1>3. Sound(rows, d)
  BY <1>1, <1>2, Zenon DEF Sound
<1> QED
  BY <1>3, Zenon DEF d

-----------------------------------------------------------------------------
(* What they write is numbered and stamped by the clocks. *)

LEMMA HandRecorded ==
  ASSUME NEW clock \in Nat, NEW legs, NEW n, Legible(legs, n)
  PROVE  Recorded(Stored(clock, legs), clock + n)
<1> DEFINE At(i) == [legs[i] EXCEPT !.id = clock + i, !.stamp = clock + i]
<1>1. ASSUME NEW i \in 1..n
      PROVE  IsRow(At(i)) /\ At(i).id = clock + i /\ At(i).stamp = clock + i
  <2>1. IsRow(legs[i])
    BY Zenon DEF Legible
  <2>2. {"id", "stamp"} \subseteq DOMAIN legs[i]
    BY <2>1, RowFields, Zenon
  <2> QED
    BY <2>1, <2>2, Zenon DEF IsRow
<1>2. n \in Nat /\ AppAhead \in Nat
  BY AppAheadAssumption DEF Legible
<1>3. \A i \in 1..n : /\ clock + i \in 1..(clock + n)
                      /\ clock + i \in 1..(clock + n + AppAhead)
  BY <1>2
<1>4. Stored(clock, legs) = {At(i) : i \in 1..n}
  BY Zenon DEF Stored, Legible
<1>5. clock + n \in Nat
  BY <1>2
<1> HIDE DEF At
<1> QED
  BY <1>1, <1>3, <1>4, <1>5, Zenon DEF Recorded

LEMMA UpdateRecorded ==
  ASSUME NEW rows, NEW clock, Recorded(rows, clock), NEW old \in rows,
         NEW op, IsRow(op)
  PROVE  Recorded(Update(rows, old, op).add, clock)
<1> DEFINE judged == AsEdited(old, op)
           stored == [judged EXCEPT !.ext = old.ext]
<1>1. {"id", "src", "stamp", "ext", "group", "at"} \subseteq DOMAIN op
  BY RowFields, Zenon
<1>2. IsRow(judged) /\ judged.id = old.id /\ judged.stamp = old.stamp
  BY <1>1, Zenon DEF IsRow, AsEdited
<1>3. Update(rows, old, op).add = {stored}
  BY DEF Update, RestateDelta
<1> HIDE DEF judged
<1>4. {"id", "stamp"} \subseteq DOMAIN judged
  BY <1>2, RowFields, Zenon
<1>5. IsRow(stored) /\ stored.id = old.id /\ stored.stamp = old.stamp
  BY <1>2, <1>4, Zenon DEF IsRow
<1> HIDE DEF stored
<1> QED
  BY <1>3, <1>5, Zenon DEF Recorded

LEMMA BreakdownsRecorded ==
  ASSUME NEW some, NEW clock, Recorded(some, clock), NEW settled
  PROVE  Recorded(WithBreakdowns(some, settled), clock)
<1>1. \A r \in some : LET w == WithBreakdown(r, settled)
                      IN IsRow(w) /\ w.id = r.id /\ w.stamp = r.stamp
  BY BreakdownWritten, Zenon DEF Recorded
<1> QED
  BY <1>1, Zenon DEF Recorded, WithBreakdowns

-----------------------------------------------------------------------------
(* An import's stamps: inherited, or after every row there is. *)

\* The candidates of a delta as Journal asks them: new, or keeping the stamp of
\* a row they restate.
Presentable(add, rows, clock) ==
  /\ Len(add) \in Nat /\ DOMAIN add = 1..Len(add)
  /\ \A i \in 1..Len(add) :
       /\ DOMAIN add[i] \subseteq {1, 2}
       /\ \A k \in DOMAIN add[i] :
            /\ IsRow(add[i][k])
            /\ add[i][k].stamp \in 0..(clock + AppAhead)

LEMMA PlaceBounds ==
  ASSUME NEW add, NEW n \in Nat, DOMAIN add = 1..n, NEW i \in 1..n
  PROVE  Place(add, i) \in 1..n
<1> DEFINE Sooner(j) ==
             \/ add[j][1].day < add[i][1].day
             \/ /\ add[j][1].day = add[i][1].day
                /\ \/ SoonerInstant(add[j][1], add[i][1])
                   \/ add[j][1].at = add[i][1].at /\ j < i
           S == {j \in DOMAIN add : j = i \/ Sooner(j)}
<1>1. Place(add, i) = Cardinality(S)
  BY DEF Place
<1>2. S \subseteq 1..n /\ i \in S
  OBVIOUS
<1> HIDE DEF S
<1>3. IsFiniteSet(1..n) /\ Cardinality(1..n) = n
  BY FS_Interval
<1>4. IsFiniteSet(S) /\ Cardinality(S) <= n
  <2>1. IsFiniteSet(S) /\ Cardinality(S) <= Cardinality(1..n)
    BY <1>2, <1>3, FS_Subset, Zenon
  <2> QED
    BY <1>3, <2>1, Zenon
<1>5. Cardinality(S) \in Nat /\ Cardinality(S) # 0
  BY <1>2, <1>4, FS_CardinalityType, FS_EmptySet
<1> QED
  BY <1>1, <1>4, <1>5

LEMMA BaseIsNext ==
  ASSUME NEW kept, NEW clock, Recorded(kept, clock), NEW legs,
         \A leg \in legs : leg.stamp \in 0..(clock + AppAhead)
  PROVE  Base(kept, clock, legs) = clock + AppAhead + 1
<1> DEFINE S == {clock + AppAhead} \cup {r.stamp : r \in kept \cup legs}
           m == clock + AppAhead
<1>1. m \in Int /\ m \in S /\ \A x \in S : x \in Int /\ x <= m
  BY AppAheadAssumption DEF Recorded
<1>2. Base(kept, clock, legs) = 1 + Max(S)
  BY DEF Base
<1> HIDE DEF S, m
<1>3. Max(S) = m
  BY <1>1, MaxIs
<1> QED
  BY <1>1, <1>2, <1>3 DEF m

LEMMA LegRecorded ==
  ASSUME NEW clock \in Nat, NEW n \in Nat, NEW tick \in 1..(2 * n),
         NEW leg, IsRow(leg), leg.stamp \in 0..(clock + AppAhead)
  PROVE  Recorded({StampedLeg(leg, tick, clock, clock + AppAhead + 1)}, clock + 2 * n)
<1> DEFINE base == clock + AppAhead + 1
           stamp == IF leg.stamp # 0 THEN leg.stamp ELSE base + tick - 1
           new == StampedLeg(leg, tick, clock, base)
           last == clock + 2 * n
<1>1. AppAhead \in Nat
  BY AppAheadAssumption
<1>2. stamp \in 1..(last + AppAhead) /\ clock + tick \in 1..last /\ last \in Nat
  BY <1>1
<1> HIDE DEF base, last
<1>3. {"id", "stamp"} \subseteq DOMAIN leg
  BY RowFields, Zenon
<1>4. IsRow(new) /\ new.id = clock + tick /\ new.stamp = stamp
  BY <1>3, Zenon DEF StampedLeg, IsRow
<1> HIDE DEF new, stamp
<1>5. Recorded({new}, last)
  BY <1>2, <1>4, Zenon DEF Recorded
<1> QED
  BY <1>5, Zenon DEF new, last, base

LEMMA StampedRecorded ==
  ASSUME NEW rows, NEW clock \in Nat, NEW add, Presentable(add, rows, clock)
  PROVE  Recorded(LegsOf(Stamped(add, clock, clock + AppAhead + 1)),
                  clock + 2 * Len(add))
<1> DEFINE base == clock + AppAhead + 1
           n == Len(add)
           last == clock + 2 * n
           S == Stamped(add, clock, base)
           Tick(i, k) == 2 * Place(add, i) + k - 2
<1>1. n \in Nat /\ DOMAIN add = 1..n
  BY DEF Presentable
<1>2. DOMAIN S = 1..n
  BY <1>1, Zenon DEF Stamped
<1>3. ASSUME NEW i \in 1..n, NEW k \in DOMAIN S[i]
      PROVE  Recorded({S[i][k]}, last)
  <2>1. k \in DOMAIN add[i] /\ S[i][k] = StampedLeg(add[i][k], Tick(i, k), clock, base)
    BY <1>1, <1>3, Zenon DEF Stamped
  <2>2. k \in {1, 2} /\ IsRow(add[i][k]) /\ add[i][k].stamp \in 0..(clock + AppAhead)
    BY <2>1, Zenon DEF Presentable
  <2>3. Place(add, i) \in 1..n
    BY <1>1, PlaceBounds, Zenon
  <2>4. Tick(i, k) \in 1..(2 * n)
    BY <1>1, <2>2, <2>3
  <2> HIDE DEF Tick, S, n
  <2>5. Recorded({StampedLeg(add[i][k], Tick(i, k), clock, base)}, last)
    BY <1>1, <2>2, <2>4, LegRecorded, Zenon
  <2> QED
    BY <2>1, <2>5, Zenon
<1>4. \A leg \in LegsOf(S) : \E i \in 1..n : \E k \in DOMAIN S[i] : leg = S[i][k]
  <2> HIDE DEF S
  <2> QED
    BY <1>2, Zenon DEF LegsOf, LegSet
<1> HIDE DEF S, n
<1>5. last \in Nat
  BY <1>1
<1> HIDE DEF last
<1>6. Recorded(LegsOf(S), last)
  BY <1>3, <1>4, <1>5, Zenon DEF Recorded
<1> QED
  BY <1>6, Zenon DEF S, n, last

LEMMA ImportRecorded ==
  ASSUME NEW rows, NEW clock, Recorded(rows, clock),
         NEW add, Presentable(add, rows, clock), NEW remove
  PROVE  Recorded(ApplyImportDelta(rows, clock, add, remove).add,
                  clock + 2 * Len(add))
<1> DEFINE legs == LegsOf(add)
           accts == AcctsOf(remove \cup legs)
           kept == {r \in rows \ remove : r.acct \in accts}
           last == clock + 2 * Len(add)
           T == Stamped(add, clock, Base(kept, clock, legs))
<1>1. Recorded(kept, clock) /\ clock \in Nat
  BY Zenon DEF Recorded
<1>2. \A leg \in legs : leg.stamp \in 0..(clock + AppAhead)
  <2>1. \A leg \in legs : \E i \in DOMAIN add : \E k \in DOMAIN add[i] :
           leg = add[i][k]
    BY Zenon DEF LegsOf, LegSet
  <2> HIDE DEF legs
  <2> QED
    BY <2>1, Zenon DEF Presentable
<1> HIDE DEF legs, kept
<1>3. Base(kept, clock, legs) = clock + AppAhead + 1
  BY <1>1, <1>2, BaseIsNext
<1>4. Recorded(LegsOf(T), last)
  BY <1>1, <1>3, StampedRecorded, Zenon
<1> HIDE DEF T, last
<1>5. \E settled : ApplyImportDelta(rows, clock, add, remove).add
                     = Inserted(LegsOf(T), settled)
  <2>1. ApplyImportDelta(rows, clock, add, remove).add
          = Inserted(LegsOf(T),
              Offered(kept, Ordered(add, T), accts).pos)
    BY DEF ApplyImportDelta, ImportIn, ImportOver, ImportAsked, WrittenOf, Written,
           T, kept, legs
  <2> QED
    BY <2>1, Zenon
<1> QED
  <2> PICK settled : ApplyImportDelta(rows, clock, add, remove).add
                       = Inserted(LegsOf(T), settled)
    BY <1>5, Zenon
  <2> DEFINE some == {l \in LegsOf(T) : \E x \in settled : x.id = l.id}
  <2>1. some \in SUBSET LegsOf(T) /\ Inserted(LegsOf(T), settled) = WithBreakdowns(some, settled)
    BY Zenon DEF Inserted
  <2> HIDE DEF some
  <2>2. Recorded(some, last)
    BY <1>4, <2>1, Zenon DEF Recorded
  <2>3. Recorded(WithBreakdowns(some, settled), last)
    BY <2>2, BreakdownsRecorded, Zenon
  <2> QED
    BY <2>1, <2>3, Zenon DEF last

-----------------------------------------------------------------------------
(* The runs over journals, step by step. *)

\* The three runs over the journals' rows, and their steps.
StepOf(kind, q, x) ==
  CASE kind = "together" -> Offer(q, x)
    [] kind = "one"      -> OfferIfHeld(q, x)
    [] kind = "release"  -> ReleaseAgain(q, x)
    [] kind = "fold"     -> FoldOne(q, x)

RunOf(kind, p, O) ==
  CASE kind = "together" -> OfferTogether(p, O)
    [] kind = "one"      -> OfferOneAtATime(p, O)
    [] kind = "release"  -> Run(ReleaseAgain, p, O)
    [] kind = "fold"     -> Run(FoldOne, p, O)

\* The states a run passes through, from the one it starts in.
Steps(kind, p, O, after) ==
  /\ after[0] = Provided(TRUE, p)
  /\ \A i \in 1..Len(O) :
       after[i] = IF after[i - 1].ok THEN StepOf(kind, after[i - 1].pos, O[i]) ELSE after[i - 1]

\* The same as the function the run is defined by.
AllSteps(kind, p, O, n, f) ==
  f = [i \in 0..n |-> IF i = 0 THEN Provided(TRUE, p)
                      ELSE IF f[i - 1].ok THEN StepOf(kind, f[i - 1].pos, O[i]) ELSE f[i - 1]]

\* A run has its steps, whatever its operations and its start are.
LEMMA StepsExist ==
  ASSUME NEW kind, NEW p, NEW O, NEW n \in Nat
  PROVE  \E f : AllSteps(kind, p, O, n, f)
<1> DEFINE At(f, i) == IF i = 0 THEN Provided(TRUE, p)
                       ELSE IF f[i - 1].ok THEN StepOf(kind, f[i - 1].pos, O[i]) ELSE f[i - 1]
           Runs(f, m) == f = [i \in 0..m |-> At(f, i)]
           Bad == {m \in Nat : ~\E f : Runs(f, m)}
<1>1. SUFFICES Bad = {}
  BY Zenon DEF AllSteps
<1>2. SUFFICES ASSUME Bad # {} PROVE FALSE
  OBVIOUS
<1>3. PICK m \in Bad : \A k \in Bad : m <= k
  <2>1. Bad \in SUBSET Nat
    OBVIOUS
  <2> HIDE DEF Bad
  <2> QED BY <1>2, <2>1, SmallestOf
<1>4. m \in Nat /\ ~\E f : Runs(f, m)
  OBVIOUS
<1>5. CASE m = 0
  <2> DEFINE g == [i \in 0..0 |-> Provided(TRUE, p)]
  <2>1. \A i \in 0..0 : i = 0
    OBVIOUS
  <2>2. g = [i \in 0..0 |-> At(g, i)]
    BY <2>1, Zenon
  <2> QED BY <1>4, <1>5, <2>2, Zenon
<1>6. CASE m # 0
  <2>1. m - 1 \in Nat /\ m - 1 \notin Bad
    <3>1. m - 1 \in Nat /\ ~(m <= m - 1)
      BY <1>4, <1>6
    <3> HIDE DEF Bad
    <3> QED BY <1>3, <3>1
  <2>2. PICK f : Runs(f, m - 1)
    BY <2>1
  <2> DEFINE g == [i \in 0..m |-> IF i = m THEN At(f, m) ELSE f[i]]
  <2>3. \A i \in 0..(m - 1) : i \in 0..m /\ i # m
    BY <1>4
  <2>4. \A i \in 0..m : i = m \/ i \in 0..(m - 1)
    BY <1>4
  <2>5. \A i \in 0..m : i # 0 => i - 1 \in 0..(m - 1)
    BY <1>4
  <2>6. \A i \in 0..(m - 1) : g[i] = f[i]
    BY <2>3, Zenon
  <2>7. \A i \in 0..m : At(g, i) = At(f, i)
    <3>1. ASSUME NEW i \in 0..m PROVE At(g, i) = At(f, i)
      <4>1. CASE i = 0
        BY <4>1, Zenon
      <4>2. CASE i # 0
        <5>1. g[i - 1] = f[i - 1]
          BY <2>5, <2>6, <4>2, Zenon
        <5> HIDE DEF g
        <5> QED BY <5>1, Zenon
      <4> QED BY <4>1, <4>2, Zenon
    <3> QED BY <3>1, Zenon
  <2>8. \A i \in 0..(m - 1) : f[i] = At(f, i)
    <3> HIDE DEF At
    <3> QED BY <2>2, Zenon
  <2>9. \A i \in 0..m : g[i] = At(g, i)
    <3> HIDE DEF At
    <3>1. \A i \in 0..m : g[i] = IF i = m THEN At(f, m) ELSE f[i]
      BY Zenon
    <3> HIDE DEF g
    <3> QED BY <2>4, <2>7, <2>8, <3>1, Zenon
  <2>10. Runs(g, m)
    <3> HIDE DEF At
    <3>1. g = [i \in 0..m |-> g[i]]
      OBVIOUS
    <3> HIDE DEF g
    <3> QED BY <2>9, <3>1, Zenon
  <2> QED BY <1>4, <2>10, Zenon
<1> QED BY <1>5, <1>6


\* A run answers what its last step left.
LEMMA RunSteps ==
  ASSUME NEW kind \in {"together", "one", "release", "fold"}, NEW p, NEW O, Len(O) \in Nat
  PROVE  \E after : Steps(kind, p, O, after) /\ RunOf(kind, p, O) = after[Len(O)]
<1> DEFINE n == Len(O)
           G(f) == [i \in 0..n |-> IF i = 0 THEN Provided(TRUE, p)
                       ELSE IF f[i - 1].ok THEN StepOf(kind, f[i - 1].pos, O[i]) ELSE f[i - 1]]
<1>1. \E f : f = G(f)
  <2>1. n \in Nat
    OBVIOUS
  <2>2. \E f : AllSteps(kind, p, O, n, f)
    BY <2>1, StepsExist
  <2> QED BY <2>2, Zenon DEF AllSteps
<1>2. ASSUME NEW f, f = G(f) PROVE Steps(kind, p, O, f)
  <2>1. 0 \in 0..n /\ \A i \in 1..n : i \in 0..n /\ i # 0
    OBVIOUS
  <2>2. \A i \in 0..n : f[i] = IF i = 0 THEN Provided(TRUE, p)
                       ELSE IF f[i - 1].ok THEN StepOf(kind, f[i - 1].pos, O[i]) ELSE f[i - 1]
    BY <1>2, Zenon
  <2> HIDE DEF n, G
  <2>3. f[0] = Provided(TRUE, p)
    BY <2>1, <2>2, Zenon
  <2>4. \A i \in 1..n : f[i] = IF f[i - 1].ok THEN StepOf(kind, f[i - 1].pos, O[i]) ELSE f[i - 1]
    BY <2>1, <2>2, Zenon
  <2> QED BY <2>3, <2>4, Zenon DEF Steps, n
<1>3. CASE kind = "together"
  <2> DEFINE K(f) == [i \in 0..n |-> IF i = 0 THEN Provided(TRUE, p)
                                    ELSE Then(f[i - 1], LAMBDA q : Offer(q, O[i]))]
             after == CHOOSE f : f = K(f)
  <2>1. RunOf(kind, p, O) = after[n]
    BY <1>3, Zenon DEF RunOf, OfferTogether, Run
  <2>2. \A f : K(f) = G(f)
    <3>1. \A q, x : StepOf(kind, q, x) = Offer(q, x)
      BY <1>3, Zenon DEF StepOf
    <3> QED BY <3>1, Zenon DEF Then
  <2>3. after = G(after)
    <3> HIDE DEF K, G
    <3>1. after = K(after)
      BY <1>1, <2>2, Zenon
    <3> QED BY <2>2, <3>1, Zenon
  <2> HIDE DEF after, G
  <2> QED BY <1>2, <2>1, <2>3, Zenon
<1>4. CASE kind = "one"
  <2> DEFINE K(f) == [i \in 0..n |-> IF i = 0 THEN Provided(TRUE, p)
                                    ELSE Then(f[i - 1], LAMBDA q : OfferIfHeld(q, O[i]))]
             after == CHOOSE f : f = K(f)
  <2>1. RunOf(kind, p, O) = after[n]
    BY <1>4, Zenon DEF RunOf, OfferOneAtATime, Run
  <2>2. \A f : K(f) = G(f)
    <3>1. \A q, x : StepOf(kind, q, x) = OfferIfHeld(q, x)
      BY <1>4, Zenon DEF StepOf
    <3> QED BY <3>1, Zenon DEF Then
  <2>3. after = G(after)
    <3> HIDE DEF K, G
    <3>1. after = K(after)
      BY <1>1, <2>2, Zenon
    <3> QED BY <2>2, <3>1, Zenon
  <2> HIDE DEF after, G
  <2> QED BY <1>2, <2>1, <2>3, Zenon
<1>5. CASE kind = "release"
  <2> DEFINE K(f) == [i \in 0..n |-> IF i = 0 THEN Provided(TRUE, p)
                                    ELSE Then(f[i - 1], LAMBDA q : ReleaseAgain(q, O[i]))]
             after == CHOOSE f : f = K(f)
  <2>1. RunOf(kind, p, O) = after[n]
    BY <1>5, Zenon DEF RunOf, Run
  <2>2. \A f : K(f) = G(f)
    <3>1. \A q, x : StepOf(kind, q, x) = ReleaseAgain(q, x)
      BY <1>5, Zenon DEF StepOf
    <3> QED BY <3>1, Zenon DEF Then
  <2>3. after = G(after)
    <3> HIDE DEF K, G
    <3>1. after = K(after)
      BY <1>1, <2>2, Zenon
    <3> QED BY <2>2, <3>1, Zenon
  <2> HIDE DEF after, G
  <2> QED BY <1>2, <2>1, <2>3, Zenon
<1>6. CASE kind = "fold"
  <2> DEFINE K(f) == [i \in 0..n |-> IF i = 0 THEN Provided(TRUE, p)
                                    ELSE Then(f[i - 1], LAMBDA q : FoldOne(q, O[i]))]
             after == CHOOSE f : f = K(f)
  <2>1. RunOf(kind, p, O) = after[n]
    BY <1>6, Zenon DEF RunOf, Run
  <2>2. \A f : K(f) = G(f)
    <3>1. \A q, x : StepOf(kind, q, x) = FoldOne(q, x)
      BY <1>6, Zenon DEF StepOf
    <3> QED BY <3>1, Zenon DEF Then
  <2>3. after = G(after)
    <3> HIDE DEF K, G
    <3>1. after = K(after)
      BY <1>1, <2>2, Zenon
    <3> QED BY <2>2, <3>1, Zenon
  <2> HIDE DEF after, G
  <2> QED BY <1>2, <2>1, <2>3, Zenon
<1> QED BY <1>3, <1>4, <1>5, <1>6

\* No two rows carry one number.
OwnIds(some) == \A x, y \in some : x.id = y.id => x = y

-----------------------------------------------------------------------------
(* A total order numbers the elements of a finite set. *)

\* The elements up to x.
Through(S, R, x) == {y \in S : y = x \/ <<y, x>> \in R}

\* The number of elements up to x is a place of its own.
LEMMA Ranked ==
  ASSUME NEW S, IsFiniteSet(S), NEW R \in SUBSET (S \X S),
         \A a \in S : <<a, a>> \notin R,
         \A a, b, c \in S : <<a, b>> \in R /\ <<b, c>> \in R => <<a, c>> \in R,
         \A a, b \in S : a = b \/ <<a, b>> \in R \/ <<b, a>> \in R
  PROVE  /\ \A x \in S : Cardinality(Through(S, R, x)) \in 1..Cardinality(S)
         /\ \A x, y \in S : Cardinality(Through(S, R, x)) = Cardinality(Through(S, R, y)) => x = y
         /\ \A n \in 1..Cardinality(S) : \E x \in S : Cardinality(Through(S, R, x)) = n
         /\ \A x, y \in S : <<x, y>> \in R =>
              Cardinality(Through(S, R, x)) < Cardinality(Through(S, R, y))
<1> DEFINE through(x) == Through(S, R, x)
           rank == [x \in S |-> Cardinality(through(x))]
<1>1. Cardinality(S) \in Nat
  BY FS_CardinalityType
<1>2. ASSUME NEW x \in S
      PROVE  through(x) \in SUBSET S /\ IsFiniteSet(through(x)) /\ rank[x] \in 1..Cardinality(S)
  <2>1. through(x) \in SUBSET S /\ x \in through(x)
    BY DEF Through
  <2> HIDE DEF through
  <2>2. IsFiniteSet(through(x)) /\ Cardinality(through(x)) <= Cardinality(S)
    BY <2>1, FS_Subset
  <2>3. Cardinality(through(x)) \in Nat /\ Cardinality(through(x)) # 0
    BY <2>1, <2>2, FS_CardinalityType, FS_EmptySet
  <2> QED BY <1>1, <2>1, <2>2, <2>3
<1>3. ASSUME NEW x \in S, NEW y \in S, <<x, y>> \in R
      PROVE  rank[x] < rank[y]
  <2>1. through(x) \in SUBSET through(y) /\ y \in through(y) /\ y \notin through(x)
    BY <1>3 DEF Through
  <2>2. rank[x] = Cardinality(through(x)) /\ rank[y] = Cardinality(through(y))
    BY Zenon
  <2> HIDE DEF through, rank
  <2>3. IsFiniteSet(through(y)) /\ rank[x] \in Nat /\ rank[y] \in Nat
    BY <1>1, <1>2
  <2>4. /\ Cardinality(through(y)) = Cardinality(through(x)) => through(y) = through(x)
        /\ Cardinality(through(x)) <= Cardinality(through(y))
    BY <2>1, <2>3, FS_Subset
  <2> QED BY <2>1, <2>2, <2>3, <2>4
<1>4. ASSUME NEW x \in S, NEW y \in S, rank[x] = rank[y]
      PROVE  x = y
  <2>1. rank[x] \in Nat /\ rank[y] \in Nat
    BY <1>1, <1>2
  <2> HIDE DEF rank
  <2>2. x = y \/ rank[x] < rank[y] \/ rank[y] < rank[x]
    BY <1>3
  <2> QED BY <1>4, <2>1, <2>2
<1>5. rank \in Injection(S, 1..Cardinality(S))
  <2>1. rank = [x \in S |-> rank[x]]
    BY Zenon
  <2> HIDE DEF rank
  <2> QED BY <1>2, <1>4, <2>1 DEF Injection, IsInjective
<1>6. rank \in Surjection(S, 1..Cardinality(S))
  <2>1. IsFiniteSet(1..Cardinality(S)) /\ Cardinality(1..Cardinality(S)) = Cardinality(S)
    BY <1>1, FS_Interval
  <2> HIDE DEF rank
  <2> QED BY <1>5, <2>1, FS_Injection
<1>7. \A n \in 1..Cardinality(S) : \E x \in S : rank[x] = n
  <2> HIDE DEF rank
  <2> QED BY <1>6 DEF Surjection
<1> QED
  <2>1. \A x \in S : rank[x] = Cardinality(Through(S, R, x))
    BY Zenon
  <2> HIDE DEF rank, through
  <2>2. \A x \in S : rank[x] \in 1..Cardinality(S)
    BY <1>2
  <2>3. \A x, y \in S : rank[x] = rank[y] => x = y
    BY <1>4
  <2>4. \A x, y \in S : <<x, y>> \in R => rank[x] < rank[y]
    BY <1>3
  <2> QED BY <1>7, <2>1, <2>2, <2>3, <2>4

\* What the fold order needs of a row.
Placed(r) == r.day \in Int /\ r.at \in Int /\ r.stamp \in Int /\ r.id \in Int

\* Sorting rows by the fold order lists each of them once, and nothing else, no
\* row ahead of one of an earlier day.
LEMMA SortedIs ==
  ASSUME NEW S, IsFiniteSet(S), OwnIds(S), \A r \in S : Placed(r)
  PROVE  /\ Len(Sorted(S)) = Cardinality(S) /\ Cardinality(S) \in Nat
         /\ DOMAIN Sorted(S) = 1..Cardinality(S)
         /\ \A i \in 1..Cardinality(S) : Sorted(S)[i] \in S
         /\ \A i, j \in 1..Cardinality(S) : Sorted(S)[i] = Sorted(S)[j] => i = j
         /\ \A r \in S : \E i \in 1..Cardinality(S) : Sorted(S)[i] = r
         /\ \A i, j \in 1..Cardinality(S) : i <= j => Sorted(S)[i].day <= Sorted(S)[j].day
<1> DEFINE Before(a, b) == FoldsBefore(a, b) \/ (~FoldsBefore(b, a) /\ a.id < b.id)
           R == {m \in S \X S : Before(m[1], m[2])}
           n == Cardinality(S)
<1>1. \A a, b \in S : <<a, b>> \in R <=> Before(a, b)
  OBVIOUS
<1>2. /\ \A a \in S : ~Before(a, a)
      /\ \A a, b, c \in S : Before(a, b) /\ Before(b, c) => Before(a, c)
      /\ \A a, b \in S : a = b \/ Before(a, b) \/ Before(b, a)
  <2>1. \A a \in S : FoldRank(a) \in {0, 1}
    BY DEF FoldRank
  <2> HIDE DEF R
  <2>2. \A a \in S : ~Before(a, a)
    BY <2>1 DEF FoldsBefore, SoonerInstant, Placed
  <2>3. \A a, b \in S : a = b \/ Before(a, b) \/ Before(b, a)
    BY <2>1 DEF FoldsBefore, SoonerInstant, Placed, OwnIds
  <2>4. \A a, b, c \in S : Before(a, b) /\ Before(b, c) => Before(a, c)
    BY <2>1, SMTT(30) DEF FoldsBefore, SoonerInstant, Placed
  <2> QED BY <2>2, <2>3, <2>4
<1>3. R \in SUBSET (S \X S)
  OBVIOUS
<1>4. \A x \in S : 1 + Cardinality({y \in S : Before(y, x)}) = Cardinality(Through(S, R, x))
  <2> TAKE x \in S
  <2> DEFINE B == {y \in S : Before(y, x)}
  <2>1. Through(S, R, x) = B \cup {x} /\ x \notin B
    BY <1>1, <1>2 DEF Through
  <2>2. B \in SUBSET S
    OBVIOUS
  <2> HIDE DEF B
  <2>3. IsFiniteSet(B)
    BY <2>2, FS_Subset
  <2>4. Cardinality(B \cup {x}) = Cardinality(B) + 1 /\ Cardinality(B) \in Nat
    BY <2>1, <2>3, FS_AddElement, FS_CardinalityType
  <2>5. 1 + Cardinality(B) = Cardinality(Through(S, R, x))
    <3> HIDE DEF R
    <3>1. Cardinality(Through(S, R, x)) = Cardinality(B) + 1
      BY <2>1, <2>4, Zenon
    <3> QED BY <2>4, <3>1
  <2> QED BY <2>5 DEF B
<1>5. /\ \A x \in S : Cardinality(Through(S, R, x)) \in 1..n
      /\ \A x, y \in S : Cardinality(Through(S, R, x)) = Cardinality(Through(S, R, y)) => x = y
      /\ \A k \in 1..n : \E x \in S : Cardinality(Through(S, R, x)) = k
      /\ \A x, y \in S : <<x, y>> \in R =>
           Cardinality(Through(S, R, x)) < Cardinality(Through(S, R, y))
  <2> HIDE DEF R, Before
  <2> QED BY <1>1, <1>2, <1>3, Ranked
<1>6. n \in Nat
  BY FS_CardinalityType
<1>7. Sorted(S) = [i \in 1..n |-> CHOOSE r \in S : 1 + Cardinality({x \in S : Before(x, r)}) = i]
  BY Zenon DEF Sorted
<1>8. \A i \in 1..n : Sorted(S)[i] \in S /\ Cardinality(Through(S, R, Sorted(S)[i])) = i
  <2> TAKE i \in 1..n
  <2> HIDE DEF R, Before
  <2>1. \E x \in S : 1 + Cardinality({y \in S : Before(y, x)}) = i
    BY <1>4, <1>5, Zenon
  <2>2. /\ Sorted(S)[i] \in S
        /\ 1 + Cardinality({y \in S : Before(y, Sorted(S)[i])}) = i
    BY <1>7, <2>1, Zenon
  <2> QED BY <1>4, <2>2, Zenon
<1>9. DOMAIN Sorted(S) = 1..n /\ Len(Sorted(S)) = n
  BY <1>6, <1>7
<1> DEFINE f == Sorted(S)
           place(x) == Cardinality(Through(S, R, x))
<1>10. \A i \in 1..n : f[i] \in S /\ place(f[i]) = i
  BY <1>8, Zenon
<1>11. \A x \in S : place(x) \in 1..n
  BY <1>5, Zenon
<1>12. \A x, y \in S : place(x) = place(y) => x = y
  BY <1>5, Zenon
<1>13. \A x, y \in S : y.day < x.day => place(y) < place(x)
  <2> SUFFICES ASSUME NEW x \in S, NEW y \in S, y.day < x.day PROVE place(y) < place(x)
    BY Zenon
  <2>1. <<y, x>> \in R
    <3>1. Before(y, x)
      BY DEF FoldsBefore, Placed
    <3> HIDE DEF R, Before
    <3> QED BY <1>1, <3>1
  <2> HIDE DEF R
  <2> QED BY <1>5, <2>1, Zenon
<1> HIDE DEF f, place, R
<1>14. \A i, j \in 1..n : f[i] = f[j] => i = j
  BY <1>10
<1>15. \A x \in S : \E i \in 1..n : f[i] = x
  BY <1>10, <1>11, <1>12
<1>16. \A i, j \in 1..n : i <= j => f[i].day <= f[j].day
  <2> SUFFICES ASSUME NEW i \in 1..n, NEW j \in 1..n, i <= j PROVE f[i].day <= f[j].day
    OBVIOUS
  <2>1. /\ f[i] \in S /\ f[j] \in S /\ place(f[i]) = i /\ place(f[j]) = j
    BY <1>10
  <2>2. ~(f[j].day < f[i].day)
    <3>1. ~(place(f[j]) < place(f[i]))
      BY <1>6, <2>1
    <3> QED BY <1>13, <2>1, <3>1
  <2>3. f[i].day \in Int /\ f[j].day \in Int
    BY <2>1 DEF Placed
  <2> QED BY <2>2, <2>3
<1>17. \A i \in 1..n : f[i] \in S
  BY <1>10
<1> QED BY <1>6, <1>9, <1>14, <1>15, <1>16, <1>17 DEF f

\* Each place of the order holds a row.
LEMMA SortedHolds ==
  ASSUME NEW S, IsFiniteSet(S), OwnIds(S), \A r \in S : Placed(r)
  PROVE  /\ Len(Sorted(S)) = Cardinality(S) /\ Cardinality(S) \in Nat
         /\ DOMAIN Sorted(S) = 1..Cardinality(S)
         /\ \A i \in 1..Cardinality(S) : Sorted(S)[i] \in S
BY SortedIs

\* Rows numbered apart by a clock are finitely many.
LEMMA RowsAreFinite ==
  ASSUME NEW some, NEW c \in Nat, OwnIds(some), \A r \in some : r.id \in 1..c
  PROVE  IsFiniteSet(some)
<1> DEFINE f == [r \in some |-> r.id]
<1>1. f \in Injection(some, 1..c)
  BY DEF Injection, IsInjective, OwnIds
<1>2. IsFiniteSet(1..c)
  BY FS_Interval
<1> QED BY <1>1, <1>2, FS_Injection

\* The candidates of a delta have a place each.
LEMMA PlacesAre ==
  ASSUME NEW add, NEW n \in Nat, DOMAIN add = 1..n,
         \A i \in 1..n : add[i][1].day \in Int /\ add[i][1].at \in Int
  PROVE  /\ \A i \in 1..n : Place(add, i) \in 1..n
         /\ \A i, j \in 1..n : Place(add, i) = Place(add, j) => i = j
         /\ \A m \in 1..n : \E i \in 1..n : Place(add, i) = m
<1> DEFINE Sooner(j, i) ==
             \/ add[j][1].day < add[i][1].day
             \/ /\ add[j][1].day = add[i][1].day
                /\ \/ SoonerInstant(add[j][1], add[i][1])
                   \/ add[j][1].at = add[i][1].at /\ j < i
           S == 1..n
           R == {m \in S \X S : Sooner(m[1], m[2])}
<1>1. IsFiniteSet(S) /\ Cardinality(S) = n
  BY FS_Interval
<1>2. R \in SUBSET (S \X S) /\ \A i, j \in S : <<j, i>> \in R <=> Sooner(j, i)
  OBVIOUS
<1>3. /\ \A a \in S : ~Sooner(a, a)
      /\ \A a, b, c \in S : Sooner(a, b) /\ Sooner(b, c) => Sooner(a, c)
      /\ \A a, b \in S : a = b \/ Sooner(a, b) \/ Sooner(b, a)
  <2> DEFINE d(i) == add[i][1].day
             t(i) == add[i][1].at
  <2>1. \A i \in S : i \in Int /\ d(i) \in Int /\ t(i) \in Int
    OBVIOUS
  <2>2. \A i, j \in S : Sooner(j, i) <=>
          \/ d(j) < d(i)
          \/ d(j) = d(i) /\ ((t(j) # 0 /\ (t(i) = 0 \/ t(j) < t(i))) \/ (t(j) = t(i) /\ j < i))
    BY DEF SoonerInstant
  <2> HIDE DEF S, R, Sooner, d, t
  <2>3. \A a \in S : ~Sooner(a, a)
    BY <2>1, <2>2
  <2>4. \A a, b \in S : a = b \/ Sooner(a, b) \/ Sooner(b, a)
    BY <2>1, <2>2
  <2>5. \A a, b, c \in S : Sooner(a, b) /\ Sooner(b, c) => Sooner(a, c)
    BY <2>1, <2>2, SMTT(30)
  <2> QED BY <2>3, <2>4, <2>5
<1>4. \A i \in S : Place(add, i) = Cardinality(Through(S, R, i))
  <2> TAKE i \in S
  <2>1. Through(S, R, i) = {j \in S : j = i \/ Sooner(j, i)}
    BY <1>2 DEF Through
  <2> QED BY <2>1 DEF Place
<1> HIDE DEF R, Sooner
<1>5. /\ \A x \in S : Cardinality(Through(S, R, x)) \in 1..Cardinality(S)
      /\ \A x, y \in S : Cardinality(Through(S, R, x)) = Cardinality(Through(S, R, y)) => x = y
      /\ \A k \in 1..Cardinality(S) : \E x \in S : Cardinality(Through(S, R, x)) = k
  <2> HIDE DEF S
  <2>1. R \in SUBSET (S \X S) /\ IsFiniteSet(S)
    BY <1>1, <1>2
  <2>2. \A a \in S : <<a, a>> \notin R
    BY <1>2, <1>3
  <2>3. \A a, b, c \in S : <<a, b>> \in R /\ <<b, c>> \in R => <<a, c>> \in R
    BY <1>2, <1>3, Zenon
  <2>4. \A a, b \in S : a = b \/ <<a, b>> \in R \/ <<b, a>> \in R
    BY <1>2, <1>3, Zenon
  <2>5. /\ \A x \in S : Cardinality(Through(S, R, x)) \in 1..Cardinality(S)
        /\ \A x, y \in S : Cardinality(Through(S, R, x)) = Cardinality(Through(S, R, y)) => x = y
        /\ \A k \in 1..Cardinality(S) : \E x \in S : Cardinality(Through(S, R, x)) = k
        /\ \A x, y \in S : <<x, y>> \in R =>
             Cardinality(Through(S, R, x)) < Cardinality(Through(S, R, y))
    BY <2>1, <2>2, <2>3, <2>4, Ranked
  <2> QED BY <2>5, Zenon
<1>6. /\ \A i \in S : Place(add, i) \in S
      /\ \A i, j \in S : Place(add, i) = Place(add, j) => i = j
      /\ \A m \in S : \E i \in S : Place(add, i) = m
  <2>1. \A x \in S : Place(add, x) \in S
    BY <1>1, <1>4, <1>5
  <2>2. \A i, j \in S : Place(add, i) = Place(add, j) => i = j
    BY <1>4, <1>5
  <2>3. \A m \in S : \E i \in S : Place(add, i) = m
    BY <1>1, <1>4, <1>5
  <2> QED BY <2>1, <2>2, <2>3
<1> QED BY <1>6

\* The candidate whose place is m.
AtPlace(add, n, m) == CHOOSE i \in 1..n : Place(add, i) = m

\* Putting candidates in order lists them by their places.
LEMMA OrderedHolds ==
  ASSUME NEW add, NEW n \in Nat, DOMAIN add = 1..n, NEW key
  PROVE  /\ Len(Ordered(add, key)) = n
         /\ \A m \in 1..n : Ordered(add, key)[m] = key[AtPlace(add, n, m)]
<1>1. Ordered(add, key) = [k \in 1..n |-> key[CHOOSE i \in 1..n : Place(add, i) = k]]
  BY DEF Ordered
<1>2. Len(Ordered(add, key)) = n
  BY <1>1
<1>3. \A m \in 1..n : Ordered(add, key)[m] = key[AtPlace(add, n, m)]
  BY <1>1, Zenon DEF AtPlace
<1> QED BY <1>2, <1>3

-----------------------------------------------------------------------------
(* What an import writes. *)

\* The columns the lemmas below read or rewrite.
RowColumns == {"id", "acct", "typ", "paper", "day", "src", "at", "stamp", "qty", "amount",
               "cur", "group", "lots", "ext"}

\* A row has them.
LEMMA RowHasColumns ==
  ASSUME NEW r, IsRow(r)
  PROVE  RowColumns \subseteq DOMAIN r
BY DEF IsRow, Blank, RowColumns

-----------------------------------------------------------------------------
(* What an offer adds to the rows it was made over. *)

\* legs added to the rows before, as they are, or with the breakdown that was
\* released for the move, or not at all.
Grown(before, after, legs) ==
  \/ after = before
  \/ legs[1].typ # "transfer_out" /\ after = before \cup LegSet(legs)
  \/ legs[1].typ = "transfer_out" /\ \E lots : after = before \cup LegSet(OnEveryLeg(legs, lots))

\* An offer adds the legs of one event or nothing.
LEMMA OfferGrows ==
  ASSUME NEW P, NEW legs, NEW kind \in {"together", "one"}
  PROVE  Grown(P, StepOf(kind, P, legs).pos, legs)
<1>1. Grown(P, Offer(P, legs).pos, legs)
  <2> DEFINE out == legs[1]
             r == Release({x \in RowsOf(P, out.acct) : FoldsBefore(x, out)}, out.paper, out.qty)
             b == ReleaseBasis(P, legs)
  <2>1. \A pend, q : WithLegs(pend, q).pos = pend \/ WithLegs(pend, q).pos = pend \cup LegSet(q.pos)
    BY DEF WithLegs, Provided
  <2>2. IF out.typ # "transfer_out" THEN b.pos = legs ELSE \E lots : b.pos = OnEveryLeg(legs, lots)
    <3>1. CASE out.typ # "transfer_out"
      BY <3>1 DEF ReleaseBasis, Provided
    <3>2. CASE out.typ = "transfer_out"
      <4>1. b = Provided(r.ok, OnEveryLeg(legs, r.lots))
        BY <3>2, Zenon DEF ReleaseBasis
      <4> HIDE DEF b, r
      <4>2. b.pos = OnEveryLeg(legs, r.lots)
        BY <4>1 DEF Provided
      <4> QED BY <3>2, <4>2, Zenon
    <3> QED BY <3>1, <3>2
  <2>3. Offer(P, legs) \in {WithLegs(P, b), Provided(TRUE, P)}
    BY DEF Offer
  <2>4. Provided(TRUE, P).pos = P
    BY DEF Provided
  <2> HIDE DEF b
  <2>5. Offer(P, legs).pos = P \/ Offer(P, legs).pos = P \cup LegSet(b.pos)
    BY <2>1, <2>3, <2>4, Zenon
  <2> QED BY <2>2, <2>5, Zenon DEF Grown
<1>2. CASE kind = "together"
  BY <1>1, <1>2 DEF StepOf
<1>3. CASE kind = "one"
  <2>1. \A after : IfHeld(P, legs, after).pos \in {after.pos, P}
    BY DEF IfHeld, Provided
  <2>2. StepOf(kind, P, legs) = IfHeld(P, legs, Offer(P, legs))
    BY <1>3, Zenon DEF StepOf, OfferIfHeld
  <2>3. StepOf(kind, P, legs).pos \in {Offer(P, legs).pos, P}
    BY <2>1, <2>2, Zenon
  <2> QED BY <1>1, <2>3, Zenon DEF Grown
<1> QED BY <1>2, <1>3

-----------------------------------------------------------------------------
(* An event is offered whole. *)

\* Of the legs of an event all stand among the rows of P, or none.
Entire(P, legs) ==
  \A j, k \in DOMAIN legs : \A x \in P : x.id = legs[j].id => \E y \in P : y.id = legs[k].id

\* The legs of a move carry one breakdown, those of anything else their own.
ToldAlike(P, legs) ==
  \A j, k \in DOMAIN legs : \A x, y \in P : x.id = legs[j].id /\ y.id = legs[k].id =>
     IF legs[1].typ = "transfer_out" THEN x.lots = y.lots /\ x.amount = y.amount
     ELSE x.lots = legs[j].lots /\ x.amount = legs[j].amount

\* A sequence of events, numbered from c.
NumberedFrom(O, n, c) ==
  \A m \in 1..n : /\ DOMAIN O[m] \subseteq {1, 2}
                  /\ \A k \in DOMAIN O[m] : IsRow(O[m][k]) /\ O[m][k].id = c + 2 * m + k - 2

\* What holds of the rows once the first m events have been offered.
Offering(P, O, n, c, m) ==
  /\ \A x \in P : x.id \in Int /\ x.id <= c + 2 * m
  /\ \A l \in 1..n : Entire(P, O[l]) /\ ToldAlike(P, O[l])

\* A released breakdown is written on every leg alike.
LEMMA OnEveryLegIs ==
  ASSUME NEW legs, NEW lots, \A k \in DOMAIN legs : IsRow(legs[k])
  PROVE  /\ DOMAIN OnEveryLeg(legs, lots) = DOMAIN legs
         /\ \A k \in DOMAIN legs : /\ OnEveryLeg(legs, lots)[k].id = legs[k].id
                                   /\ OnEveryLeg(legs, lots)[k].lots = lots
                                   /\ OnEveryLeg(legs, lots)[k].amount = LotsCost(lots)
<1>1. DOMAIN OnEveryLeg(legs, lots) = DOMAIN legs
  BY Zenon DEF OnEveryLeg
<1>2. ASSUME NEW k \in DOMAIN legs
      PROVE  /\ OnEveryLeg(legs, lots)[k].id = legs[k].id
             /\ OnEveryLeg(legs, lots)[k].lots = lots
             /\ OnEveryLeg(legs, lots)[k].amount = LotsCost(lots)
  <2>1. {"id", "lots", "amount"} \subseteq DOMAIN legs[k]
    BY RowFields
  <2>2. OnEveryLeg(legs, lots)[k] = [legs[k] EXCEPT !.lots = lots, !.amount = LotsCost(lots)]
    BY Zenon DEF OnEveryLeg
  <2> QED BY <2>1, <2>2, Zenon
<1> QED BY <1>1, <1>2, Zenon

\* One more event offered.
LEMMA OfferingGoesOn ==
  ASSUME NEW O, NEW n \in Nat, NEW c \in Nat, NumberedFrom(O, n, c), NEW m \in 1..n,
         NEW P, Offering(P, O, n, c, m - 1), NEW P2, Grown(P, P2, O[m])
  PROVE  Offering(P2, O, n, c, m)
<1> DEFINE legs == O[m]
<1>1. \A l \in 1..n : \A k \in DOMAIN O[l] : k \in {1, 2} /\ IsRow(O[l][k]) /\ O[l][k].id = c + 2 * l + k - 2
  BY Zenon DEF NumberedFrom
<1>2. \A x \in P : x.id \in Int /\ x.id <= c + 2 * (m - 1)
  BY DEF Offering
<1>3. CASE P2 = P
  BY <1>2, <1>3 DEF Offering
<1>4. ASSUME NEW b, P2 = P \cup LegSet(b), DOMAIN b = DOMAIN legs,
             \A k \in DOMAIN legs : b[k].id = legs[k].id,
             \A j, k \in DOMAIN legs :
               IF legs[1].typ = "transfer_out" THEN b[j].lots = b[k].lots /\ b[j].amount = b[k].amount
               ELSE b[j].lots = legs[j].lots /\ b[j].amount = legs[j].amount
      PROVE  Offering(P2, O, n, c, m)
  <2>1. \A x \in P2 : x \in P \/ \E k \in DOMAIN legs : x = b[k]
    BY <1>4, Zenon DEF LegSet
  <2>2. \A k \in DOMAIN legs : b[k] \in P2 /\ b[k].id = legs[k].id
    BY <1>4, Zenon DEF LegSet
  <2>3. \A x \in P2 : x.id \in Int /\ x.id <= c + 2 * m
    BY <1>1, <1>2, <2>1, <2>2
  <2>4. ASSUME NEW l \in 1..n, l # m PROVE Entire(P2, O[l]) /\ ToldAlike(P2, O[l])
    <3>1. \A x \in P2, k \in DOMAIN O[l] : x.id = O[l][k].id => x \in P
      BY <1>1, <2>1, <2>2, <2>4
    <3>2. Entire(P, O[l]) /\ ToldAlike(P, O[l])
      BY Zenon DEF Offering
    <3>3. Entire(P2, O[l])
      <4>1. P \subseteq P2
        BY <1>4, Zenon
      <4> QED BY <3>1, <3>2, <4>1, Zenon DEF Entire
    <3>4. ToldAlike(P2, O[l])
      BY <3>1, <3>2, Zenon DEF ToldAlike
    <3> QED BY <3>3, <3>4
  <2>5. Entire(P2, legs)
    BY <2>2, Zenon DEF Entire
  <2>6. ToldAlike(P2, legs)
    <3>1. \A x \in P2, k \in DOMAIN legs : x.id = legs[k].id => x = b[k]
      <4>1. \A x \in P, k \in DOMAIN legs : x.id # legs[k].id
        BY <1>1, <1>2
      <4>2. \A j, k \in DOMAIN legs : legs[j].id = legs[k].id => j = k
        BY <1>1
      <4> HIDE DEF legs
      <4> QED BY <2>1, <1>4, <4>1, <4>2, SMTT(30)
    <3> HIDE DEF legs
    <3>2. ASSUME NEW j \in DOMAIN legs, NEW k \in DOMAIN legs, NEW x \in P2, NEW y \in P2,
                 x.id = legs[j].id, y.id = legs[k].id
          PROVE  IF legs[1].typ = "transfer_out" THEN x.lots = y.lots /\ x.amount = y.amount
                 ELSE x.lots = legs[j].lots /\ x.amount = legs[j].amount
      <4>1. x = b[j] /\ y = b[k]
        BY <3>1, <3>2, Zenon
      <4> QED BY <1>4, <4>1, Zenon
    <3> QED BY <3>2, ZenonT(60) DEF ToldAlike
  <2> QED BY <2>3, <2>4, <2>5, <2>6, Zenon DEF Offering
<1>5. CASE legs[1].typ # "transfer_out" /\ P2 = P \cup LegSet(legs)
  <2> HIDE DEF legs
  <2> QED BY <1>4, <1>5, Zenon
<1>6. CASE legs[1].typ = "transfer_out" /\ \E lots : P2 = P \cup LegSet(OnEveryLeg(legs, lots))
  <2>1. PICK lots : P2 = P \cup LegSet(OnEveryLeg(legs, lots))
    BY <1>6, Zenon
  <2> DEFINE b == OnEveryLeg(legs, lots)
  <2>2. \A k \in DOMAIN legs : IsRow(legs[k])
    BY <1>1, Zenon
  <2> HIDE DEF legs
  <2>3. /\ DOMAIN b = DOMAIN legs
        /\ \A k \in DOMAIN legs : b[k].id = legs[k].id /\ b[k].lots = lots /\ b[k].amount = LotsCost(lots)
    BY <2>2, OnEveryLegIs
  <2> HIDE DEF b
  <2> QED BY <1>4, <1>6, <2>1, <2>3, Zenon DEF b
<1> QED BY <1>3, <1>5, <1>6, Zenon DEF Grown

\* After either run of the import every event stands whole or not at all.
LEMMA OfferedWhole ==
  ASSUME NEW O, NEW n \in Nat, Len(O) = n, NEW c \in Nat, NumberedFrom(O, n, c),
         NEW kept, \A x \in kept : x.id \in 1..c,
         NEW kind \in {"together", "one"}
  PROVE  Offering(RunOf(kind, kept, O).pos, O, n, c, n)
<1>1. PICK after : Steps(kind, kept, O, after) /\ RunOf(kind, kept, O) = after[n]
  <2>1. Len(O) \in Nat
    OBVIOUS
  <2> QED BY <2>1, RunSteps
<1>2. /\ after[0] = Provided(TRUE, kept)
      /\ \A i \in 1..n : after[i] = IF after[i - 1].ok THEN StepOf(kind, after[i - 1].pos, O[i]) ELSE after[i - 1]
  BY <1>1, Zenon DEF Steps
<1> DEFINE Good(i) == Offering(after[i].pos, O, n, c, i)
           Bad == {i \in Nat : i <= n /\ ~Good(i)}
<1>3. Good(0)
  <2>1. after[0].pos = kept
    BY <1>2 DEF Provided
  <2>2. \A x \in kept : x.id \in Int /\ x.id <= c + 2 * 0
    OBVIOUS
  <2>3. \A l \in 1..n : \A k \in DOMAIN O[l] : \A x \in kept : x.id # O[l][k].id
    BY <2>2 DEF NumberedFrom
  <2>4. \A l \in 1..n : Entire(kept, O[l]) /\ ToldAlike(kept, O[l])
    BY <2>3, ZenonT(60) DEF Entire, ToldAlike
  <2> QED BY <2>1, <2>2, <2>4, Zenon DEF Offering
<1>4. ASSUME NEW i \in 1..n, Good(i - 1) PROVE Good(i)
  <2> DEFINE P == after[i - 1].pos
  <2>1. Grown(P, after[i].pos, O[i])
    <3>1. CASE after[i - 1].ok
      BY <1>2, <3>1, OfferGrows
    <3>2. CASE ~after[i - 1].ok
      BY <1>2, <3>2 DEF Grown
    <3> QED BY <3>1, <3>2
  <2> QED BY <1>4, <2>1, OfferingGoesOn
<1>5. Bad = {}
  <2> SUFFICES ASSUME Bad # {} PROVE FALSE
    OBVIOUS
  <2>1. Bad \in SUBSET Nat
    OBVIOUS
  <2>2. PICK i \in Bad : \A j \in Bad : i <= j
    <3> HIDE DEF Bad
    <3> QED BY <2>1, SmallestOf
  <2> HIDE DEF Good
  <2>3. i \in Nat /\ i <= n /\ ~Good(i) /\ i # 0
    BY <1>3
  <2>4. i - 1 \in Nat /\ i - 1 <= n /\ i \in 1..n /\ ~(i <= i - 1)
    BY <2>3
  <2>5. Good(i - 1)
    BY <2>2, <2>4
  <2> QED BY <1>4, <2>3, <2>4, <2>5
<1>6. Good(n)
  <2> HIDE DEF Good
  <2> QED BY <1>5
<1> QED BY <1>1, <1>6

\* r and s agree on everything but their numbers, stamps and breakdowns.
Alike(r, s) ==
  /\ r.acct = s.acct /\ r.typ = s.typ /\ r.paper = s.paper /\ r.day = s.day
  /\ r.src = s.src /\ r.at = s.at /\ r.qty = s.qty /\ r.cur = s.cur
  /\ r.group = s.group /\ r.ext = s.ext

\* One row or two.
Shaped(legs) == Len(legs) \in {1, 2} /\ DOMAIN legs = 1..Len(legs)

\* The events of a delta, dated and in the shape of one row or of two.
Eventful(add, n) ==
  /\ n \in Nat /\ DOMAIN add = 1..n
  /\ \A i \in 1..n :
       /\ Shaped(add[i])
       /\ add[i][1].day \in Int /\ add[i][1].at \in Int
       /\ \A k \in DOMAIN add[i] : IsRow(add[i][k])

\* Events of add as an import writes them: numbered by their places, alike to
\* what was asked, and stamped as they were when they say so.
WrittenAs(add, n, c, W) ==
  \A i \in 1..n :
    /\ DOMAIN W[i] = DOMAIN add[i]
    /\ \A k \in DOMAIN add[i] :
         /\ IsRow(W[i][k]) /\ Alike(W[i][k], add[i][k])
         /\ W[i][k].id = c + 2 * Place(add, i) + k - 2
         /\ add[i][k].stamp # 0 => W[i][k].stamp = add[i][k].stamp

\* The legs of a move are told one breakdown, those of anything else their own.
OneBreakdown(legs, told) ==
  \A j, k \in DOMAIN legs :
    IF legs[1].typ = "transfer_out" THEN told[j].lots = told[k].lots /\ told[j].amount = told[k].amount
    ELSE told[j].lots = legs[j].lots /\ told[j].amount = legs[j].amount

\* new is what W holds at the places of I.
Wrote(add, n, c, W, I, new) ==
  /\ I \in SUBSET (1..n) /\ WrittenAs(add, n, c, W)
  /\ \A i \in I : OneBreakdown(add[i], W[i])
  /\ new = UNION {LegSet(W[i]) : i \in I}

\* Stamping a leg changes its number and stamp and nothing else.
LEMMA StampedIs ==
  ASSUME NEW leg, IsRow(leg), NEW tick, NEW c, NEW base
  PROVE  LET w == StampedLeg(leg, tick, c, base)
         IN IsRow(w) /\ Alike(w, leg) /\ w.id = c + tick
            /\ w.lots = leg.lots /\ w.amount = leg.amount
            /\ (leg.stamp # 0 => w.stamp = leg.stamp)
<1>1. RowColumns \subseteq DOMAIN leg
  BY RowHasColumns
<1> QED
  BY <1>1, ZenonT(30) DEF StampedLeg, IsRow, Alike, RowColumns

\* A breakdown is what a row of A with its number says.
LEMMA BreakdownIs ==
  ASSUME NEW leg, IsRow(leg), NEW A, \E x \in A : x.id = leg.id
  PROVE  LET w == WithBreakdown(leg, A)
         IN /\ IsRow(w) /\ Alike(w, leg) /\ w.id = leg.id /\ w.stamp = leg.stamp
            /\ \E x \in A : x.id = leg.id /\ w.lots = x.lots /\ w.amount = x.amount
<1> DEFINE x == CHOOSE x \in A : x.id = leg.id
           w == [leg EXCEPT !.lots = x.lots, !.amount = x.amount]
<1>1. x \in A /\ x.id = leg.id
  OBVIOUS
<1>2. WithBreakdown(leg, A) = w
  BY DEF WithBreakdown
<1> HIDE DEF x
<1>3. RowColumns \subseteq DOMAIN leg
  BY RowHasColumns
<1>4. IsRow(w) /\ Alike(w, leg) /\ w.id = leg.id /\ w.stamp = leg.stamp /\ w.lots = x.lots /\ w.amount = x.amount
  BY <1>3, ZenonT(30) DEF IsRow, Alike, RowColumns
<1> HIDE DEF w
<1> QED
  BY <1>1, <1>2, <1>4, Zenon

\* The accepted answer of an offer is the answer of one of the two runs.
LEMMA OfferedRuns ==
  ASSUME NEW kept, NEW O, NEW accts, Offered(kept, O, accts).ok
  PROVE  \E kind \in {"together", "one"} :
           Offered(kept, O, accts).pos = RunOf(kind, kept, O).pos
<1>1. \A t : IfTogether(kept, O, accts, t)
               \in {t, OfferOneAtATime(kept, O), Provided(FALSE, kept)}
  BY Zenon DEF IfTogether
<1>2. Offered(kept, O, accts)
        \in {OfferTogether(kept, O), OfferOneAtATime(kept, O), Provided(FALSE, kept)}
  BY <1>1, Zenon DEF Offered
<1>3. Provided(FALSE, kept).ok = FALSE
  BY DEF Provided
<1>4. Offered(kept, O, accts) \in {OfferTogether(kept, O), OfferOneAtATime(kept, O)}
  BY <1>2, <1>3, Zenon
<1>5. RunOf("together", kept, O) = OfferTogether(kept, O) /\ RunOf("one", kept, O) = OfferOneAtATime(kept, O)
  BY DEF RunOf
<1> QED
  BY <1>4, <1>5, Zenon

\* Candidates stand at their places.
LEMMA OrderedIs ==
  ASSUME NEW add, NEW n, Eventful(add, n), NEW S
  PROVE  /\ \A i \in 1..n : Place(add, i) \in 1..n
         /\ \A i, j \in 1..n : Place(add, i) = Place(add, j) => i = j
         /\ \A m \in 1..n : \E i \in 1..n : Place(add, i) = m /\ Ordered(add, S)[m] = S[i]
         /\ Len(Ordered(add, S)) = n
<1>1. n \in Nat /\ DOMAIN add = 1..n /\ \A i \in 1..n : add[i][1].day \in Int /\ add[i][1].at \in Int
  BY DEF Eventful
<1>2. /\ \A i \in 1..n : Place(add, i) \in 1..n
      /\ \A i, j \in 1..n : Place(add, i) = Place(add, j) => i = j
      /\ \A m \in 1..n : \E i \in 1..n : Place(add, i) = m
  BY <1>1, PlacesAre, Zenon
<1>3. /\ Len(Ordered(add, S)) = n
      /\ \A m \in 1..n : Ordered(add, S)[m] = S[AtPlace(add, n, m)]
  BY <1>1, OrderedHolds, Zenon
<1>4. \A m \in 1..n : \E i \in 1..n : Place(add, i) = m /\ Ordered(add, S)[m] = S[i]
  <2> TAKE m \in 1..n
  <2>1. AtPlace(add, n, m) \in 1..n /\ Place(add, AtPlace(add, n, m)) = m
    BY <1>2, Zenon DEF AtPlace
  <2>2. Ordered(add, S)[m] = S[AtPlace(add, n, m)]
    BY <1>3, Zenon
  <2> QED
    BY <2>1, <2>2, Zenon
<1> QED
  BY <1>2, <1>3, <1>4, Zenon

\* What an accepted import inserts: whole events, numbered by their places.
LEMMA WrittenWhole ==
  ASSUME NEW c \in Nat, NEW add, NEW n, Eventful(add, n), NEW base,
         NEW kept, \A x \in kept : x.id \in 1..c, NEW accts,
         Offered(kept, Ordered(add, Stamped(add, c, base)), accts).ok
  PROVE  \E W, I : Wrote(add, n, c, W, I,
             Inserted(LegsOf(Stamped(add, c, base)),
                      Offered(kept, Ordered(add, Stamped(add, c, base)), accts).pos))
<1> DEFINE S == Stamped(add, c, base)
           O == Ordered(add, S)
           A == Offered(kept, O, accts).pos
           Tick(i, k) == 2 * Place(add, i) + k - 2
<1>1. n \in Nat /\ DOMAIN add = 1..n /\ \A i \in 1..n : DOMAIN add[i] \subseteq {1, 2}
                                           /\ 1 \in DOMAIN add[i]
  BY DEF Eventful, Shaped
<1>2. /\ \A i \in 1..n : Place(add, i) \in 1..n
      /\ \A i, j \in 1..n : Place(add, i) = Place(add, j) => i = j
      /\ \A m \in 1..n : \E i \in 1..n : Place(add, i) = m /\ O[m] = S[i]
      /\ Len(O) = n
  <2> HIDE DEF S
  <2> QED
    BY OrderedIs, Zenon
<1>3. \A i \in 1..n : /\ DOMAIN S[i] = DOMAIN add[i]
                      /\ \A k \in DOMAIN add[i] : S[i][k] = StampedLeg(add[i][k], Tick(i, k), c, base)
  BY <1>1, Zenon DEF Stamped
<1>4. \A i \in 1..n : \A k \in DOMAIN add[i] :
         /\ IsRow(S[i][k]) /\ Alike(S[i][k], add[i][k]) /\ S[i][k].id = c + Tick(i, k)
         /\ S[i][k].lots = add[i][k].lots /\ S[i][k].amount = add[i][k].amount
         /\ (add[i][k].stamp # 0 => S[i][k].stamp = add[i][k].stamp)
  <2> HIDE DEF S, Tick
  <2> SUFFICES ASSUME NEW i \in 1..n, NEW k \in DOMAIN add[i]
               PROVE  /\ IsRow(S[i][k]) /\ Alike(S[i][k], add[i][k]) /\ S[i][k].id = c + Tick(i, k)
                      /\ S[i][k].lots = add[i][k].lots /\ S[i][k].amount = add[i][k].amount
                      /\ (add[i][k].stamp # 0 => S[i][k].stamp = add[i][k].stamp)
    BY Zenon
  <2> DEFINE leg == add[i][k]
  <2>1. IsRow(leg)
    BY Zenon DEF Eventful
  <2>2. S[i][k] = StampedLeg(leg, Tick(i, k), c, base)
    BY <1>3, Zenon
  <2> HIDE DEF leg
  <2>3. LET w == StampedLeg(leg, Tick(i, k), c, base)
        IN IsRow(w) /\ Alike(w, leg) /\ w.id = c + Tick(i, k)
           /\ w.lots = leg.lots /\ w.amount = leg.amount
           /\ (leg.stamp # 0 => w.stamp = leg.stamp)
    BY <2>1, StampedIs
  <2> QED
    BY <2>2, <2>3, Zenon DEF leg
<1>5. \A i \in 1..n : \A k \in DOMAIN add[i] : S[i][k].id = c + 2 * Place(add, i) + k - 2
  <2> SUFFICES ASSUME NEW i \in 1..n, NEW k \in DOMAIN add[i]
               PROVE  S[i][k].id = c + 2 * Place(add, i) + k - 2
    BY Zenon
  <2> HIDE DEF S
  <2>1. k \in {1, 2} /\ Place(add, i) \in 1..n /\ n \in Nat
    BY <1>1, <1>2
  <2>2. S[i][k].id = c + (2 * Place(add, i) + k - 2)
    BY <1>4, Zenon
  <2> QED
    BY <2>1, <2>2
<1> HIDE DEF S, O, Tick
<1>6. NumberedFrom(O, n, c)
  <2> SUFFICES ASSUME NEW m \in 1..n
               PROVE  /\ DOMAIN O[m] \subseteq {1, 2}
                      /\ \A k \in DOMAIN O[m] : IsRow(O[m][k]) /\ O[m][k].id = c + 2 * m + k - 2
    BY Zenon DEF NumberedFrom
  <2>1. PICK i \in 1..n : Place(add, i) = m /\ O[m] = S[i]
    BY <1>2, Zenon
  <2>2. DOMAIN O[m] = DOMAIN add[i]
    BY <1>3, <2>1, Zenon
  <2>3. ASSUME NEW k \in DOMAIN add[i]
        PROVE  IsRow(O[m][k]) /\ O[m][k].id = c + 2 * m + k - 2
    BY <1>4, <1>5, <2>1, ZenonT(60)
  <2> QED
    BY <1>1, <2>2, <2>3, Zenon
<1>7. Offering(A, O, n, c, n)
  <2>1. PICK kind \in {"together", "one"} : A = RunOf(kind, kept, O).pos
    BY OfferedRuns, Zenon DEF O, S
  <2> HIDE DEF A
  <2> QED
    BY <1>1, <1>2, <1>6, <2>1, OfferedWhole
<1> HIDE DEF A
<1>8. \A i \in 1..n : Entire(A, S[i]) /\ ToldAlike(A, S[i])
  <2> TAKE i \in 1..n
  <2>1. PICK m \in 1..n : Place(add, i) = m /\ O[m] = S[i]
    <3>1. Place(add, i) \in 1..n
      BY <1>2, Zenon
    <3>2. PICK j \in 1..n : Place(add, j) = Place(add, i) /\ O[Place(add, i)] = S[j]
      BY <1>2, <3>1, Zenon
    <3>3. j = i
      BY <1>2, <3>2, Zenon
    <3> QED
      BY <3>1, <3>2, <3>3, Zenon
  <2> QED
    BY <1>7, <2>1, Zenon DEF Offering
<1> DEFINE In(i, k) == \E x \in A : x.id = S[i][k].id
           I == {i \in 1..n : In(i, 1)}
           W == [i \in 1..n |-> [k \in DOMAIN add[i] |->
                   IF i \in I THEN WithBreakdown(S[i][k], A) ELSE S[i][k]]]
<1>9. \A i \in 1..n : \A k \in DOMAIN add[i] : In(i, k) <=> i \in I
  <2> SUFFICES ASSUME NEW i \in 1..n, NEW k \in DOMAIN add[i] PROVE In(i, k) <=> In(i, 1)
    BY Zenon
  <2>1. 1 \in DOMAIN S[i] /\ k \in DOMAIN S[i]
    BY <1>1, <1>3, Zenon
  <2> QED
    BY <1>8, <2>1, ZenonT(60) DEF Entire
<1>10. \A i \in 1..n : /\ DOMAIN W[i] = DOMAIN add[i]
                       /\ \A k \in DOMAIN add[i] :
                            W[i][k] = IF i \in I THEN WithBreakdown(S[i][k], A) ELSE S[i][k]
  BY Zenon
<1>11. \A i \in I : \A k \in DOMAIN add[i] :
         /\ IsRow(W[i][k]) /\ Alike(W[i][k], S[i][k]) /\ W[i][k].id = S[i][k].id
         /\ W[i][k].stamp = S[i][k].stamp
         /\ \E x \in A : x.id = S[i][k].id /\ W[i][k].lots = x.lots /\ W[i][k].amount = x.amount
  <2> SUFFICES ASSUME NEW i \in I, NEW k \in DOMAIN add[i]
               PROVE  /\ IsRow(W[i][k]) /\ Alike(W[i][k], S[i][k]) /\ W[i][k].id = S[i][k].id
                      /\ W[i][k].stamp = S[i][k].stamp
                      /\ \E x \in A : x.id = S[i][k].id /\ W[i][k].lots = x.lots
                                      /\ W[i][k].amount = x.amount
    BY Zenon
  <2>1. i \in 1..n /\ In(i, k)
    BY <1>9, Zenon
  <2>2. W[i][k] = WithBreakdown(S[i][k], A) /\ IsRow(S[i][k])
    BY <1>4, <1>10, <2>1, Zenon
  <2> DEFINE leg == S[i][k]
  <2>3. IsRow(leg) /\ \E x \in A : x.id = leg.id
    BY <2>1, <2>2, Zenon
  <2> HIDE DEF leg
  <2>4. LET w == WithBreakdown(leg, A)
        IN /\ IsRow(w) /\ Alike(w, leg) /\ w.id = leg.id /\ w.stamp = leg.stamp
           /\ \E x \in A : x.id = leg.id /\ w.lots = x.lots /\ w.amount = x.amount
    BY <2>3, BreakdownIs, Zenon
  <2> HIDE DEF W, I
  <2> QED
    BY <2>2, <2>4, Zenon DEF leg
<1>12. WrittenAs(add, n, c, W)
  <2> SUFFICES ASSUME NEW i \in 1..n, NEW k \in DOMAIN add[i]
               PROVE  /\ IsRow(W[i][k]) /\ Alike(W[i][k], add[i][k])
                      /\ W[i][k].id = c + 2 * Place(add, i) + k - 2
                      /\ (add[i][k].stamp # 0 => W[i][k].stamp = add[i][k].stamp)
    BY <1>10, Zenon DEF WrittenAs
  <2> HIDE DEF W
  <2>1. CASE i \in I
    <3>1. /\ IsRow(W[i][k]) /\ Alike(W[i][k], S[i][k]) /\ W[i][k].id = S[i][k].id
          /\ W[i][k].stamp = S[i][k].stamp
      BY <1>11, <2>1, Zenon
    <3>2. Alike(S[i][k], add[i][k])
      BY <1>4, Zenon
    <3>3. Alike(W[i][k], add[i][k])
      BY <3>1, <3>2, Zenon DEF Alike
    <3> QED
      BY <1>4, <1>5, <3>1, <3>3, Zenon
  <2>2. CASE i \notin I
    <3>1. W[i][k] = S[i][k]
      BY <1>10, <2>2, Zenon
    <3> QED
      BY <1>4, <1>5, <3>1, ZenonT(60)
  <2> QED
    BY <2>1, <2>2, Zenon
<1>13. \A i \in I : OneBreakdown(add[i], W[i])
  <2> SUFFICES ASSUME NEW i \in I, NEW j \in DOMAIN add[i], NEW k \in DOMAIN add[i]
               PROVE  IF add[i][1].typ = "transfer_out"
                      THEN W[i][j].lots = W[i][k].lots /\ W[i][j].amount = W[i][k].amount
                      ELSE W[i][j].lots = add[i][j].lots /\ W[i][j].amount = add[i][j].amount
    BY Zenon DEF OneBreakdown
  <2>1. i \in 1..n
    OBVIOUS
  <2>2. PICK x \in A : x.id = S[i][j].id /\ W[i][j].lots = x.lots /\ W[i][j].amount = x.amount
    BY <1>11, Zenon
  <2>3. PICK y \in A : y.id = S[i][k].id /\ W[i][k].lots = y.lots /\ W[i][k].amount = y.amount
    BY <1>11, Zenon
  <2> HIDE DEF W, I
  <2>4. j \in DOMAIN S[i] /\ k \in DOMAIN S[i] /\ ToldAlike(A, S[i])
    BY <1>3, <1>8, <2>1, Zenon
  <2>5. IF S[i][1].typ = "transfer_out" THEN x.lots = y.lots /\ x.amount = y.amount
        ELSE x.lots = S[i][j].lots /\ x.amount = S[i][j].amount
    BY <2>2, <2>3, <2>4, ZenonT(60) DEF ToldAlike
  <2>6. S[i][1].typ = add[i][1].typ /\ S[i][j].lots = add[i][j].lots /\ S[i][j].amount = add[i][j].amount
    BY <1>1, <1>4, <2>1, Zenon DEF Alike
  <2> QED
    BY <2>2, <2>3, <2>5, <2>6, Zenon
<1>14. Inserted(LegsOf(S), A) = UNION {LegSet(W[i]) : i \in I}
  <2>1. \A l : l \in LegsOf(S) <=> \E i \in 1..n : \E k \in DOMAIN add[i] : l = S[i][k]
    <3>1. DOMAIN S = 1..n
      BY <1>1, Zenon DEF S, Stamped
    <3>2. LegsOf(S) = UNION {LegSet(S[i]) : i \in 1..n}
      BY <3>1, Zenon DEF LegsOf
    <3>3. \A i \in 1..n : LegSet(S[i]) = {S[i][k] : k \in DOMAIN add[i]}
      BY <1>3, Zenon DEF LegSet
    <3> QED
      <4>1. \A l : l \in LegsOf(S) <=> \E i \in 1..n : l \in LegSet(S[i])
        BY <3>2
      <4>2. \A i \in 1..n : \A l : l \in LegSet(S[i]) <=> \E k \in DOMAIN add[i] : l = S[i][k]
        BY <3>3, Zenon
      <4> TAKE l
      <4>3. ASSUME l \in LegsOf(S)
            PROVE  \E i \in 1..n : \E k \in DOMAIN add[i] : l = S[i][k]
        <5>1. PICK i \in 1..n : l \in LegSet(S[i])
          BY <4>1, <4>3, Zenon
        <5> QED
          BY <4>2, <5>1, ZenonT(60)
      <4>4. ASSUME NEW i \in 1..n, NEW k \in DOMAIN add[i], l = S[i][k]
            PROVE  l \in LegsOf(S)
        BY <4>1, <4>2, <4>4, Zenon
      <4> QED
        BY <4>3, <4>4, Zenon
  <2>2. \A w : w \in Inserted(LegsOf(S), A) <=>
           \E l \in LegsOf(S) : (\E x \in A : x.id = l.id) /\ w = WithBreakdown(l, A)
    BY Zenon DEF Inserted, WithBreakdowns
  <2>3. \A w : w \in Inserted(LegsOf(S), A) <=>
           \E i \in 1..n : \E k \in DOMAIN add[i] : In(i, k) /\ w = WithBreakdown(S[i][k], A)
    <3> HIDE DEF W, I
    <3> QED
      BY <2>1, <2>2, SMTT(30)
  <2>4. \A w : w \in UNION {LegSet(W[i]) : i \in I} <=>
           \E i \in I : \E k \in DOMAIN add[i] : w = W[i][k]
    <3> HIDE DEF W
    <3>1. \A i \in I : DOMAIN W[i] = DOMAIN add[i]
      BY <1>10, Zenon
    <3> HIDE DEF I
    <3>2. \A i \in I : LegSet(W[i]) = {W[i][k] : k \in DOMAIN add[i]}
      BY <3>1, Zenon DEF LegSet
    <3> QED
      BY <3>2, SMTT(30)
  <2>5. \A i \in I : i \in 1..n /\ \A k \in DOMAIN add[i] : In(i, k) /\ W[i][k] = WithBreakdown(S[i][k], A)
    <3>1. \A i \in I : i \in 1..n
      OBVIOUS
    <3> HIDE DEF W, In, I
    <3> QED
      BY <1>9, <1>10, <3>1, Zenon
  <2>6. \A w : w \in Inserted(LegsOf(S), A) <=> w \in UNION {LegSet(W[i]) : i \in I}
    <3> HIDE DEF W, In, I
    <3> TAKE w
    <3>1. ASSUME w \in Inserted(LegsOf(S), A) PROVE w \in UNION {LegSet(W[i]) : i \in I}
      <4>1. PICK i \in 1..n : \E k \in DOMAIN add[i] : In(i, k) /\ w = WithBreakdown(S[i][k], A)
        BY <2>3, <3>1, Zenon
      <4>2. PICK k \in DOMAIN add[i] : In(i, k) /\ w = WithBreakdown(S[i][k], A)
        BY <4>1, Zenon
      <4>3. i \in I
        BY <1>9, <4>2, Zenon
      <4>4. w = W[i][k]
        BY <2>5, <4>2, <4>3, Zenon
      <4> QED
        BY <2>4, <4>3, <4>4
    <3>2. ASSUME w \in UNION {LegSet(W[i]) : i \in I} PROVE w \in Inserted(LegsOf(S), A)
      <4>1. PICK i \in I : \E k \in DOMAIN add[i] : w = W[i][k]
        BY <2>4, <3>2, Zenon
      <4>2. PICK k \in DOMAIN add[i] : w = W[i][k]
        BY <4>1, Zenon
      <4>3. i \in 1..n /\ In(i, k) /\ w = WithBreakdown(S[i][k], A)
        BY <2>5, <4>2, Zenon
      <4> QED
        BY <2>3, <4>2, <4>3
    <3> QED
      BY <3>1, <3>2, Zenon
  <2> HIDE DEF W, In, I
  <2> QED
    BY <2>6, Zenon
<1>15. I \in SUBSET (1..n)
  OBVIOUS
<1> HIDE DEF W, I
<1> QED
  BY <1>12, <1>13, <1>14, <1>15, Zenon DEF Wrote, A, O, S

-----------------------------------------------------------------------------
(* The fold of a journal. *)

\* Entries in the order of their days.
Daily(O) ==
  /\ Len(O) \in Nat
  /\ \A i \in 1..Len(O) : Entry(O[i])
  /\ \A i, j \in 1..Len(O) : i <= j => O[i].day <= O[j].day

\* The day the fold has reached after i entries.
DayAt(O, i) == IF i = 0 THEN 0 ELSE O[i].day

\* The books a journal is folded through, each made of the one before.
BookChain(O, b) ==
  /\ b[0] = <<>>
  /\ \A i \in 0..Len(O) : IsBook(b[i], DayAt(O, i))
  /\ \A i \in 1..Len(O) : FoldOne(b[i - 1], O[i]).ok /\ FoldedInto(b[i - 1], O[i], b[i])

LEMMA DaysAre ==
  ASSUME NEW O, Daily(O)
  PROVE  /\ \A i \in 0..Len(O) : DayAt(O, i) \in Nat
         /\ \A i \in 1..Len(O) : DayAt(O, i - 1) <= O[i].day /\ DayAt(O, i) = O[i].day
<1>1. \A i \in 1..Len(O) : O[i].day \in Nat
  BY DEF Daily, Entry, IsEntry
<1>2. \A i \in 1..Len(O) : i # 1 => O[i - 1].day <= O[i].day
  BY DEF Daily
<1> QED BY <1>1, <1>2 DEF DayAt, Daily

\* A journal that folds has sound books all the way.
LEMMA JournalFolds ==
  ASSUME NEW O, Daily(O), Replays(O)
  PROVE  \E b : BookChain(O, b) /\ Compute(O).pos = b[Len(O)]
<1> DEFINE n == Len(O)
<1>1. n \in Nat
  BY DEF Daily
<1>2. PICK after : Steps("fold", <<>>, O, after) /\ RunOf("fold", <<>>, O) = after[n]
  BY <1>1, RunSteps
<1>3. /\ after[0] = Provided(TRUE, <<>>)
      /\ \A i \in 1..n : after[i] = IF after[i - 1].ok THEN FoldOne(after[i - 1].pos, O[i])
                                    ELSE after[i - 1]
  <2>1. \A q, x : StepOf("fold", q, x) = FoldOne(q, x)
    BY DEF StepOf
  <2>2. /\ after[0] = Provided(TRUE, <<>>)
        /\ \A i \in 1..n : after[i] = IF after[i - 1].ok THEN StepOf("fold", after[i - 1].pos, O[i])
                                      ELSE after[i - 1]
    BY <1>2, Zenon DEF Steps
  <2>3. ASSUME NEW i \in 1..n
        PROVE  after[i] = IF after[i - 1].ok THEN FoldOne(after[i - 1].pos, O[i]) ELSE after[i - 1]
    <3>1. StepOf("fold", after[i - 1].pos, O[i]) = FoldOne(after[i - 1].pos, O[i])
      BY <2>1
    <3> QED BY <2>2, <3>1, Zenon
  <2> QED BY <2>2, <2>3, Zenon
<1>4. Compute(O) = after[n]
  <2>1. RunOf("fold", <<>>, O) = Run(FoldOne, <<>>, O)
    BY DEF RunOf
  <2> QED BY <1>2, <2>1, Zenon DEF Compute
<1>5. \A i \in 1..n : after[i].ok => after[i - 1].ok
  BY <1>3, Zenon
<1>6. \A i \in 0..n : after[i].ok
  <2> DEFINE G == {i \in 0..n : after[n - i].ok}
  <2>1. 0 \in G
    BY <1>1, <1>4 DEF Replays
  <2>2. \A i \in 1..n : i - 1 \in G => i \in G
    <3> SUFFICES ASSUME NEW i \in 1..n, after[n - (i - 1)].ok PROVE after[n - i].ok
      BY <1>1
    <3>1. n - (i - 1) \in 1..n /\ n - (i - 1) - 1 = n - i
      BY <1>1
    <3> QED BY <1>5, <3>1
  <2>3. \A i \in 0..n : i \in G
    <3> HIDE DEF G
    <3> QED BY <1>1, <2>1, <2>2, Climbing
  <2>4. \A i \in 0..n : n - i \in 0..n /\ n - (n - i) = i
    BY <1>1
  <2> QED BY <2>3, <2>4
<1> DEFINE b == [i \in 0..n |-> after[i].pos]
<1>7. \A i \in 0..n : b[i] = after[i].pos
  OBVIOUS
<1>8. \A i \in 1..n : i - 1 \in 0..n /\ i \in 0..n
  BY <1>1
<1> HIDE DEF b, n
<1>9. b[0] = <<>>
  <2>1. 0 \in 0..n
    BY <1>1
  <2>2. after[0].pos = <<>>
    BY <1>3, GateIs
  <2> QED BY <1>7, <2>1, <2>2
<1>10. \A i \in 1..n : FoldOne(b[i - 1], O[i]).ok /\ b[i] = FoldOne(b[i - 1], O[i]).pos
  <2> SUFFICES ASSUME NEW i \in 1..n
               PROVE  FoldOne(b[i - 1], O[i]).ok /\ b[i] = FoldOne(b[i - 1], O[i]).pos
    OBVIOUS
  <2>1. i - 1 \in 0..n /\ i \in 0..n
    BY <1>8
  <2>2. after[i].ok /\ after[i - 1].ok /\ b[i] = after[i].pos /\ b[i - 1] = after[i - 1].pos
    BY <1>6, <1>7, <2>1
  <2>3. after[i] = FoldOne(after[i - 1].pos, O[i])
    BY <1>3, <2>2, Zenon
  <2> QED BY <2>2, <2>3, Zenon
<1>11. /\ \A i \in 0..n : DayAt(O, i) \in Nat
       /\ \A i \in 1..n : DayAt(O, i - 1) <= O[i].day /\ DayAt(O, i) = O[i].day /\ Entry(O[i])
  BY DaysAre DEF n, Daily
<1>12. ASSUME NEW i \in 1..n, IsBook(b[i - 1], DayAt(O, i - 1))
       PROVE  IsBook(b[i], DayAt(O, i)) /\ FoldedInto(b[i - 1], O[i], b[i])
  <2> DEFINE e == DayAt(O, i - 1)
             d == DayAt(O, i)
             o == O[i]
             p == b[i - 1]
             q == b[i]
  <2>1. e \in Nat /\ d \in Nat /\ e <= d /\ d = o.day /\ Entry(o) /\ IsBook(p, e)
    BY <1>8, <1>11, <1>12
  <2>2. FoldOne(p, o).ok /\ q = FoldOne(p, o).pos
    BY <1>10
  <2> HIDE DEF e, d, o, p, q
  <2>3. Foldable(p, e, o)
    BY <2>1, <2>2 DEF Foldable
  <2>4. FoldedInto(p, o, q)
    BY <2>2, <2>3, FoldOneIs
  <2>5. \A x \in DOMAIN p : IsPosition(p[x], d)
    BY <2>1, SoundLater DEF IsBook
  <2>6. IsBook(q, d)
    BY <2>1, <2>4, <2>5 DEF FoldedInto, IsBook
  <2> QED BY <2>4, <2>6 DEF d, o, p, q
<1>13. \A i \in 0..n : IsBook(b[i], DayAt(O, i))
  <2> DEFINE G == {i \in 0..n : IsBook(b[i], DayAt(O, i))}
  <2>1. 0 \in G
    BY <1>1, <1>9 DEF IsBook
  <2>2. \A i \in 1..n : i - 1 \in G => i \in G
    BY <1>8, <1>12
  <2>3. \A i \in 0..n : i \in G
    <3> HIDE DEF G
    <3> QED BY <1>1, <2>1, <2>2, Climbing
  <2> QED BY <2>3
<1>14. \A i \in 1..n : FoldedInto(b[i - 1], O[i], b[i])
  BY <1>8, <1>12, <1>13
<1>15. Compute(O).pos = b[n]
  BY <1>1, <1>4, <1>7
<1>16. BookChain(O, b)
  BY <1>9, <1>10, <1>13, <1>14 DEF BookChain, n
<1> QED BY <1>15, <1>16 DEF n

\* Entries that number the lots they bring apart.
OwnOrigins(O) ==
  /\ \A i \in 1..Len(O) : LotOrigin(O[i]) # 0
  /\ \A i, j \in 1..Len(O) : LotOrigin(O[i]) = LotOrigin(O[j]) => i = j

\* The numbers the first i entries gave to lots of paper x.
GivenTo(O, i, x) == UNION {NumbersOf(O[k]) : k \in {k \in 1..i : O[k].paper = x}}

\* A lot's number is of the entry that brought it, and no other's.
LEMMA NumberGiven ==
  ASSUME NEW o, LotOrigin(o) # 0, NEW m \in NumbersOf(o)
  PROVE  /\ o.typ \in Arrivals \cup {"buy"} /\ m[1] = LotOrigin(o) /\ m[2] \in 0..Len(o.lots)
         /\ m = <<m[1], m[2]>>
<1>1. o.typ \in Arrivals \cup {"buy"} /\ m \in NumbersGiven(o)
  BY DEF NumbersOf
<1>2. PICK s \in 0..Len(o.lots) : m = LotID(o, s)
  BY <1>1 DEF NumbersGiven
<1>3. m = <<LotOrigin(o), s>>
  BY <1>2 DEF LotID
<1> QED BY <1>1, <1>3

\* The lots of a paper have numbers the paper's entries gave, each its own.
LEMMA LotsNumbered ==
  ASSUME NEW O, Daily(O), OwnOrigins(O), NEW b, BookChain(O, b)
  PROVE  \A x \in DOMAIN b[Len(O)] : NumberedBy(b[Len(O)][x].lots, GivenTo(O, Len(O), x))
<1> DEFINE n == Len(O)
           Good(i) == \A x \in DOMAIN b[i] : NumberedBy(b[i][x].lots, GivenTo(O, i, x))
           G == {i \in 0..n : Good(i)}
<1>1. n \in Nat
  BY DEF Daily
<1>2. 0 \in G
  BY <1>1 DEF BookChain
<1>3. ASSUME NEW i \in 1..n, Good(i - 1) PROVE Good(i)
  <2> DEFINE o == O[i]
             p == b[i - 1]
             q == b[i]
             M(x) == GivenTo(O, i - 1, x)
             N(x) == GivenTo(O, i, x)
  <2>1. \A x : N(x) = IF o.paper = x THEN M(x) \cup NumbersOf(o) ELSE M(x)
    <3>1. \A k \in 1..i : k = i \/ k \in 1..(i - 1)
      BY <1>1
    <3>2. \A k \in 1..(i - 1) : k \in 1..i
      BY <1>1
    <3>3. i \in 1..i
      BY <1>1
    <3> TAKE x
    <3>4. \A m : m \in N(x) <=> \E k \in 1..i : O[k].paper = x /\ m \in NumbersOf(O[k])
      BY DEF GivenTo
    <3>5. \A m : m \in M(x) <=> \E k \in 1..(i - 1) : O[k].paper = x /\ m \in NumbersOf(O[k])
      BY DEF GivenTo
    <3> HIDE DEF M, N
    <3>6. ASSUME NEW m PROVE m \in N(x) <=> m \in M(x) \/ (o.paper = x /\ m \in NumbersOf(o))
      BY <3>1, <3>2, <3>3, <3>4, <3>5
    <3> QED BY <3>6
  <2>2. LotOrigin(o) # 0 /\ \A x : M(x) \cap NumbersOf(o) = {}
    <3>1. LotOrigin(o) # 0
      BY DEF OwnOrigins
    <3> SUFFICES ASSUME NEW x, NEW m \in M(x), m \in NumbersOf(o) PROVE FALSE
      BY <3>1
    <3>2. PICK k \in 1..(i - 1) : m \in NumbersOf(O[k])
      BY DEF GivenTo
    <3>3. k \in 1..n /\ k # i
      BY <1>1
    <3>4. m[1] = LotOrigin(O[k]) /\ m[1] = LotOrigin(o)
      BY <3>1, <3>2, <3>3, NumberGiven DEF OwnOrigins
    <3> QED BY <3>3, <3>4 DEF OwnOrigins
  <2>3. \A x, lots : NumberedBy(lots, M(x)) => NumberedBy(lots, N(x))
    BY <2>1 DEF NumberedBy
  <2>4. FoldedInto(p, o, q) /\ \A x \in DOMAIN p : NumberedBy(p[x].lots, M(x))
    BY <1>3 DEF BookChain
  <2> HIDE DEF M, N, o, p
  <2>5. \A x \in DOMAIN q : NumberedBy(q[x].lots, N(x))
    <3> HIDE DEF q
    <3>1. CASE q = p
      BY <2>3, <2>4, <3>1
    <3>2. CASE q # p
      <4>1. /\ DOMAIN q = DOMAIN p \cup {o.paper}
            /\ \A x \in DOMAIN p \ {o.paper} : q[x] = p[x]
            /\ Joins(PositionOf(p, o.paper), q[o.paper], o)
        BY <2>4, <3>2 DEF FoldedInto
      <4>2. NumberedBy(PositionOf(p, o.paper).lots, M(o.paper))
        <5>1. CASE o.paper \in DOMAIN p
          BY <2>4, <5>1 DEF PositionOf
        <5>2. CASE o.paper \notin DOMAIN p
          BY <5>2, NoneNumbered DEF PositionOf, NoPosition
        <5> QED BY <5>1, <5>2
      <4>3. NumberedBy(q[o.paper].lots, M(o.paper) \cup NumbersOf(o))
        BY <2>2, <4>1, <4>2, Zenon DEF Joins
      <4>4. NumberedBy(q[o.paper].lots, N(o.paper))
        BY <2>1, <4>3
      <4>5. ASSUME NEW x \in DOMAIN q, x # o.paper PROVE NumberedBy(q[x].lots, N(x))
        <5>1. x \in DOMAIN p /\ q[x] = p[x]
          BY <4>1, <4>5
        <5> QED BY <2>3, <2>4, <5>1
      <4> QED BY <4>4, <4>5
    <3> QED BY <3>1, <3>2
  <2> QED BY <2>5 DEF q, N
<1>4. \A i \in 1..n : i - 1 \in G => i \in G
  BY <1>1, <1>3
<1>5. \A i \in 0..n : i \in G
  <2> HIDE DEF G
  <2> QED BY <1>1, <1>2, <1>4, Climbing
<1> QED BY <1>1, <1>5

-----------------------------------------------------------------------------
(* What the fold of typed rows answers is typed. *)

\* Rows the engine may be given: columns read back, each row once.
Readable(S) ==
  /\ IsFiniteSet(S) /\ OwnIds(S)
  /\ \A r \in S : IsEntry(r) /\ {r.id, r.at, r.stamp} \subseteq Int

LEMMA ReadableRows ==
  ASSUME NEW S, Readable(S), NEW T \in SUBSET S
  PROVE  Readable(T)
<1>1. IsFiniteSet(T)
  BY FS_Subset DEF Readable
<1> QED BY <1>1 DEF Readable, OwnIds

LEMMA ReadsDaily ==
  ASSUME NEW S, Readable(S)
  PROVE  /\ Daily(Sorted(S)) /\ Len(Sorted(S)) = Cardinality(S)
         /\ DOMAIN Sorted(S) = 1..Len(Sorted(S))
         /\ \A i \in 1..Len(Sorted(S)) : Sorted(S)[i] \in S
         /\ \A i, j \in 1..Len(Sorted(S)) : Sorted(S)[i] = Sorted(S)[j] => i = j
         /\ \A r \in S : \E i \in 1..Len(Sorted(S)) : Sorted(S)[i] = r
<1>1. /\ IsFiniteSet(S) /\ OwnIds(S)
      /\ \A r \in S : Placed(r) /\ Entry(r)
  BY DEF Readable, Placed, Entry, IsEntry
<1>2. /\ Len(Sorted(S)) = Cardinality(S) /\ Cardinality(S) \in Nat
      /\ DOMAIN Sorted(S) = 1..Cardinality(S)
      /\ \A i \in 1..Cardinality(S) : Sorted(S)[i] \in S
      /\ \A i, j \in 1..Cardinality(S) : Sorted(S)[i] = Sorted(S)[j] => i = j
      /\ \A r \in S : \E i \in 1..Cardinality(S) : Sorted(S)[i] = r
      /\ \A i, j \in 1..Cardinality(S) : i <= j => Sorted(S)[i].day <= Sorted(S)[j].day
  BY <1>1, SortedIs
<1>3. Daily(Sorted(S))
  BY <1>1, <1>2 DEF Daily
<1> QED BY <1>2, <1>3

\* What came before a place of a journal is one.
LEMMA DailyAhead ==
  ASSUME NEW O, Daily(O), NEW m \in 0..Len(O)
  PROVE  Daily(SubSeq(O, 1, m))
<1> DEFINE s == SubSeq(O, 1, m)
<1>1. Len(s) = m /\ \A i \in 1..m : s[i] = O[i]
  BY DEF Daily
<1> HIDE DEF s
<1>2. Len(O) \in Nat /\ m \in Nat /\ \A i \in 1..m : i \in 1..Len(O)
  BY DEF Daily
<1>3. \A i \in 1..Len(s) : Entry(s[i])
  BY <1>1, <1>2 DEF Daily
<1>4. \A i, j \in 1..Len(s) : i <= j => s[i].day <= s[j].day
  BY <1>1, <1>2 DEF Daily
<1>5. Daily(s)
  BY <1>1, <1>2, <1>3, <1>4 DEF Daily
<1> QED BY <1>5 DEF s

\* A journal that folds is a book of positions.
LEMMA BookIs ==
  ASSUME NEW O, Daily(O), Replays(O)
  PROVE  \E d \in Nat : IsBook(Compute(O).pos, d)
<1>1. PICK b : BookChain(O, b) /\ Compute(O).pos = b[Len(O)]
  BY JournalFolds
<1>2. Len(O) \in 0..Len(O)
  BY DEF Daily
<1>3. IsBook(b[Len(O)], DayAt(O, Len(O)))
  BY <1>1, <1>2 DEF BookChain
<1>4. DayAt(O, Len(O)) \in Nat
  BY <1>2, DaysAre
<1> QED BY <1>1, <1>3, <1>4

LEMMA ReleasedIs ==
  ASSUME NEW O, Daily(O), NEW paper, NEW qty \in Nat \ {0}, ReleasedLots(O, paper, qty).ok
  PROVE  LET r == ReleasedLots(O, paper, qty)
         IN /\ r.pieces \in Seq(Piece) /\ LotsUnits(r.pieces) = qty
            /\ Quantize(r.pieces, qty) \in Seq(Piece) /\ Quantize(r.pieces, qty) # <<>>
<1> DEFINE c == Compute(O)
           p == c.pos[paper]
           held == c.ok /\ PositionOf(c.pos, paper).seen
           r == ReleasedLots(O, paper, qty)
           none == [ok |-> FALSE, pos |-> NoPosition, pieces |-> <<>>]
<1>1. r = IF held THEN ReleaseFIFO(p, qty) ELSE none
  BY Zenon DEF ReleasedLots
<1> HIDE DEF r
<1>2. held /\ r = ReleaseFIFO(p, qty)
  <2>1. ~none.ok
    OBVIOUS
  <2> HIDE DEF held, none
  <2>2. held
    BY <1>1, <2>1, Zenon DEF r
  <2> QED BY <1>1, <2>2
<1>3. paper \in DOMAIN c.pos
  <2>1. ~NoPosition.seen
    BY DEF NoPosition
  <2> HIDE DEF c
  <2> QED BY <1>2, <2>1, Zenon DEF PositionOf
<1>4. PICK d \in Nat : IsPosition(p, d)
  <2>1. Replays(O)
    BY <1>2 DEF Replays
  <2>2. PICK d \in Nat : IsBook(c.pos, d)
    BY <2>1, BookIs
  <2> QED BY <1>3, <2>2 DEF IsBook
<1>5. r.ok
  BY DEF r
<1> HIDE DEF p
<1>6. r.pieces \in Seq(Piece) /\ LotsUnits(r.pieces) = qty
  BY <1>2, <1>4, <1>5, ReleaseIs
<1> DEFINE s == r.pieces
<1>7. Quantize(s, qty) \in Seq(Piece) /\ Quantize(s, qty) # <<>>
  <2>1. s \in Seq(Piece) /\ LotsUnits(s) = qty
    BY <1>6
  <2> HIDE DEF s
  <2> QED BY <2>1, QuantizeIs
<1> QED BY <1>6, <1>7 DEF r

LEMMA ReleaseOfRows ==
  ASSUME NEW S, Readable(S), NEW paper, NEW qty \in Nat \ {0}, Release(S, paper, qty).ok
  PROVE  Release(S, paper, qty).lots \in Seq(Piece) /\ Release(S, paper, qty).lots # <<>>
<1> DEFINE O == Sorted(S)
           r == ReleasedLots(O, paper, qty)
           lots == Quantize(r.pieces, qty)
           x == Release(S, paper, qty)
<1>1. x = [ok |-> r.ok, lots |-> lots]
  BY Zenon DEF Release
<1> HIDE DEF lots, x
<1>2. x.lots = lots /\ x.ok = r.ok
  <2> DEFINE ok == r.ok
  <2>1. x = [ok |-> ok, lots |-> lots]
    BY <1>1
  <2> HIDE DEF ok
  <2>2. x.lots = lots /\ x.ok = ok
    BY <2>1, Zenon
  <2> QED BY <2>2 DEF ok
<1>3. Daily(O) /\ r.ok
  BY <1>2, ReadsDaily DEF x
<1> HIDE DEF O
<1>4. lots \in Seq(Piece) /\ lots # <<>>
  BY <1>3, ReleasedIs DEF lots
<1> QED BY <1>2, <1>4 DEF x

LEMMA CurrencyIs ==
  ASSUME NEW S, Readable(S), NEW paper
  PROVE  CurrencyOf(S, paper) \in Int
<1> DEFINE T == {r \in S : r.paper = paper}
           O == Sorted(T)
<1>1. Readable(T)
  BY ReadableRows
<1>2. CurrencyOf(S, paper) = IF O = <<>> THEN 0 ELSE O[Len(O)].cur
  BY Zenon DEF CurrencyOf
<1> HIDE DEF T
<1>3. /\ Len(O) \in Nat /\ DOMAIN O = 1..Len(O)
      /\ \A i \in 1..Len(O) : IsEntry(O[i])
  BY <1>1, ReadsDaily DEF Readable, Daily
<1>4. PICK f : O = [i \in 1..Cardinality(T) |-> f[i]]
  <2> DEFINE Ahead(r) == {y \in T : FoldsBefore(y, r) \/ (~FoldsBefore(r, y) /\ y.id < r.id)}
             g(i) == CHOOSE r \in T : 1 + Cardinality(Ahead(r)) = i
             f == [i \in 1..Cardinality(T) |-> g(i)]
  <2>1. O = f
    BY Zenon DEF Sorted
  <2>2. f = [i \in 1..Cardinality(T) |-> f[i]]
    <3> HIDE DEF g
    <3> QED OBVIOUS
  <2> QED BY <2>1, <2>2, Zenon
<1> HIDE DEF O
<1>5. O # <<>> => Len(O) # 0
  <2>1. Cardinality(T) = Len(O)
    BY <1>1, ReadsDaily DEF O
  <2> SUFFICES ASSUME Len(O) = 0 PROVE O = <<>>
    OBVIOUS
  <2>2. 1..Cardinality(T) = {}
    BY <2>1
  <2> QED BY <1>4, <2>2
<1>6. O # <<>> => O[Len(O)].cur \in Int
  BY <1>3, <1>5 DEF IsEntry
<1> QED BY <1>2, <1>6

-----------------------------------------------------------------------------
(* Columns. *)

\* What is kept of a sequence is of its kind.
LEMMA OnlyTyped ==
  ASSUME NEW S, NEW s \in Seq(S), NEW keep
  PROVE  Only(s, keep) \in Seq(S)
<1> DEFINE m == Len(s)
<1>1. PICK f : /\ DOMAIN f = 0..m /\ f[0] = <<>> /\ Only(s, keep) = f[m]
               /\ \A i \in 1..m : f[i] = IF i \in keep THEN Append(f[i - 1], s[i]) ELSE f[i - 1]
  BY OnlyWalks
<1> DEFINE G == {i \in 0..m : f[i] \in Seq(S)}
<1>2. m \in Nat /\ \A i \in 1..m : s[i] \in S
  OBVIOUS
<1>3. 0 \in G
  BY <1>1, <1>2
<1>4. \A i \in 1..m : i - 1 \in G => i \in G
  <2> SUFFICES ASSUME NEW i \in 1..m, f[i - 1] \in Seq(S) PROVE f[i] \in Seq(S)
    BY <1>2
  <2> DEFINE g == f[i - 1]
             e == s[i]
  <2>1. g \in Seq(S) /\ e \in S
    BY <1>2
  <2>2. f[i] = g \/ f[i] = Append(g, e)
    BY <1>1
  <2> HIDE DEF g, e
  <2>3. Append(g, e) \in Seq(S)
    BY <2>1
  <2> QED BY <2>1, <2>2, <2>3
<1>5. \A i \in 0..m : i \in G
  <2> HIDE DEF G, m
  <2> QED BY <1>2, <1>3, <1>4, Climbing
<1>6. m \in 0..m
  BY <1>2
<1> QED BY <1>1, <1>5, <1>6

LEMMA PieceColumnsAre ==
  /\ Seq(Piece) \subseteq Seq(PieceColumns) /\ <<>> \in Seq(PieceColumns)
  /\ \A lots \in Seq(PieceColumns) : LotsCost(lots) \in Int
<1>1. Piece \subseteq PieceColumns
  BY DEF Piece, PieceColumns
<1>2. Seq(Piece) \subseteq Seq(PieceColumns) /\ <<>> \in Seq(PieceColumns)
  BY <1>1
<1>3. ASSUME NEW lots \in Seq(PieceColumns) PROVE LotsCost(lots) \in Int
  <2>1. /\ Len(lots) \in Nat /\ DOMAIN lots = 1..Len(lots)
        /\ \A i \in 1..Len(lots) : lots[i] \in PieceColumns
    OBVIOUS
  <2>2. \A i \in 1..Len(lots) : lots[i].cost \in Int
    BY <2>1 DEF PieceColumns
  <2>3. Costs(lots) = [i \in 1..Len(lots) |-> lots[i].cost]
    BY <2>1 DEF Costs
  <2>4. Costs(lots) \in Seq(Int)
    BY <2>1, <2>2, <2>3
  <2> QED BY <2>4, TotalIs DEF LotsCost
<1> QED BY <1>2, <1>3

\* A breakdown restated in another number of units is one.
LEMMA RescaleIs ==
  ASSUME NEW pieces \in Seq(PieceColumns), NEW from \in Nat \ {0}, NEW to \in Int
  PROVE  Rescale(pieces, from, to) \in Seq(PieceColumns)
<1> DEFINE before == Prefix(Units(pieces))
           withUnits == {i \in DOMAIN pieces : pieces[i].qty > 0}
           UpTo(i) == IF i = 0 THEN 0
                      ELSE IF i \in withUnits /\ \A j \in withUnits : j <= i THEN to
                      ELSE (before[i] * to) \div from
           x(i) == [pieces[i] EXCEPT !.qty = UpTo(i) - UpTo(i - 1)]
           scaled == [i \in DOMAIN pieces |-> x(i)]
<1>1. Rescale(pieces, from, to) = Unspent(scaled)
  BY Zenon DEF Rescale
<1>2. /\ Len(pieces) \in Nat /\ DOMAIN pieces = 1..Len(pieces)
      /\ \A i \in 1..Len(pieces) : pieces[i] \in PieceColumns
  OBVIOUS
<1>3. \A i \in 0..Len(pieces) : before[i] \in Int
  <2>1. \A i \in 1..Len(pieces) : pieces[i].qty \in Int
    BY <1>2 DEF PieceColumns
  <2>2. Units(pieces) = [i \in 1..Len(pieces) |-> pieces[i].qty]
    BY <1>2 DEF Units
  <2>3. Units(pieces) \in Seq(Int) /\ Len(Units(pieces)) = Len(pieces)
    BY <1>2, <2>1, <2>2
  <2> QED BY <2>3, PrefixIs
<1> HIDE DEF before, withUnits
<1>4. \A i \in 0..Len(pieces) : UpTo(i) \in Int
  <2> TAKE i \in 0..Len(pieces)
  <2> DEFINE u == before[i] * to
  <2>1. u \in Int
    BY <1>3
  <2> HIDE DEF u
  <2>2. u \div from \in Int
    BY <2>1
  <2>3. UpTo(i) \in {0, to, u \div from}
    BY Zenon DEF u
  <2> HIDE DEF UpTo
  <2> QED BY <2>2, <2>3
<1> HIDE DEF UpTo
<1>5. ASSUME NEW i \in 1..Len(pieces) PROVE x(i) \in PieceColumns
  <2> DEFINE y == pieces[i]
             k == UpTo(i) - UpTo(i - 1)
  <2>1. y \in PieceColumns /\ k \in Int
    BY <1>2, <1>4
  <2> HIDE DEF y, k
  <2>2. [y EXCEPT !.qty = k] \in PieceColumns
    BY <2>1 DEF PieceColumns
  <2> QED BY <2>2 DEF y, k
<1> HIDE DEF x
<1>6. scaled \in Seq(PieceColumns)
  <2>1. scaled = [i \in 1..Len(pieces) |-> x(i)]
    BY <1>2
  <2> QED BY <1>2, <1>5, <2>1
<1> HIDE DEF scaled
<1> QED BY <1>1, <1>6, OnlyTyped DEF Unspent

\* A row with the numbers of an entry is one.
LEMMA LikeEntry ==
  ASSUME NEW y, IsEntry(y), NEW x, IsRow(x), x.qty \in Int, x.amount \in Int,
         x.cur = y.cur, x.ext = y.ext, x.face = y.face, x.fee = y.fee, x.day = y.day,
         x.ratio = y.ratio, x.lots \in Seq(PieceColumns)
  PROVE  IsEntry(x)
BY DEF IsEntry

EntryColumns ==
  {"qty", "amount", "cur", "ext", "face", "fee", "day", "ratio", "lots", "id", "stamp",
   "group", "acct", "typ", "paper", "src", "at"}

LEMMA EntryHasColumns ==
  ASSUME NEW r, IsRow(r)
  PROVE  EntryColumns \subseteq DOMAIN r
BY DEF IsRow, Blank, EntryColumns

\* An entry told another breakdown.
LEMMA EntryTold ==
  ASSUME NEW y, IsEntry(y), NEW lots \in Seq(PieceColumns), NEW amount \in Int
  PROVE  LET x == [y EXCEPT !.lots = lots, !.amount = amount]
         IN IsEntry(x) /\ x.id = y.id /\ x.stamp = y.stamp /\ x.acct = y.acct /\ x.at = y.at
<1> DEFINE x == [y EXCEPT !.lots = lots, !.amount = amount]
<1>1. IsRow(y) /\ EntryColumns \subseteq DOMAIN y /\ y.qty \in Int
  BY EntryHasColumns DEF IsEntry
<1>2. /\ IsRow(x) /\ x.qty = y.qty /\ x.amount = amount /\ x.lots = lots
      /\ x.cur = y.cur /\ x.ext = y.ext /\ x.face = y.face /\ x.fee = y.fee /\ x.day = y.day
      /\ x.ratio = y.ratio /\ x.id = y.id /\ x.stamp = y.stamp /\ x.acct = y.acct /\ x.at = y.at
  BY <1>1, ZenonT(30) DEF IsRow, EntryColumns
<1> HIDE DEF x
<1>3. IsEntry(x)
  BY <1>1, <1>2, LikeEntry
<1> QED BY <1>2, <1>3 DEF x

\* An entry numbered and stamped.
LEMMA EntryStored ==
  ASSUME NEW y, IsEntry(y), NEW i, NEW s
  PROVE  IsEntry([y EXCEPT !.id = i, !.stamp = s])
<1> DEFINE x == [y EXCEPT !.id = i, !.stamp = s]
<1>1. /\ IsRow(y) /\ EntryColumns \subseteq DOMAIN y
      /\ y.qty \in Int /\ y.amount \in Int /\ y.lots \in Seq(PieceColumns)
  BY EntryHasColumns DEF IsEntry
<1>2. /\ IsRow(x) /\ x.qty = y.qty /\ x.amount = y.amount /\ x.lots = y.lots
      /\ x.cur = y.cur /\ x.ext = y.ext /\ x.face = y.face /\ x.fee = y.fee /\ x.day = y.day
      /\ x.ratio = y.ratio
  BY <1>1, ZenonT(30) DEF IsRow, EntryColumns
<1> HIDE DEF x
<1>3. IsEntry(x)
  BY <1>1, <1>2, LikeEntry
<1> QED BY <1>3 DEF x

LEMMA EntryPlaced ==
  ASSUME NEW y, IsEntry(y), NEW s
  PROVE  /\ IsEntry([y EXCEPT !.stamp = s])
         /\ IsEntry([y EXCEPT !.group = s]) /\ [y EXCEPT !.group = s].lots = y.lots
<1> DEFINE x == [y EXCEPT !.stamp = s]
           z == [y EXCEPT !.group = s]
<1>1. /\ IsRow(y) /\ EntryColumns \subseteq DOMAIN y
      /\ y.qty \in Int /\ y.amount \in Int /\ y.lots \in Seq(PieceColumns)
  BY EntryHasColumns DEF IsEntry
<1>2. /\ IsRow(x) /\ x.qty = y.qty /\ x.amount = y.amount /\ x.lots = y.lots
      /\ x.cur = y.cur /\ x.ext = y.ext /\ x.face = y.face /\ x.fee = y.fee /\ x.day = y.day
      /\ x.ratio = y.ratio
  BY <1>1, ZenonT(30) DEF IsRow, EntryColumns
<1>3. /\ IsRow(z) /\ z.qty = y.qty /\ z.amount = y.amount /\ z.lots = y.lots
      /\ z.cur = y.cur /\ z.ext = y.ext /\ z.face = y.face /\ z.fee = y.fee /\ z.day = y.day
      /\ z.ratio = y.ratio
  BY <1>1, ZenonT(30) DEF IsRow, EntryColumns
<1> HIDE DEF x, z
<1>4. IsEntry(x)
  BY <1>1, <1>2, LikeEntry
<1>5. IsEntry(z)
  BY <1>1, <1>3, LikeEntry
<1> QED BY <1>3, <1>4, <1>5 DEF x, z

-----------------------------------------------------------------------------
(* What the entries of the service write holds what columns hold. *)

LEMMA BlankNumbers ==
  /\ IsRow(Blank) /\ EntryColumns \subseteq DOMAIN Blank
  /\ Blank.ext = 0 /\ Blank.face = 0 /\ Blank.fee = 0 /\ Blank.ratio = <<1, 1>>
  /\ Blank.qty = 0 /\ Blank.amount = 0 /\ Blank.lots = <<>> /\ Blank.cur = 1
<1>1. IsRow(Blank)
  BY DEF IsRow
<1>2. /\ Blank.ext = 0 /\ Blank.face = 0 /\ Blank.fee = 0 /\ Blank.ratio = <<1, 1>>
      /\ Blank.qty = 0 /\ Blank.amount = 0 /\ Blank.lots = <<>> /\ Blank.cur = 1
  BY DEF Blank
<1> QED BY <1>1, <1>2, EntryHasColumns, Zenon

\* A row of no record, for no fee.
Plain(x) == IsRow(x) /\ x.ext = 0 /\ x.face = 0 /\ x.fee = 0 /\ x.ratio = <<1, 1>>

LEMMA PlainEntry ==
  ASSUME NEW x, Plain(x), x.qty \in Int, x.amount \in Int, x.cur \in Int,
         x.day \in Nat \ {0}, x.lots \in Seq(PieceColumns)
  PROVE  IsEntry(x)
<1>1. x.ratio \in Int \X (Nat \ {0})
  BY DEF Plain
<1> QED BY <1>1 DEF Plain, IsEntry

\* The legs of a transfer.
LEMMA TransferLegsAre ==
  ASSUME NEW p, p.day \in Nat \ {0}, p.qty \in Int, NEW cur \in Int,
         NEW lots \in Seq(PieceColumns), NEW amount \in Int
  PROVE  LET legs == TransferLegs(p, cur, lots, amount) IN IsEntry(legs.out) /\ IsEntry(legs.in)
<1> DEFINE legs == TransferLegs(p, cur, lots, amount)
           o == legs.out
           i == legs.in
<1>1. /\ Plain(o) /\ o.day = p.day /\ o.qty = p.qty /\ o.cur = cur /\ o.lots = lots /\ o.amount = amount
  BY BlankNumbers, ZenonT(30) DEF TransferLegs, Plain, IsRow, EntryColumns
<1>2. i = [o EXCEPT !.acct = p.to, !.typ = "transfer_in"]
  BY Zenon DEF TransferLegs
<1> HIDE DEF o, i, legs
<1>3. EntryColumns \subseteq DOMAIN o
  BY <1>1, EntryHasColumns, Zenon DEF Plain
<1>4. /\ Plain(i) /\ i.day = o.day /\ i.qty = o.qty /\ i.cur = o.cur /\ i.lots = o.lots
      /\ i.amount = o.amount
  BY <1>1, <1>2, <1>3, ZenonT(30) DEF Plain, IsRow, EntryColumns
<1>5. IsEntry(o) /\ IsEntry(i)
  BY <1>1, <1>4, PlainEntry
<1> QED BY <1>5 DEF o, i, legs

\* The legs of a transfer of money.
LEMMA MoneyLegsAre ==
  ASSUME NEW p, p.day \in Nat \ {0}, p.amount \in Int, p.cur \in Int,
         p.received \in Int, p.receivedCur \in Int
  PROVE  LET out == [Blank EXCEPT !.acct = p.from, !.typ = "withdrawal", !.day = p.day,
                                  !.amount = -p.amount, !.cur = p.cur]
             in  == [Blank EXCEPT !.acct = p.to, !.typ = "deposit", !.day = p.day,
                                  !.amount = p.received, !.cur = p.receivedCur]
         IN IsEntry(out) /\ IsEntry(in)
<1> DEFINE sent == -p.amount
           o == [Blank EXCEPT !.acct = p.from, !.typ = "withdrawal", !.day = p.day,
                              !.amount = sent, !.cur = p.cur]
           i == [Blank EXCEPT !.acct = p.to, !.typ = "deposit", !.day = p.day,
                              !.amount = p.received, !.cur = p.receivedCur]
<1>1. sent \in Int /\ 0 \in Int /\ <<>> \in Seq(PieceColumns)
  BY PieceColumnsAre
<1> HIDE DEF sent
<1>2. Plain(o) /\ o.day = p.day /\ o.qty = 0 /\ o.cur = p.cur /\ o.lots = <<>> /\ o.amount = sent
  BY BlankNumbers, ZenonT(30) DEF Plain, IsRow, EntryColumns
<1>3. Plain(i) /\ i.day = p.day /\ i.qty = 0 /\ i.cur = p.receivedCur /\ i.lots = <<>> /\ i.amount = p.received
  BY BlankNumbers, ZenonT(30) DEF Plain, IsRow, EntryColumns
<1> HIDE DEF o, i
<1>4. IsEntry(o)
  BY <1>1, <1>2, PlainEntry
<1>5. IsEntry(i)
  BY <1>1, <1>3, PlainEntry
<1> QED BY <1>4, <1>5 DEF o, i, sent

\* An arrival.
LEMMA ArrivalRowIs ==
  ASSUME NEW p, p.day \in Nat \ {0}, p.qty \in Int, p.cur \in Int, p.pieces \in Seq(PieceColumns)
  PROVE  IsEntry([Blank EXCEPT !.acct = p.acct, !.typ = "transfer_in", !.paper = p.paper,
                    !.day = p.day, !.qty = p.qty, !.cur = p.cur, !.lots = p.pieces,
                    !.amount = LotsCost(p.pieces)])
<1> DEFINE cost == LotsCost(p.pieces)
           o == [Blank EXCEPT !.acct = p.acct, !.typ = "transfer_in", !.paper = p.paper,
                    !.day = p.day, !.qty = p.qty, !.cur = p.cur, !.lots = p.pieces,
                    !.amount = cost]
<1>1. cost \in Int
  BY PieceColumnsAre
<1> HIDE DEF cost
<1>2. /\ Plain(o) /\ o.day = p.day /\ o.qty = p.qty /\ o.cur = p.cur /\ o.lots = p.pieces
      /\ o.amount = cost
  BY BlankNumbers, ZenonT(30) DEF Plain, IsRow, EntryColumns
<1> HIDE DEF o
<1>3. IsEntry(o)
  BY <1>1, <1>2, PlainEntry
<1> QED BY <1>3 DEF o, cost

\* The legs of a conversion.
LEMMA ExchangeLegsAre ==
  ASSUME NEW p, p.day \in Nat \ {0}, p.qty \in Int, p.toQty \in Int, NEW cur \in Int,
         NEW r, r.ok => r.lots \in Seq(PieceColumns),
         ExchangeLegs(p, cur, r).ok
  PROVE  LET b == ExchangeLegs(p, cur, r) IN IsEntry(b.out) /\ IsEntry(b.in)
<1> DEFINE b == ExchangeLegs(p, cur, r)
           o == b.out
           i == b.in
           cost == LotsCost(r.lots)
           rescaled == Rescale(r.lots, p.qty, p.toQty)
<1>1. p.qty > 0 /\ r.ok
  BY Zenon DEF ExchangeLegs
<1>2. cost \in Int /\ rescaled \in Seq(PieceColumns) /\ r.lots \in Seq(PieceColumns)
  <2>1. p.qty \in Nat \ {0} /\ r.lots \in Seq(PieceColumns)
    BY <1>1
  <2>2. cost \in Int
    BY <2>1, PieceColumnsAre
  <2>3. rescaled \in Seq(PieceColumns)
    BY <2>1, RescaleIs
  <2> QED BY <2>1, <2>2, <2>3
<1>3. /\ Plain(o) /\ o.day = p.day /\ o.qty = p.qty /\ o.cur = cur /\ o.lots = r.lots
      /\ o.amount = cost
  BY BlankNumbers, ZenonT(30) DEF ExchangeLegs, Plain, IsRow, EntryColumns
<1>4. i = [o EXCEPT !.typ = "exchange_in", !.paper = p.to, !.qty = p.toQty,
                    !.lots = Rescale(@, p.qty, p.toQty)]
  BY Zenon DEF ExchangeLegs
<1>5. EntryColumns \subseteq DOMAIN o
  BY <1>3, EntryHasColumns, Zenon DEF Plain
<1> HIDE DEF o, i, b, cost
<1>6. i = [o EXCEPT !.typ = "exchange_in", !.paper = p.to, !.qty = p.toQty, !.lots = rescaled]
  BY <1>3, <1>4, <1>5, ZenonT(30) DEF EntryColumns
<1> HIDE DEF rescaled
<1>7. /\ Plain(i) /\ i.day = o.day /\ i.qty = p.toQty /\ i.cur = o.cur /\ i.lots = rescaled
      /\ i.amount = o.amount
  BY <1>3, <1>5, <1>6, ZenonT(30) DEF Plain, IsRow, EntryColumns
<1>8. IsEntry(o)
  BY <1>2, <1>3, PlainEntry
<1>9. IsEntry(i)
  BY <1>2, <1>3, <1>7, PlainEntry
<1> QED BY <1>8, <1>9 DEF o, i, b

\* The legs of a spin-off.
LEMMA SpinoffLegsAre ==
  ASSUME NEW p, p.day \in Nat \ {0}, p.ratio \in (Nat \ {0}) \X (Nat \ {0}),
         NEW held, held.qty \in Nat, held.cur \in Int, NEW pieces \in Seq(PieceColumns),
         SpinoffLegs(p, held, pieces).ok
  PROVE  LET b == SpinoffLegs(p, held, pieces) IN IsEntry(b.out) /\ IsEntry(b.in)
<1> DEFINE toQty == (held.qty * p.ratio[1]) \div p.ratio[2]
           b == SpinoffLegs(p, held, pieces)
           o == b.out
           i == b.in
           cost == LotsCost(pieces)
           rescaled == Rescale(pieces, held.qty, toQty)
<1>1. held.qty > 0 
  BY Zenon DEF SpinoffLegs
<1>2. toQty \in Int
  BY <1>1
<1> HIDE DEF toQty
<1>3. cost \in Int /\ rescaled \in Seq(PieceColumns)
  <2>1. held.qty \in Nat \ {0}
    BY <1>1
  <2>2. cost \in Int
    BY PieceColumnsAre
  <2>3. rescaled \in Seq(PieceColumns)
    BY <1>2, <2>1, RescaleIs
  <2> QED BY <2>2, <2>3
<1>4. /\ Plain(o) /\ o.day = p.day /\ o.qty = 0 /\ o.cur = held.cur /\ o.lots = pieces
      /\ o.amount = cost
  BY BlankNumbers, ZenonT(30) DEF SpinoffLegs, Plain, IsRow, EntryColumns
<1>5. i = [o EXCEPT !.typ = "spinoff_in", !.paper = p.to, !.qty = toQty,
                    !.lots = Rescale(@, held.qty, toQty)]
  BY Zenon DEF SpinoffLegs, toQty
<1>6. EntryColumns \subseteq DOMAIN o
  BY <1>4, EntryHasColumns, Zenon DEF Plain
<1> HIDE DEF o, i, b, cost
<1>7. i = [o EXCEPT !.typ = "spinoff_in", !.paper = p.to, !.qty = toQty, !.lots = rescaled]
  BY <1>4, <1>5, <1>6, ZenonT(30) DEF EntryColumns
<1> HIDE DEF rescaled
<1>8. /\ Plain(i) /\ i.day = o.day /\ i.qty = toQty /\ i.cur = o.cur /\ i.lots = rescaled
      /\ i.amount = o.amount
  BY <1>4, <1>6, <1>7, ZenonT(30) DEF Plain, IsRow, EntryColumns
<1>9. IsEntry(o)
  BY <1>3, <1>4, PlainEntry
<1>10. IsEntry(i)
  BY <1>2, <1>3, <1>4, <1>8, PlainEntry
<1> QED BY <1>9, <1>10 DEF o, i, b

\* Rows of a hand entry, as they are stored.
LEMMA StoredColumns ==
  ASSUME NEW legs, \A i \in DOMAIN legs : IsEntry(legs[i]), NEW c, NEW r \in Stored(c, legs)
  PROVE  IsEntry(r)
<1>1. PICK i \in DOMAIN legs : r = [legs[i] EXCEPT !.id = c + i, !.stamp = c + i]
  BY DEF Stored
<1> DEFINE y == legs[i]
           k == c + i
<1>2. IsEntry(y) /\ r = [y EXCEPT !.id = k, !.stamp = k]
  BY <1>1
<1> HIDE DEF y, k
<1> QED BY <1>2, EntryStored

LEMMA PairColumns ==
  ASSUME NEW out, IsEntry(out), NEW in, IsEntry(in), NEW c, NEW r \in Stored(c, Pair(c, out, in))
  PROVE  IsEntry(r)
<1> DEFINE k == c + 1
           legs == <<[out EXCEPT !.group = k], [in EXCEPT !.group = k]>>
<1>1. Pair(c, out, in) = legs
  BY DEF Pair
<1>2. \A i \in DOMAIN legs : IsEntry(legs[i])
  <2> HIDE DEF k
  <2>1. IsEntry([out EXCEPT !.group = k]) /\ IsEntry([in EXCEPT !.group = k])
    BY EntryPlaced
  <2> QED BY <2>1
<1> HIDE DEF legs
<1> QED BY <1>1, <1>2, StoredColumns

-----------------------------------------------------------------------------
(* What an importer's delta writes holds what columns hold. *)

LEMMA ReadableGrows ==
  ASSUME NEW P, Readable(P), NEW b \in Int, \A x \in P : x.id <= b,
         NEW S, Readable(S), \A x \in S : x.id > b
  PROVE  Readable(P \cup S)
<1>1. IsFiniteSet(P \cup S)
  BY FS_Union DEF Readable
<1>2. \A x \in P, y \in S : x.id # y.id
  BY DEF Readable
<1>3. OwnIds(P \cup S)
  BY <1>2 DEF Readable, OwnIds
<1> QED BY <1>1, <1>3 DEF Readable

\* Legs numbered on from b that hold what columns hold.
Offerable(legs, b) ==
  /\ b \in Int /\ 1 \in DOMAIN legs /\ DOMAIN legs \subseteq {1, 2}
  /\ \A k \in DOMAIN legs :
       /\ IsEntry(legs[k]) /\ {legs[k].at, legs[k].stamp} \subseteq Int
       /\ legs[k].id = b + k

LEMMA LegsReadable ==
  ASSUME NEW legs, NEW b, Offerable(legs, b)
  PROVE  Readable(LegSet(legs)) /\ \A x \in LegSet(legs) : x.id > b /\ x.id <= b + 2
<1>1. LegSet(legs) = {legs[k] : k \in DOMAIN legs}
  BY DEF LegSet
<1>2. IsFiniteSet(LegSet(legs))
  <2>1. IsFiniteSet({legs[1]} \cup {legs[2]})
    BY FS_Singleton, FS_Union
  <2>2. LegSet(legs) \subseteq {legs[1]} \cup {legs[2]}
    BY <1>1 DEF Offerable
  <2> QED BY <2>1, <2>2, FS_Subset
<1>3. OwnIds(LegSet(legs))
  BY <1>1 DEF OwnIds, Offerable
<1>4. \A x \in LegSet(legs) : /\ IsEntry(x) /\ {x.id, x.at, x.stamp} \subseteq Int
                              /\ x.id > b /\ x.id <= b + 2
  <2> TAKE x \in LegSet(legs)
  <2>1. PICK k \in DOMAIN legs : x = legs[k]
    BY <1>1
  <2>2. k \in {1, 2} /\ b \in Int
    BY DEF Offerable
  <2> QED BY <2>1, <2>2 DEF Offerable
<1> QED BY <1>2, <1>3, <1>4 DEF Readable

LEMMA ToldOfferable ==
  ASSUME NEW legs, NEW b, Offerable(legs, b), NEW lots \in Seq(PieceColumns)
  PROVE  Offerable(OnEveryLeg(legs, lots), b)
<1> DEFINE w == OnEveryLeg(legs, lots)
           c == LotsCost(lots)
<1>1. c \in Int
  BY PieceColumnsAre
<1>2. DOMAIN w = DOMAIN legs /\ \A k \in DOMAIN legs : w[k] = [legs[k] EXCEPT !.lots = lots, !.amount = c]
  BY Zenon DEF OnEveryLeg
<1> HIDE DEF w, c
<1>3. ASSUME NEW k \in DOMAIN legs
      PROVE  /\ IsEntry(w[k]) /\ {w[k].at, w[k].stamp} \subseteq Int
             /\ w[k].id = b + k
  <2> DEFINE y == legs[k]
             x == [y EXCEPT !.lots = lots, !.amount = c]
  <2>1. IsEntry(y) /\ {y.at, y.stamp} \subseteq Int /\ y.id = b + k
    BY DEF Offerable
  <2> HIDE DEF y
  <2>2. IsEntry(x) /\ x.id = y.id /\ x.stamp = y.stamp /\ x.acct = y.acct /\ x.at = y.at
    BY <1>1, <2>1, EntryTold
  <2>3. w[k] = x
    BY <1>2 DEF y
  <2> QED BY <2>1, <2>2, <2>3
<1> QED BY <1>2, <1>3 DEF Offerable, w

\* What the next candidate finds.
Pending(P, b) == Readable(P) /\ \A x \in P : x.id <= b

LEMMA PendingGrows ==
  ASSUME NEW P, NEW b, Pending(P, b), NEW legs, Offerable(legs, b)
  PROVE  Pending(P \cup LegSet(legs), b + 2)
<1>1. b \in Int
  BY DEF Offerable
<1>2. Readable(LegSet(legs)) /\ \A x \in LegSet(legs) : x.id > b /\ x.id <= b + 2
  BY LegsReadable
<1>3. Readable(P \cup LegSet(legs))
  BY <1>1, <1>2, ReadableGrows DEF Pending
<1>4. \A x \in P : x.id <= b + 2
  BY <1>1 DEF Pending, Readable
<1> QED BY <1>2, <1>3, <1>4 DEF Pending

LEMMA PendingStays ==
  ASSUME NEW P, NEW b \in Int, Pending(P, b)
  PROVE  Pending(P, b + 2)
BY DEF Pending, Readable

\* A parcel is released from the rows ahead of it.
LEMMA BasisReleased ==
  ASSUME NEW P, NEW b, Pending(P, b), NEW legs, Offerable(legs, b), ValidImported(legs[1]),
         ReleaseBasis(P, legs).ok
  PROVE  Offerable(ReleaseBasis(P, legs).pos, b)
<1> DEFINE out == legs[1]
           ahead == {x \in RowsOf(P, out.acct) : FoldsBefore(x, out)}
           r == Release(ahead, out.paper, out.qty)
<1>1. CASE out.typ # "transfer_out"
  <2>1. ReleaseBasis(P, legs) = Provided(TRUE, legs)
    BY <1>1, Zenon DEF ReleaseBasis
  <2>2. ReleaseBasis(P, legs).pos = legs
    BY <2>1, GateIs
  <2> QED BY <2>2
<1>2. CASE out.typ = "transfer_out"
  <2>1. ReleaseBasis(P, legs) = Provided(r.ok, OnEveryLeg(legs, r.lots))
    BY <1>2, Zenon DEF ReleaseBasis
  <2>2. ReleaseBasis(P, legs).pos = OnEveryLeg(legs, r.lots) /\ r.ok
    BY <2>1, GateIs
  <2>3. out.qty > 0 /\ out.qty \in Int
    BY <1>2 DEF ValidImported, TransferLeg, Offerable, IsEntry
  <2>4. ahead \in SUBSET P
    BY DEF RowsOf
  <2>5. Readable(ahead)
    BY <2>4, ReadableRows DEF Pending
  <2>6. out.qty \in Nat \ {0}
    BY <2>3
  <2> DEFINE q == out.qty
  <2> HIDE DEF ahead, q
  <2>7. Release(ahead, out.paper, q).lots \in Seq(Piece)
    <3>1. q \in Nat \ {0} /\ Release(ahead, out.paper, q).ok
      BY <2>2, <2>6 DEF q
    <3>2. /\ Release(ahead, out.paper, q).lots \in Seq(Piece)
          /\ Release(ahead, out.paper, q).lots # <<>>
      BY <2>5, <3>1, ReleaseOfRows
    <3> QED BY <3>2
  <2>8. r.lots \in Seq(PieceColumns)
    BY <2>7, PieceColumnsAre DEF q
  <2> HIDE DEF r
  <2> QED BY <2>2, <2>8, ToldOfferable
<1> QED BY <1>1, <1>2

LEMMA OfferPends ==
  ASSUME NEW P, NEW b, Pending(P, b), NEW legs, Offerable(legs, b),
         NEW kind \in {"together", "one"}
  PROVE  Pending(StepOf(kind, P, legs).pos, b + 2)
<1>0. b \in Int /\ Pending(P, b + 2)
  BY PendingStays DEF Offerable
<1>1. Pending(Offer(P, legs).pos, b + 2)
  <2> DEFINE valid == \A k \in DOMAIN legs : ValidImported(legs[k])
             r == ReleaseBasis(P, legs)
  <2>1. Offer(P, legs) = IF valid THEN WithLegs(P, r) ELSE Provided(TRUE, P)
    BY Zenon DEF Offer
  <2>2. valid => ValidImported(legs[1])
    BY DEF Offerable
  <2> HIDE DEF valid, r
  <2>3. WithLegs(P, r).pos = IF r.ok THEN P \cup LegSet(r.pos) ELSE P
    BY GateIs DEF WithLegs
  <2>4. CASE ~valid \/ ~r.ok
    <3>1. Offer(P, legs).pos = P
      BY <2>1, <2>3, <2>4, GateIs
    <3> QED BY <1>0, <3>1
  <2>5. CASE valid /\ r.ok
    <3>1. Offer(P, legs).pos = P \cup LegSet(r.pos)
      BY <2>1, <2>3, <2>5
    <3>2. Offerable(r.pos, b)
      BY <2>2, <2>5, BasisReleased DEF r
    <3>3. Pending(P \cup LegSet(r.pos), b + 2)
      BY <3>2, PendingGrows
    <3> QED BY <3>1, <3>3
  <2> QED BY <2>4, <2>5
<1>2. CASE kind = "together"
  BY <1>1, <1>2 DEF StepOf
<1>3. CASE kind = "one"
  <2>1. \A after : IfHeld(P, legs, after).pos \in {after.pos, P}
    BY DEF IfHeld, Provided
  <2>2. StepOf(kind, P, legs) = IfHeld(P, legs, Offer(P, legs))
    BY <1>3, Zenon DEF StepOf, OfferIfHeld
  <2>3. StepOf(kind, P, legs).pos \in {Offer(P, legs).pos, P}
    BY <2>1, <2>2, Zenon
  <2> QED BY <1>0, <1>1, <2>3
<1> QED BY <1>2, <1>3

\* Candidates in a row, each with two numbers of its own.
Numbering(O, n, c) == \A m \in 1..n : Offerable(O[m], c + 2 * m - 2)

LEMMA OfferedReadable ==
  ASSUME NEW O, NEW n \in Nat, Len(O) = n, NEW c \in Nat, Numbering(O, n, c),
         NEW kept, Pending(kept, c), NEW kind \in {"together", "one"}
  PROVE  Readable(RunOf(kind, kept, O).pos)
<1>1. PICK after : Steps(kind, kept, O, after) /\ RunOf(kind, kept, O) = after[n]
  <2>1. Len(O) \in Nat
    OBVIOUS
  <2> QED BY <2>1, RunSteps
<1>2. /\ after[0] = Provided(TRUE, kept)
      /\ \A i \in 1..n : after[i] = IF after[i - 1].ok THEN StepOf(kind, after[i - 1].pos, O[i]) ELSE after[i - 1]
  BY <1>1, Zenon DEF Steps
<1> DEFINE G == {i \in 0..n : Pending(after[i].pos, c + 2 * i)}
<1>3. 0 \in G
  <2>1. after[0].pos = kept
    BY <1>2, GateIs
  <2>2. c + 2 * 0 = c
    OBVIOUS
  <2> QED BY <2>1, <2>2
<1>4. ASSUME NEW i \in 1..n, i - 1 \in G PROVE i \in G
  <2> DEFINE P == after[i - 1].pos
             b == c + 2 * i - 2
  <2>1. b = c + 2 * (i - 1) /\ b + 2 = c + 2 * i /\ b \in Int
    OBVIOUS
  <2>2. Pending(P, b) /\ Offerable(O[i], b)
    BY <1>4, <2>1 DEF Numbering
  <2>3. Pending(after[i].pos, b + 2)
    <3> HIDE DEF b, P
    <3>1. CASE after[i - 1].ok
      <4>1. after[i] = StepOf(kind, P, O[i])
        BY <1>2, <3>1 DEF P
      <4> QED BY <2>2, <4>1, OfferPends
    <3>2. CASE ~after[i - 1].ok
      <4>1. after[i].pos = P
        BY <1>2, <3>2 DEF P
      <4> QED BY <2>1, <2>2, <4>1, PendingStays
    <3> QED BY <3>1, <3>2
  <2> HIDE DEF b, P
  <2>4. Pending(after[i].pos, c + 2 * i)
    BY <2>1, <2>3
  <2> QED BY <2>4
<1>5. \A i \in 0..n : i \in G
  <2> HIDE DEF G
  <2> QED BY <1>3, <1>4, Climbing
<1>6. Pending(after[n].pos, c + 2 * n)
  BY <1>5
<1> QED BY <1>1, <1>6 DEF Pending

\* A leg told the breakdown its namesake was given.
LEMMA BreakdownColumns ==
  ASSUME NEW leg, IsEntry(leg), NEW A, \A x \in A : IsEntry(x), \E x \in A : x.id = leg.id
  PROVE  IsEntry(WithBreakdown(leg, A))
<1> DEFINE x == CHOOSE x \in A : x.id = leg.id
           lots == x.lots
           amount == x.amount
           w == [leg EXCEPT !.lots = lots, !.amount = amount]
<1>1. x \in A
  OBVIOUS
<1>2. WithBreakdown(leg, A) = w
  BY DEF WithBreakdown
<1> HIDE DEF x
<1>3. lots \in Seq(PieceColumns) /\ amount \in Int
  BY <1>1 DEF IsEntry
<1> HIDE DEF lots, amount
<1>4. IsEntry(w) /\ w.id = leg.id /\ w.stamp = leg.stamp /\ w.acct = leg.acct /\ w.at = leg.at
  BY <1>3, EntryTold
<1> QED BY <1>2, <1>4

LEMMA StampedEntry ==
  ASSUME NEW leg, IsEntry(leg), {leg.at, leg.stamp} \subseteq Int,
         NEW tick \in Int, NEW c \in Int, NEW base \in Int
  PROVE  LET w == StampedLeg(leg, tick, c, base)
         IN IsEntry(w) /\ {w.at, w.stamp} \subseteq Int /\ w.id = c + tick
<1> DEFINE id == c + tick
           next == base + tick - 1
           stamp == IF leg.stamp # 0 THEN leg.stamp ELSE next
           w == [leg EXCEPT !.id = id, !.stamp = stamp]
<1>1. next \in Int
  OBVIOUS
<1> HIDE DEF next
<1>2. stamp \in Int
  BY <1>1
<1>3. StampedLeg(leg, tick, c, base) = w
  BY Zenon DEF StampedLeg, next
<1> HIDE DEF id, stamp
<1>4. IsEntry(w)
  BY EntryStored
<1>5. EntryColumns \subseteq DOMAIN leg
  BY EntryHasColumns DEF IsEntry
<1>6. w.at = leg.at /\ w.stamp = stamp /\ w.id = id
  BY <1>5, ZenonT(30) DEF EntryColumns
<1> HIDE DEF w
<1> QED BY <1>2, <1>3, <1>4, <1>6 DEF id

\* A delta whose legs hold what columns hold.
Typed(add, n) ==
  Eventful(add, n) /\ \A i \in 1..n : \A k \in DOMAIN add[i] :
    IsEntry(add[i][k]) /\ {add[i][k].at, add[i][k].stamp} \subseteq Int

LEMMA StampedNumbering ==
  ASSUME NEW add, NEW n, Typed(add, n), NEW c \in Nat, NEW base \in Int
  PROVE  /\ Numbering(Ordered(add, Stamped(add, c, base)), n, c)
         /\ Len(Ordered(add, Stamped(add, c, base))) = n
         /\ \A leg \in LegsOf(Stamped(add, c, base)) : IsEntry(leg)
<1> DEFINE S == Stamped(add, c, base)
           O == Ordered(add, S)
           Tick(i, k) == 2 * Place(add, i) + k - 2
<1>1. /\ n \in Nat /\ DOMAIN add = 1..n
      /\ \A i \in 1..n : DOMAIN add[i] \subseteq {1, 2} /\ 1 \in DOMAIN add[i]
  BY DEF Typed, Eventful, Shaped
<1>2. /\ \A i \in 1..n : Place(add, i) \in 1..n
      /\ \A m \in 1..n : \E i \in 1..n : Place(add, i) = m /\ O[m] = S[i]
      /\ Len(O) = n
  BY OrderedIs DEF Typed
<1>3. /\ DOMAIN S = 1..n
      /\ \A i \in 1..n : /\ DOMAIN S[i] = DOMAIN add[i]
                         /\ \A k \in DOMAIN add[i] : S[i][k] = StampedLeg(add[i][k], Tick(i, k), c, base)
  BY <1>1, Zenon DEF Stamped
<1> HIDE DEF S, O
<1>4. ASSUME NEW i \in 1..n, NEW k \in DOMAIN add[i]
      PROVE  IsEntry(S[i][k]) /\ {S[i][k].at, S[i][k].stamp} \subseteq Int /\ S[i][k].id = c + Tick(i, k)
  <2> DEFINE leg == add[i][k]
             tick == Tick(i, k)
             w == StampedLeg(leg, tick, c, base)
  <2>1. Place(add, i) \in Nat /\ k \in Nat
    <3>1. Place(add, i) \in 1..n /\ DOMAIN add[i] \subseteq {1, 2}
      BY <1>1, <1>2, Zenon
    <3> HIDE DEF Tick
    <3>2. k \in {1, 2}
      BY <3>1
    <3> QED BY <3>1, <3>2, <1>1
  <2>2. tick \in Int /\ c \in Int
    BY <2>1
  <2>3. S[i][k] = w
    BY <1>3
  <2>4. IsEntry(leg) /\ {leg.at, leg.stamp} \subseteq Int
    BY DEF Typed
  <2> HIDE DEF leg, tick
  <2>5. IsEntry(w) /\ {w.at, w.stamp} \subseteq Int /\ w.id = c + tick
    BY <2>2, <2>4, StampedEntry
  <2> QED BY <2>3, <2>5 DEF tick
<1>5. ASSUME NEW m \in 1..n PROVE Offerable(O[m], c + 2 * m - 2)
  <2>1. PICK i \in 1..n : Place(add, i) = m /\ O[m] = S[i]
    BY <1>2
  <2>2. DOMAIN O[m] = DOMAIN add[i]
    BY <1>3, <2>1
  <2>3. ASSUME NEW k \in DOMAIN O[m]
        PROVE  /\ IsEntry(O[m][k]) /\ {O[m][k].at, O[m][k].stamp} \subseteq Int
               /\ O[m][k].id = c + 2 * m - 2 + k
    <3>1. k \in DOMAIN add[i] /\ O[m][k] = S[i][k] /\ k \in Nat /\ m \in Nat
      BY <1>1, <2>1, <2>2
    <3>2. IsEntry(S[i][k]) /\ {S[i][k].at, S[i][k].stamp} \subseteq Int /\ S[i][k].id = c + (2 * m + k - 2)
      BY <1>4, <2>1, <3>1
    <3>3. c + (2 * m + k - 2) = c + 2 * m - 2 + k
      BY <3>1
    <3> QED BY <3>1, <3>2, <3>3
  <2>4. c + 2 * m - 2 \in Int
    OBVIOUS
  <2>5. 1 \in DOMAIN O[m] /\ DOMAIN O[m] \subseteq {1, 2}
    BY <1>1, <2>2
  <2> QED BY <2>3, <2>4, <2>5 DEF Offerable
<1>6. \A leg \in LegsOf(S) : IsEntry(leg)
  <2> TAKE leg \in LegsOf(S)
  <2>1. PICK i \in 1..n : leg \in LegSet(S[i])
    BY <1>3 DEF LegsOf
  <2>2. PICK k \in DOMAIN S[i] : leg = S[i][k]
    BY <2>1 DEF LegSet
  <2>3. k \in DOMAIN add[i]
    BY <1>3, <2>2
  <2> QED BY <1>4, <2>2, <2>3
<1> QED BY <1>2, <1>5, <1>6 DEF Numbering, O, S

LEMMA ImportColumns ==
  ASSUME NEW some, NEW c, Recorded(some, c), Readable(some), NEW add, NEW n, Typed(add, n),
         Presentable(add, some, c), NEW remove, ApplyImportDelta(some, c, add, remove).ok,
         NEW r \in ApplyImportDelta(some, c, add, remove).add
  PROVE  IsEntry(r)
<1> DEFINE legs == LegsOf(add)
           accts == AcctsOf(remove \cup legs)
           kept == {x \in some \ remove : x.acct \in accts}
           base == Base(kept, c, legs)
           T == Stamped(add, c, base)
           offer == Offered(kept, Ordered(add, T), accts)
           A == offer.pos
           d == ApplyImportDelta(some, c, add, remove)
<1>1. d = Written(some, add, remove, kept, offer, Inserted(LegsOf(T), A))
  BY DEF ApplyImportDelta, ImportIn, ImportOver, ImportAsked, WrittenOf
<1>2. Recorded(kept, c) /\ c \in Nat
  BY Zenon DEF Recorded
<1>3. Readable(kept) /\ \A x \in kept : x.id <= c
  <2>1. kept \in SUBSET some
    OBVIOUS
  <2> HIDE DEF kept
  <2>2. Readable(kept)
    BY <2>1, ReadableRows
  <2> QED BY <1>2, <2>2 DEF Recorded
<1>4. base \in Int
  <2>1. \A leg \in legs : leg.stamp \in 0..(c + AppAhead)
    <3>1. \A leg \in legs : \E i \in DOMAIN add : \E k \in DOMAIN add[i] : leg = add[i][k]
      BY Zenon DEF LegsOf, LegSet
    <3> HIDE DEF legs
    <3> QED BY <3>1, Zenon DEF Presentable
  <2> HIDE DEF legs, kept
  <2>2. base = c + AppAhead + 1
    BY <1>2, <2>1, BaseIsNext
  <2> QED BY <1>2, <2>2, AppAheadAssumption
<1> HIDE DEF kept, base, legs, accts
<1>5. offer.ok /\ d.add = Inserted(LegsOf(T), A)
  <2> HIDE DEF offer, T, A, d
  <2>1. d.ok /\ d = Written(some, add, remove, kept, offer, Inserted(LegsOf(T), A))
    BY <1>1 DEF d
  <2> QED BY <2>1 DEF Written
<1> DEFINE O == Ordered(add, T)
<1>6. /\ Numbering(O, n, c) /\ Len(O) = n
      /\ \A leg \in LegsOf(T) : IsEntry(leg)
  BY <1>2, <1>4, StampedNumbering
<1>7. n \in Nat
  BY DEF Typed, Eventful
<1> HIDE DEF T, O
<1>8. PICK kind \in {"together", "one"} : A = RunOf(kind, kept, O).pos
  BY <1>5, OfferedRuns DEF O
<1> HIDE DEF offer, A, d
<1>9. Readable(A)
  <2>1. Pending(kept, c)
    BY <1>3 DEF Pending
  <2>2. Readable(RunOf(kind, kept, O).pos)
    BY <1>2, <1>6, <1>7, <2>1, OfferedReadable
  <2> QED BY <1>8, <2>2
<1>10. PICK leg \in LegsOf(T) : (\E x \in A : x.id = leg.id) /\ r = WithBreakdown(leg, A)
  <2>1. r \in Inserted(LegsOf(T), A)
    BY <1>5 DEF d
  <2> QED BY <2>1, Zenon DEF Inserted, WithBreakdowns
<1>11. IsEntry(leg) /\ \A x \in A : IsEntry(x)
  BY <1>6, <1>9 DEF Readable
<1> QED BY <1>10, <1>11, BreakdownColumns

-----------------------------------------------------------------------------
(* The pairs a person or the registry asks for, built from readable rows. *)

LEMMA ExchangeColumns ==
  ASSUME NEW some, Readable(some), NEW p, p.day \in Nat \ {0}, p.qty \in Int, p.toQty \in Int,
         BuildExchange(some, p).ok
  PROVE  IsEntry(BuildExchange(some, p).out) /\ IsEntry(BuildExchange(some, p).in)
<1> DEFINE journal == RowsOf(some, p.acct)
           ahead == FoldedBefore(journal, p.day)
           cur == CurrencyOf(journal, p.from)
           r == Release(ahead, p.from, p.qty)
           b == ExchangeLegs(p, cur, r)
<1>1. BuildExchange(some, p) = b
  BY Zenon DEF BuildExchange
<1>2. Readable(journal)
  <2>1. journal \in SUBSET some
    BY DEF RowsOf
  <2> QED BY <2>1, ReadableRows
<1>3. Readable(ahead)
  <2>1. ahead \in SUBSET journal
    BY DEF FoldedBefore
  <2> HIDE DEF journal, ahead
  <2> QED BY <1>2, <2>1, ReadableRows
<1> HIDE DEF ahead, journal
<1>4. cur \in Int
  BY <1>2, CurrencyIs
<1>5. p.qty > 0 /\ b.ok
  <2>1. b.ok
    BY <1>1
  <2> HIDE DEF r, cur
  <2> QED BY <2>1, Zenon DEF ExchangeLegs
<1>6. r.ok => r.lots \in Seq(PieceColumns)
  <2>1. p.qty \in Nat \ {0}
    BY <1>5
  <2>2. r.ok => r.lots \in Seq(Piece)
    BY <1>3, <2>1, ReleaseOfRows
  <2> HIDE DEF r
  <2> QED BY <2>2, PieceColumnsAre
<1> HIDE DEF r, cur
<1>7. IsEntry(b.out) /\ IsEntry(b.in)
  BY <1>4, <1>5, <1>6, ExchangeLegsAre
<1> QED BY <1>1, <1>7

LEMMA SpinoffColumns ==
  ASSUME NEW some, Readable(some), NEW p, p.day \in Nat \ {0},
         p.ratio \in (Nat \ {0}) \X (Nat \ {0}), p.share \in 0..(DivScale - 1),
         BuildSpinoff(some, p).ok
  PROVE  IsEntry(BuildSpinoff(some, p).out) /\ IsEntry(BuildSpinoff(some, p).in)
<1> DEFINE ahead == FoldedBefore(RowsOf(some, p.acct), p.day)
           c == Compute(Sorted(ahead))
           held == IF c.ok THEN PositionOf(c.pos, p.from) ELSE NoPosition
           pieces == SpinoffPieces(held.lots, p.share)
           b == SpinoffLegs(p, held, pieces)
<1>1. BuildSpinoff(some, p) = b
  BY Zenon DEF BuildSpinoff
<1>2. Readable(ahead)
  <2>1. ahead \in SUBSET some
    BY DEF RowsOf, FoldedBefore
  <2> HIDE DEF ahead
  <2> QED BY <2>1, ReadableRows
<1> HIDE DEF ahead
<1>3. \E d \in Nat : IsPosition(held, d)
  <2>1. 0 \in Nat /\ IsPosition(NoPosition, 0)
    BY NoPositionIs
  <2>2. ASSUME c.ok PROVE \E d \in Nat : IsPosition(PositionOf(c.pos, p.from), d)
    <3>1. Daily(Sorted(ahead)) /\ Replays(Sorted(ahead))
      BY <1>2, <2>2, ReadsDaily DEF Replays
    <3>2. PICK d \in Nat : IsBook(c.pos, d)
      BY <3>1, BookIs
    <3> HIDE DEF c
    <3>3. IsPosition(NoPosition, d)
      BY NoPositionIs
    <3>4. IsPosition(PositionOf(c.pos, p.from), d)
      BY <3>2, <3>3 DEF IsBook, PositionOf
    <3> QED BY <3>4
  <2> HIDE DEF c
  <2> QED BY <2>1, <2>2
<1> HIDE DEF held
<1>4. held.lots \in Seq(Piece) /\ held.qty \in Nat /\ held.cur \in Int
  BY <1>3, SoundIs
<1>5. pieces \in Seq(PieceColumns)
  <2>1. p.share \in 0..DivScale
    BY DivScaleAssumption
  <2>2. pieces \in Seq(Piece)
    BY <1>4, <2>1, SpinoffPiecesIs
  <2> HIDE DEF pieces
  <2> QED BY <2>2, PieceColumnsAre
<1> HIDE DEF pieces
<1>6. b.ok
  BY <1>1
<1>7. IsEntry(b.out) /\ IsEntry(b.in)
  BY <1>4, <1>5, <1>6, SpinoffLegsAre
<1> QED BY <1>1, <1>7

LEMMA TransferColumns ==
  ASSUME NEW some, Readable(some), NEW c, NEW p, p.day \in Nat \ {0}, p.qty \in Int, p.basis \in Int,
         CreateTransfer(some, c, p).ok, NEW x \in CreateTransfer(some, c, p).add
  PROVE  IsEntry(x)
<1> DEFINE source == RowsOf(some, p.from)
           byHand == p.basis >= 0
           ahead == UpToDay(source, p.day)
           cur == CurrencyOf(source, p.paper)
           none == [ok |-> TRUE, lots |-> <<>>]
           r == IF byHand THEN none ELSE Release(ahead, p.paper, p.qty)
           amount == IF byHand THEN p.basis ELSE LotsCost(r.lots)
           legs == TransferLegs(p, cur, r.lots, amount)
           cond == p.from # p.to /\ p.qty > 0 /\ cur # 0 /\ r.ok
           d == CreateTransfer(some, c, p)
<1>1. d = HandDelta(some, c, Pair(c, legs.out, legs.in), {}, cond)
  BY Zenon DEF CreateTransfer
<1>2. Readable(source)
  <2>1. source \in SUBSET some
    BY DEF RowsOf
  <2> QED BY <2>1, ReadableRows
<1>3. Readable(ahead)
  <2>1. ahead \in SUBSET source
    BY DEF UpToDay
  <2> HIDE DEF source, ahead
  <2> QED BY <1>2, <2>1, ReadableRows
<1>4. d.add = Stored(c, Pair(c, legs.out, legs.in)) /\ (d.ok => cond)
  <2> HIDE DEF d, legs, cond
  <2> QED BY <1>1, Zenon DEF HandDelta
<1> HIDE DEF ahead, source
<1>5. cur \in Int
  BY <1>2, CurrencyIs
<1> HIDE DEF cur, d
<1>6. p.qty > 0 /\ r.ok
  <2>1. d.ok
    BY DEF d
  <2> QED BY <1>4, <2>1
<1>7. r.lots \in Seq(PieceColumns)
  <2>1. CASE byHand
    <3>1. r = none
      BY <2>1
    <3>2. none.lots = <<>>
      OBVIOUS
    <3> HIDE DEF r, none
    <3>3. r.lots = <<>>
      BY <3>1, <3>2
    <3> QED BY <3>3, PieceColumnsAre
  <2>2. CASE ~byHand
    <3>1. r = Release(ahead, p.paper, p.qty)
      BY <2>2
    <3>2. p.qty \in Nat \ {0}
      BY <1>6
    <3>3. Release(ahead, p.paper, p.qty).ok
      BY <1>6, <3>1
    <3>4. r.lots \in Seq(Piece)
      BY <1>3, <3>1, <3>2, <3>3, ReleaseOfRows
    <3> HIDE DEF r
    <3> QED BY <3>4, PieceColumnsAre
  <2> QED BY <2>1, <2>2
<1> HIDE DEF r
<1>8. amount \in Int
  <2>1. LotsCost(r.lots) \in Int
    BY <1>7, PieceColumnsAre
  <2> QED BY <2>1
<1> HIDE DEF amount
<1>9. IsEntry(legs.out) /\ IsEntry(legs.in)
  BY <1>5, <1>7, <1>8, TransferLegsAre
<1>10. x \in d.add
  BY DEF d
<1> DEFINE out == legs.out
           in == legs.in
<1>11. IsEntry(out) /\ IsEntry(in) /\ x \in Stored(c, Pair(c, out, in))
  BY <1>4, <1>9, <1>10
<1> HIDE DEF out, in
<1> QED BY <1>11, PairColumns

\* A move released again is restated as columns hold it.
LEMMA AgainEntries ==
  ASSUME NEW K, Readable(K), NEW out, out.qty \in Nat \ {0},
         \E y \in K : y.id = out.id /\ y.acct = out.acct,
         NEW x \in ReleaseAgain(K, out).pos
  PROVE  IsEntry(x)
<1> DEFINE O == JournalOf(K, out.acct)
           ahead == AheadOf(O, out)
           r == ReleasedLots(ahead, out.paper, out.qty)
           lots == Quantize(r.pieces, out.qty)
           in == CHOOSE y \in ArrivingLeg(K, out) : TRUE
           ids == MovedLegs(out, in)
           again == Provided(r.ok, IF r.ok THEN Rebroken(K, ids, lots) ELSE K)
           pos == ReleaseAgain(K, out).pos
<1>1. pos = K \/ (r.ok /\ pos = Rebroken(K, ids, lots))
  <2>1. \A ok, p : Provided(ok, p).pos = p
    BY DEF Provided
  <2>2. ReleaseAgain(K, out) \in {Provided(FALSE, K), Provided(TRUE, K), again}
    BY Zenon DEF ReleaseAgain
  <2> DEFINE rebroken == Rebroken(K, ids, lots)
             ok == r.ok
             settled == IF ok THEN rebroken ELSE K
  <2>3. again = Provided(ok, settled)
    OBVIOUS
  <2> HIDE DEF again, rebroken, ok
  <2>4. again.pos = settled
    BY <2>1, <2>3, Zenon
  <2>5. pos = K \/ pos = settled
    <3> DEFINE w == ReleaseAgain(K, out)
    <3>1. w = Provided(FALSE, K) \/ w = Provided(TRUE, K) \/ w = again
      BY <2>2
    <3>2. Provided(FALSE, K).pos = K /\ Provided(TRUE, K).pos = K
      BY <2>1, Zenon
    <3> HIDE DEF w, settled
    <3>3. w.pos = K \/ w.pos = settled
      BY <2>4, <3>1, <3>2, Zenon
    <3> QED BY <3>3 DEF w
  <2>6. pos = K \/ (ok /\ pos = rebroken)
    BY <2>5
  <2> QED BY <2>6 DEF rebroken, ok
<1>2. CASE pos = K
  BY <1>2 DEF Readable
<1>3. CASE r.ok /\ pos = Rebroken(K, ids, lots)
  <2>1. Daily(ahead)
    <3> DEFINE S == RowsOf(K, out.acct)
    <3>1. Readable(S)
      <4>1. S \in SUBSET K
        BY DEF RowsOf
      <4> QED BY <4>1, ReadableRows
    <3>2. O = Sorted(S)
      BY DEF JournalOf
    <3>3. PICK y \in S : y.id = out.id
      BY DEF RowsOf
    <3> HIDE DEF O, S
    <3>4. Daily(O) /\ DOMAIN O = 1..Len(O) /\ \E i \in 1..Len(O) : O[i].id = out.id
      BY <3>1, <3>2, <3>3, ReadsDaily
    <3> DEFINE at == CHOOSE i \in DOMAIN O : O[i].id = out.id
    <3>5. at \in 1..Len(O)
      <4>1. at \in DOMAIN O
        BY <3>4, Zenon
      <4> QED BY <3>4, <4>1
    <3>6. ahead = SubSeq(O, 1, at - 1)
      BY Zenon DEF AheadOf
    <3> HIDE DEF at, ahead
    <3>7. at - 1 \in 0..Len(O)
      BY <3>4, <3>5 DEF Daily
    <3> QED BY <3>4, <3>6, <3>7, DailyAhead
  <2> HIDE DEF ahead
  <2>2. lots \in Seq(PieceColumns)
    <3>1. lots \in Seq(Piece)
      BY <1>3, <2>1, ReleasedIs
    <3> HIDE DEF lots
    <3> QED BY <3>1, PieceColumnsAre
  <2> HIDE DEF lots
  <2>3. LotsCost(lots) \in Int
    BY <2>2, PieceColumnsAre
  <2>4. x \in Rebroken(K, ids, lots)
    BY <1>3
  <2> HIDE DEF ids, pos
  <2>5. PICK y \in K : x = IF y.id \in ids THEN [y EXCEPT !.lots = lots, !.amount = LotsCost(lots)] ELSE y
    BY <2>4, Zenon DEF Rebroken
  <2>6. IsEntry(y)
    BY DEF Readable
  <2> DEFINE cost == LotsCost(lots)
  <2> HIDE DEF cost
  <2>7. IsEntry([y EXCEPT !.lots = lots, !.amount = cost])
    BY <2>2, <2>3, <2>6, EntryTold DEF cost
  <2> QED BY <2>5, <2>6, <2>7 DEF cost
<1> QED BY <1>1, <1>2, <1>3

\* A row of a journal that folds is worth something of what it trades or moves.
LEMMA FoldedMoves ==
  ASSUME NEW S, Readable(S), Replays(Sorted(S)), NEW r \in S, r.typ \in Trades \cup Departures \cup Arrivals
  PROVE  r.qty \in Nat \ {0}
<1> DEFINE O == Sorted(S)
<1>1. Daily(O) /\ \E i \in 1..Len(O) : O[i] = r
  BY ReadsDaily
<1>2. PICK i \in 1..Len(O) : O[i] = r
  BY <1>1
<1> HIDE DEF O
<1>3. PICK b : BookChain(O, b)
  <2>1. Replays(O)
    BY DEF O
  <2> QED BY <1>1, <2>1, JournalFolds
<1>4. FoldOne(b[i - 1], r).ok
  BY <1>2, <1>3 DEF BookChain
<1> DEFINE c == b[i - 1]
<1> HIDE DEF c
<1>5. RequiresInstrument(r.typ) /\ r.typ # "conversion"
  BY DEF RequiresInstrument, Trades, Departures, Arrivals
<1>6. CheckShape(r)
  <2>1. FoldOne(c, r).ok
    BY <1>4 DEF c
  <2>2. Touched(c, r, FoldOne(c, r).pos)
    BY <1>5, <2>1, FoldOneGives DEF Untouched
  <2> QED BY <2>2, Zenon DEF Touched
<1>7. r.qty \in Int
  BY DEF Readable, IsEntry
<1> QED BY <1>6, <1>7 DEF CheckShape

-----------------------------------------------------------------------------
(* Sums over finite sets.  A sum that takes an operator is unfolded to the  *)
(* function that reckons it over the subsets.                               *)

Chosen(s) == CHOOSE x \in s : TRUE

\* g reckons the sum of f over every subset of S.
Sums(g, f, S) ==
  g = [s \in SUBSET S |-> IF s = {} THEN 0 ELSE f[Chosen(s)] + g[s \ {Chosen(s)}]]

SumOver(f, S) == (CHOOSE g : Sums(g, f, S))[S]

\* Among some sets of a finite set's elements is one that has no other below it.
LEMMA Leanest ==
  ASSUME NEW S, IsFiniteSet(S), NEW Bad, Bad \in SUBSET SUBSET S, Bad # {}
  PROVE  \E U \in Bad : \A V \in Bad : V \subseteq U => V = U
<1> DEFINE T == {Cardinality(U) : U \in Bad}
<1>1. \A U \in Bad : IsFiniteSet(U) /\ Cardinality(U) \in Nat
  BY FS_Subset, FS_CardinalityType
<1>2. PICK k \in T : \A m \in T : k <= m
  <2>1. T \in SUBSET Nat /\ T # {}
    BY <1>1
  <2> HIDE DEF T
  <2> QED BY <2>1, SmallestOf
<1>3. PICK U \in Bad : k = Cardinality(U)
  BY <1>2
<1>4. ASSUME NEW V \in Bad, V \subseteq U PROVE V = U
  <2>1. Cardinality(U) <= Cardinality(V) /\ Cardinality(V) \in Nat
    BY <1>1, <1>2, <1>3
  <2>2. /\ Cardinality(V) <= Cardinality(U)
        /\ Cardinality(U) = Cardinality(V) => U = V
    BY <1>1, <1>4, FS_Subset
  <2>3. Cardinality(U) \in Nat
    BY <1>1
  <2> QED BY <2>1, <2>2, <2>3
<1> QED BY <1>4

LEMMA ChosenIs ==
  ASSUME NEW s, s # {}
  PROVE  Chosen(s) \in s
BY DEF Chosen

\* Whoever reckons, over the same weights, comes to the same.
LEMMA SumsAgree ==
  ASSUME NEW S, IsFiniteSet(S), NEW f, NEW T, NEW g, Sums(g, f, T), S \subseteq T,
         NEW e, NEW R, NEW h, Sums(h, e, R), S \subseteq R, \A x \in S : f[x] = e[x]
  PROVE  g[S] = h[S]
<1> DEFINE Bad == {U \in SUBSET S : g[U] # h[U]}
<1>1. SUFFICES ASSUME Bad # {} PROVE FALSE
  OBVIOUS
<1>2. PICK U \in Bad : \A V \in Bad : V \subseteq U => V = U
  <2>1. Bad \in SUBSET SUBSET S
    OBVIOUS
  <2> HIDE DEF Bad
  <2> QED BY <1>1, <2>1, Leanest
<1>3. U \in SUBSET T /\ U \in SUBSET R /\ U \subseteq S
  OBVIOUS
<1> DEFINE c == Chosen(U)
           V == U \ {c}
<1>4. g[U] = IF U = {} THEN 0 ELSE f[c] + g[V]
  BY <1>3, Zenon DEF Sums
<1>5. h[U] = IF U = {} THEN 0 ELSE e[c] + h[V]
  BY <1>3, Zenon DEF Sums
<1>6. CASE U = {}
  BY <1>4, <1>5, <1>6
<1>7. CASE U # {}
  <2>1. c \in U
    BY <1>7, ChosenIs
  <2>2. V \subseteq U /\ V # U
    BY <2>1
  <2>3. V \notin Bad
    BY <1>2, <2>2
  <2>4. g[V] = h[V]
    BY <2>3
  <2>5. f[c] = e[c]
    BY <1>3, <2>1
  <2>6. g[U] = h[U]
    BY <1>4, <1>5, <1>7, <2>4, <2>5
  <2> QED BY <2>6
<1> QED BY <1>6, <1>7

\* A finite set's sum can be reckoned.
LEMMA SumsExist ==
  ASSUME NEW S, IsFiniteSet(S), NEW f
  PROVE  Sums(CHOOSE g : Sums(g, f, S), f, S)
<1> SUFFICES \E g : Sums(g, f, S)
  OBVIOUS
<1> DEFINE Bad == {U \in SUBSET S : ~\E g : Sums(g, f, U)}
<1>1. SUFFICES ASSUME Bad # {} PROVE FALSE
  OBVIOUS
<1>2. PICK U \in Bad : \A V \in Bad : V \subseteq U => V = U
  <2>1. Bad \in SUBSET SUBSET S
    OBVIOUS
  <2> HIDE DEF Bad
  <2> QED BY <1>1, <2>1, Leanest
<1>3. \A V \in SUBSET U : V # U => \E g : Sums(g, f, V)
  BY <1>2
<1>4. ~\E g : Sums(g, f, U)
  BY <1>2
<1>5. \A V \in SUBSET U : IsFiniteSet(V)
  <2>1. U \in SUBSET S
    OBVIOUS
  <2> QED BY <2>1, FS_Subset
<1> HIDE DEF Bad
<1> DEFINE G(V) == CHOOSE g : Sums(g, f, V)
           low == [V \in SUBSET U |-> G(V)[V]]
           g == [V \in SUBSET U |-> IF V = {} THEN 0 ELSE f[Chosen(V)] + low[V \ {Chosen(V)}]]
<1>6. \A V \in SUBSET U : V # U => Sums(G(V), f, V)
  BY <1>3
<1>7. ASSUME NEW V \in SUBSET U, V # U
      PROVE  low[V] = g[V]
  <2> DEFINE c == Chosen(V)
             W == V \ {c}
             v == G(V)
             w == G(W)
  <2>1. Sums(v, f, V) /\ low[V] = v[V]
    BY <1>6, <1>7
  <2>2. v[V] = IF V = {} THEN 0 ELSE f[c] + v[W]
    <3>1. V \in SUBSET V
      OBVIOUS
    <3> HIDE DEF v
    <3> QED BY <2>1, <3>1, Zenon DEF Sums
  <2>3. CASE V = {}
    BY <2>1, <2>2, <2>3
  <2>4. CASE V # {}
    <3>1. W \in SUBSET U /\ W # U /\ W \subseteq V
      BY <2>4, ChosenIs
    <3>2. Sums(w, f, W) /\ low[W] = w[W]
      BY <1>6, <3>1
    <3>3. v[W] = w[W]
      <4>1. IsFiniteSet(W)
        BY <1>5, <3>1
      <4> HIDE DEF v, w, W
      <4> QED BY <2>1, <3>1, <3>2, <4>1, SumsAgree
    <3> HIDE DEF low, v, w
    <3>4. g[V] = f[c] + low[W]
      BY <2>4
    <3> QED BY <2>1, <2>2, <2>4, <3>2, <3>3, <3>4
  <2> QED BY <2>3, <2>4
<1>8. ASSUME NEW V \in SUBSET U
      PROVE  g[V] = IF V = {} THEN 0 ELSE f[Chosen(V)] + g[V \ {Chosen(V)}]
  <2>1. CASE V = {}
    BY <2>1
  <2>2. CASE V # {}
    <3> DEFINE W == V \ {Chosen(V)}
    <3>1. W \in SUBSET U /\ W # U
      BY <2>2, ChosenIs
    <3>2. low[W] = g[W]
      BY <1>7, <3>1
    <3> HIDE DEF low
    <3> QED BY <2>2, <3>2
  <2> QED BY <2>1, <2>2
<1>9. Sums(g, f, U)
  <2>1. g = [V \in SUBSET U |-> IF V = {} THEN 0 ELSE f[Chosen(V)] + g[V \ {Chosen(V)}]]
    <3>1. DOMAIN g = SUBSET U /\ g = [V \in SUBSET U |-> g[V]]
      OBVIOUS
    <3> HIDE DEF g
    <3> QED BY <1>8, <3>1
  <2> HIDE DEF g
  <2> QED BY <2>1, Zenon DEF Sums
<1> QED BY <1>4, <1>9, Zenon

\* Any reckoning over a set that holds S comes to the sum over S.
LEMMA SumOverIs ==
  ASSUME NEW S, IsFiniteSet(S), NEW f, NEW e, \A x \in S : f[x] = e[x],
         NEW T, S \subseteq T, NEW g, Sums(g, e, T)
  PROVE  g[S] = SumOver(f, S)
<1> DEFINE h == CHOOSE h : Sums(h, f, S)
<1>1. Sums(h, f, S)
  BY SumsExist
<1>2. SumOver(f, S) = h[S]
  BY Zenon DEF SumOver
<1> HIDE DEF h
<1>3. \A x \in S : e[x] = f[x]
  OBVIOUS
<1>4. g[S] = h[S]
  BY <1>1, <1>3, SumsAgree
<1> QED BY <1>2, <1>4

\* Equal weights have equal sums.
LEMMA SumSame ==
  ASSUME NEW S, IsFiniteSet(S), NEW f, NEW e, \A x \in S : f[x] = e[x]
  PROVE  SumOver(f, S) = SumOver(e, S)
<1> DEFINE h == CHOOSE h : Sums(h, e, S)
<1>1. Sums(h, e, S)
  BY SumsExist
<1>2. SumOver(e, S) = h[S]
  BY Zenon DEF SumOver
<1> HIDE DEF h
<1> QED BY <1>1, <1>2, SumOverIs

LEMMA SumNothing ==
  ASSUME NEW f
  PROVE  SumOver(f, {}) = 0
<1> DEFINE g == CHOOSE g : Sums(g, f, {})
<1>1. Sums(g, f, {})
  BY SumsExist, FS_EmptySet
<1>2. SumOver(f, {}) = g[{}]
  BY Zenon DEF SumOver
<1> HIDE DEF g
<1>3. {} \in SUBSET {}
  OBVIOUS
<1>4. g[{}] = 0
  BY <1>1, <1>3, Zenon DEF Sums
<1> QED BY <1>2, <1>4

LEMMA SumUnfolds ==
  ASSUME NEW S, IsFiniteSet(S), S # {}, NEW f
  PROVE  SumOver(f, S) = f[Chosen(S)] + SumOver(f, S \ {Chosen(S)})
<1> DEFINE g == CHOOSE g : Sums(g, f, S)
           V == S \ {Chosen(S)}
<1>1. Sums(g, f, S)
  BY SumsExist
<1>2. SumOver(f, S) = g[S]
  BY Zenon DEF SumOver
<1> HIDE DEF g
<1>3. S \in SUBSET S
  OBVIOUS
<1>4. g[S] = f[Chosen(S)] + g[V]
  BY <1>1, <1>3, Zenon DEF Sums
<1>5. IsFiniteSet(V) /\ V \subseteq S
  BY FS_Subset
<1> HIDE DEF V
<1>6. g[V] = SumOver(f, V)
  BY <1>1, <1>5, SumOverIs
<1> QED BY <1>2, <1>4, <1>6 DEF V

\* A sum of integers is an integer, and takes up its elements in any order.
LEMMA SumTaken ==
  ASSUME NEW S, IsFiniteSet(S), NEW f, \A x \in S : f[x] \in Int
  PROVE  /\ SumOver(f, S) \in Int
         /\ \A x \in S : SumOver(f, S) = f[x] + SumOver(f, S \ {x})
<1> DEFINE Fine(U) == /\ SumOver(f, U) \in Int
                      /\ \A x \in U : SumOver(f, U) = f[x] + SumOver(f, U \ {x})
           Bad == {U \in SUBSET S : ~Fine(U)}
<1>1. SUFFICES ASSUME Bad # {} PROVE FALSE
  <2>1. S \in SUBSET S
    OBVIOUS
  <2> HIDE DEF Fine
  <2>2. S \notin Bad => Fine(S)
    BY <2>1
  <2>3. Fine(S) => /\ SumOver(f, S) \in Int
                   /\ \A x \in S : SumOver(f, S) = f[x] + SumOver(f, S \ {x})
    BY Zenon DEF Fine
  <2> QED BY <2>2, <2>3
<1>2. PICK U \in Bad : \A V \in Bad : V \subseteq U => V = U
  <2>1. Bad \in SUBSET SUBSET S
    OBVIOUS
  <2> HIDE DEF Bad
  <2> QED BY <1>1, <2>1, Leanest
<1>3. \A V \in SUBSET U : V # U => Fine(V)
  <2> HIDE DEF Fine
  <2> QED BY <1>2
<1>4. ~Fine(U) /\ \A V \in SUBSET U : IsFiniteSet(V)
  <2>1. U \in SUBSET S
    OBVIOUS
  <2> HIDE DEF Fine
  <2> QED BY <1>2, <2>1, FS_Subset
<1>5. \A x \in U : f[x] \in Int
  OBVIOUS
<1> HIDE DEF Bad, Fine
<1>6. CASE U = {}
  <2>1. SumOver(f, U) = 0
    BY <1>6, SumNothing
  <2>2. Fine(U)
    BY <1>6, <2>1 DEF Fine
  <2> QED BY <1>4, <2>2
<1>7. CASE U # {}
  <2> DEFINE c == Chosen(U)
  <2>1. c \in U
    BY <1>7, ChosenIs
  <2>2. SumOver(f, U) = f[c] + SumOver(f, U \ {c})
    BY <1>4, <1>7, SumUnfolds
  <2> HIDE DEF c
  <2>3. \A x \in U : Fine(U \ {x})
    BY <1>3
  <2>4. \A x \in U : SumOver(f, U \ {x}) \in Int
    BY <2>3, Zenon DEF Fine
  <2>5. SumOver(f, U) \in Int
    BY <1>5, <2>1, <2>2, <2>4
  <2>6. ASSUME NEW x \in U PROVE SumOver(f, U) = f[x] + SumOver(f, U \ {x})
    <3>1. CASE x = c
      BY <2>2, <3>1
    <3>2. CASE x # c
      <4> DEFINE a == SumOver(f, (U \ {c}) \ {x})
      <4>1. x \in U \ {c} /\ c \in U \ {x} /\ (U \ {x}) \ {c} = (U \ {c}) \ {x}
        BY <2>1, <3>2
      <4>2. SumOver(f, U \ {c}) = f[x] + a
        BY <2>1, <2>3, <4>1, Zenon DEF Fine
      <4>3. SumOver(f, U \ {x}) = f[c] + a
        BY <2>3, <4>1, Zenon DEF Fine
      <4>4. a \in Int
        <5>1. (U \ {c}) \ {x} \in SUBSET U /\ (U \ {c}) \ {x} # U
          BY <2>1
        <5> QED BY <1>3, <5>1, Zenon DEF Fine
      <4> HIDE DEF a
      <4>5. f[c] \in Int /\ f[x] \in Int
        BY <1>5, <2>1
      <4> QED BY <2>2, <4>2, <4>3, <4>4, <4>5
    <3> QED BY <3>1, <3>2
  <2>7. Fine(U)
    BY <2>5, <2>6, Zenon DEF Fine
  <2> QED BY <1>4, <2>7
<1> QED BY <1>6, <1>7

LEMMA SumWithin ==
  ASSUME NEW S, IsFiniteSet(S), NEW f, \A x \in S : f[x] \in Int, NEW U \in SUBSET S
  PROVE  SumOver(f, U) \in Int
<1>1. IsFiniteSet(U) /\ \A x \in U : f[x] \in Int
  BY FS_Subset
<1> QED BY <1>1, SumTaken

LEMMA SumOfOne ==
  ASSUME NEW f, NEW x, f[x] \in Int
  PROVE  SumOver(f, {x}) = f[x]
<1>1. IsFiniteSet({x}) /\ \A y \in {x} : f[y] \in Int
  BY FS_Singleton
<1>2. SumOver(f, {x}) = f[x] + SumOver(f, {x} \ {x})
  BY <1>1, SumTaken
<1>3. {x} \ {x} = {}
  OBVIOUS
<1> QED BY <1>2, <1>3, SumNothing

LEMMA SumZero ==
  ASSUME NEW S, IsFiniteSet(S), NEW f, \A x \in S : f[x] = 0
  PROVE  SumOver(f, S) = 0
<1> DEFINE Bad == {U \in SUBSET S : SumOver(f, U) # 0}
<1>1. SUFFICES ASSUME Bad # {} PROVE FALSE
  OBVIOUS
<1>2. PICK U \in Bad : \A V \in Bad : V \subseteq U => V = U
  <2>1. Bad \in SUBSET SUBSET S
    OBVIOUS
  <2> HIDE DEF Bad
  <2> QED BY <1>1, <2>1, Leanest
<1>3. U # {}
  BY SumNothing
<1>4. PICK x \in U : TRUE
  BY <1>3
<1>5. IsFiniteSet(U) /\ \A y \in U : f[y] \in Int
  BY FS_Subset
<1>6. SumOver(f, U) = f[x] + SumOver(f, U \ {x})
  BY <1>5, SumTaken
<1>7. U \ {x} \notin Bad
  <2>1. U \ {x} \subseteq U /\ U \ {x} # U
    BY <1>4
  <2> HIDE DEF Bad
  <2> QED BY <1>2, <2>1
<1>8. SumOver(f, U \ {x}) = 0
  BY <1>7
<1> QED BY <1>6, <1>8

\* Sums over sets that share nothing add up.
LEMMA SumUnion ==
  ASSUME NEW S, NEW T, IsFiniteSet(S), IsFiniteSet(T), S \cap T = {},
         NEW f, \A x \in S \cup T : f[x] \in Int
  PROVE  SumOver(f, S \cup T) = SumOver(f, S) + SumOver(f, T)
<1> DEFINE Bad == {U \in SUBSET T : SumOver(f, S \cup U) # SumOver(f, S) + SumOver(f, U)}
<1>1. SUFFICES ASSUME Bad # {} PROVE FALSE
  OBVIOUS
<1>2. PICK U \in Bad : \A V \in Bad : V \subseteq U => V = U
  <2>1. Bad \in SUBSET SUBSET T
    OBVIOUS
  <2> HIDE DEF Bad
  <2> QED BY <1>1, <2>1, Leanest
<1>0. IsFiniteSet(S \cup T)
  BY FS_Union
<1>3. U # {}
  <2>1. SumOver(f, S) \in Int
    BY SumTaken
  <2>2. S \cup {} = S
    OBVIOUS
  <2>3. SumOver(f, S \cup {}) = SumOver(f, S) + SumOver(f, {})
    BY <2>1, <2>2, SumNothing
  <2> QED BY <2>3
<1>4. PICK x \in U : TRUE
  BY <1>3
<1> DEFINE V == U \ {x}
<1>5. IsFiniteSet(U) /\ (\A y \in U : f[y] \in Int) /\ IsFiniteSet(S \cup U) /\ \A y \in S \cup U : f[y] \in Int
  BY FS_Subset, FS_Union
<1>6. SumOver(f, U) = f[x] + SumOver(f, V)
  BY <1>5, SumTaken
<1>7. SumOver(f, S \cup U) = f[x] + SumOver(f, S \cup V)
  <2>1. (S \cup U) \ {x} = S \cup V /\ x \in S \cup U
    BY <1>4
  <2> HIDE DEF V
  <2> QED BY <1>5, <2>1, SumTaken
<1>8. V \notin Bad /\ V \in SUBSET T
  <2>1. V \subseteq U /\ V # U
    BY <1>4
  <2> HIDE DEF Bad
  <2>2. V \notin Bad
    BY <1>2, <2>1
  <2> QED BY <2>1, <2>2, <1>2 DEF Bad
<1>9. SumOver(f, S \cup V) = SumOver(f, S) + SumOver(f, V)
  BY <1>8
<1>10. SumOver(f, S) \in Int /\ SumOver(f, V) \in Int /\ f[x] \in Int
  <2>1. S \in SUBSET (S \cup T) /\ V \in SUBSET (S \cup T)
    BY <1>8
  <2>2. f[x] \in Int
    BY <1>4, <1>5
  <2> HIDE DEF V
  <2> QED BY <2>1, <2>2, <1>0, SumWithin
<1>11. SumOver(f, S \cup U) # SumOver(f, S) + SumOver(f, U)
  BY <1>2
<1> HIDE DEF V
<1> QED BY <1>6, <1>7, <1>9, <1>10, <1>11

\* Weights added are sums added.
LEMMA SumAdds ==
  ASSUME NEW S, IsFiniteSet(S), NEW f, NEW e, NEW h,
         \A x \in S : f[x] \in Int /\ e[x] \in Int /\ h[x] = f[x] + e[x]
  PROVE  SumOver(h, S) = SumOver(f, S) + SumOver(e, S)
<1> DEFINE Bad == {U \in SUBSET S : SumOver(h, U) # SumOver(f, U) + SumOver(e, U)}
<1>1. SUFFICES ASSUME Bad # {} PROVE FALSE
  OBVIOUS
<1>2. PICK U \in Bad : \A V \in Bad : V \subseteq U => V = U
  <2>1. Bad \in SUBSET SUBSET S
    OBVIOUS
  <2> HIDE DEF Bad
  <2> QED BY <1>1, <2>1, Leanest
<1>3. U # {}
  <2>1. SumOver(h, {}) = 0 /\ SumOver(f, {}) = 0 /\ SumOver(e, {}) = 0
    BY SumNothing
  <2>2. SumOver(h, {}) = SumOver(f, {}) + SumOver(e, {})
    BY <2>1
  <2> QED BY <2>2
<1>4. PICK x \in U : TRUE
  BY <1>3
<1> DEFINE V == U \ {x}
<1>5. IsFiniteSet(U) /\ \A y \in U : f[y] \in Int /\ e[y] \in Int /\ h[y] \in Int
  BY FS_Subset
<1>6. /\ SumOver(f, U) = f[x] + SumOver(f, V)
      /\ SumOver(e, U) = e[x] + SumOver(e, V)
      /\ SumOver(h, U) = h[x] + SumOver(h, V)
  BY <1>5, SumTaken
<1>8. V \notin Bad /\ V \in SUBSET U
  <2>1. V \subseteq U /\ V # U
    BY <1>4
  <2> HIDE DEF Bad
  <2>2. V \notin Bad
    BY <1>2, <2>1
  <2> QED BY <2>1, <2>2
<1>9. SumOver(h, V) = SumOver(f, V) + SumOver(e, V)
  BY <1>8
<1>10. SumOver(f, V) \in Int /\ SumOver(e, V) \in Int
  <2> HIDE DEF V, Bad
  <2>1. \A y \in U : f[y] \in Int
    BY <1>5
  <2>2. \A y \in U : e[y] \in Int
    BY <1>5
  <2> QED BY <2>1, <2>2, <1>5, <1>8, SumWithin
<1>11. SumOver(h, U) # SumOver(f, U) + SumOver(e, U)
  BY <1>2
<1>12. f[x] \in Int /\ e[x] \in Int /\ h[x] = f[x] + e[x]
  BY <1>4
<1> HIDE DEF V, Bad
<1> QED BY <1>6, <1>9, <1>10, <1>11, <1>12

\* t is the sum of f over each class k sorts the elements into.
Classed(S, A, f, k, t) ==
  /\ IsFiniteSet(S) /\ IsFiniteSet(A)
  /\ \A x \in S : f[x] \in Int /\ k[x] \in A
  /\ \A a \in A : t[a] = SumOver(f, {x \in S : k[x] = a})

\* A sum taken class by class.
LEMMA SumClasses ==
  ASSUME NEW S, NEW A, NEW f, NEW k, NEW t, Classed(S, A, f, k, t)
  PROVE  SumOver(f, S) = SumOver(t, A)
<1> DEFINE In(B) == {x \in S : k[x] \in B}
           Bad == {B \in SUBSET A : SumOver(f, In(B)) # SumOver(t, B)}
<1>01. /\ IsFiniteSet(S) /\ IsFiniteSet(A)
       /\ \A x \in S : f[x] \in Int /\ k[x] \in A
       /\ \A a \in A : t[a] = SumOver(f, {x \in S : k[x] = a})
  BY Zenon DEF Classed
<1> USE <1>01
<1>0. \A a \in A : t[a] \in Int
  <2>1. \A a \in A : {x \in S : k[x] = a} \in SUBSET S
    OBVIOUS
  <2>2. \A a \in A : SumOver(f, {x \in S : k[x] = a}) \in Int
    BY <2>1, SumWithin
  <2> QED BY <2>2
<1>1. SUFFICES ASSUME Bad # {} PROVE FALSE
  <2>1. In(A) = S /\ A \in SUBSET A
    OBVIOUS
  <2>2. A \notin Bad => SumOver(f, In(A)) = SumOver(t, A)
    BY <2>1
  <2> QED BY <2>1, <2>2
<1>2. PICK B \in Bad : \A V \in Bad : V \subseteq B => V = B
  <2>1. Bad \in SUBSET SUBSET A
    OBVIOUS
  <2> HIDE DEF Bad
  <2> QED BY <1>1, <2>1, Leanest
<1>3. B # {}
  <2>1. In({}) = {}
    OBVIOUS
  <2> HIDE DEF In
  <2>2. SumOver(f, In({})) = SumOver(t, {})
    BY <2>1, SumNothing
  <2> QED BY <2>2
<1>4. PICK a \in B : TRUE
  BY <1>3
<1> DEFINE V == B \ {a}
           C == {x \in S : k[x] = a}
<1>5. SumOver(t, B) = t[a] + SumOver(t, V)
  <2>1. IsFiniteSet(B) /\ \A b \in B : t[b] \in Int
    BY <1>0, FS_Subset
  <2> QED BY <1>4, <2>1, SumTaken
<1>6. SumOver(f, In(B)) = SumOver(f, C) + SumOver(f, In(V))
  <2>1. In(B) = C \cup In(V) /\ C \cap In(V) = {} /\ C \in SUBSET S /\ In(V) \in SUBSET S
    BY <1>4
  <2>2. IsFiniteSet(C) /\ IsFiniteSet(In(V)) /\ \A x \in C \cup In(V) : f[x] \in Int
    BY <2>1, FS_Subset
  <2> HIDE DEF C, In, V
  <2> QED BY <2>1, <2>2, SumUnion
<1>7. V \notin Bad /\ V \in SUBSET A
  <2>1. V \subseteq B /\ V # B /\ B \in SUBSET A
    BY <1>4
  <2> HIDE DEF Bad
  <2>2. V \notin Bad
    BY <1>2, <2>1
  <2> QED BY <2>1, <2>2
<1>8. SumOver(f, In(V)) = SumOver(t, V)
  BY <1>7
<1>9. t[a] = SumOver(f, C)
  OBVIOUS
<1>10. SumOver(f, In(B)) # SumOver(t, B)
  BY <1>2
<1> HIDE DEF In, V, C, Bad
<1> QED BY <1>5, <1>6, <1>8, <1>9, <1>10

\* A sum told over again, once for each element.
LEMMA SumCarried ==
  ASSUME NEW K, IsFiniteSet(K), NEW S, IsFiniteSet(S), NEW f, \A x \in S : f[x] \in Int,
         NEW b, \A i \in K : b[i] \in S, \A i, j \in K : b[i] = b[j] => i = j,
         \A x \in S : \E i \in K : b[i] = x,
         NEW e, \A i \in K : e[i] = f[b[i]]
  PROVE  SumOver(e, K) = SumOver(f, S)
<1>1. \A i \in K : e[i] \in Int
  OBVIOUS
<1>2. ASSUME NEW x \in S PROVE f[x] = SumOver(e, {i \in K : b[i] = x})
  <2>1. PICK i \in K : b[i] = x
    OBVIOUS
  <2>2. {j \in K : b[j] = x} = {i}
    BY <2>1
  <2>3. SumOver(e, {i}) = e[i]
    BY <1>1, SumOfOne
  <2> QED BY <2>1, <2>2, <2>3
<1>3. \A x \in S : f[x] = SumOver(e, {i \in K : b[i] = x})
  BY <1>2
<1>4. Classed(K, S, e, b, f)
  BY <1>1, <1>3, Zenon DEF Classed
<1> QED BY <1>4, SumClasses

\* Where every weight stands against its opposite, they come to nothing.
LEMMA SumOfPairs ==
  ASSUME NEW S, IsFiniteSet(S), NEW f, \A x \in S : f[x] \in Int,
         NEW p, \A x \in S : p[x] \in S /\ p[p[x]] = x /\ f[p[x]] = -f[x]
  PROVE  SumOver(f, S) = 0
<1> DEFINE e == [x \in S |-> f[p[x]]]
           z == [x \in S |-> 0]
<1>1. SumOver(e, S) = SumOver(f, S)
  <2>1. \A x \in S : p[x] \in S
    OBVIOUS
  <2>2. \A x, y \in S : p[x] = p[y] => x = y
    OBVIOUS
  <2>3. \A x \in S : \E y \in S : p[y] = x
    OBVIOUS
  <2>4. \A x \in S : e[x] = f[p[x]]
    OBVIOUS
  <2> HIDE DEF e
  <2> QED BY <2>1, <2>2, <2>3, <2>4, SumCarried
<1>2. SumOver(z, S) = SumOver(f, S) + SumOver(e, S)
  <2>1. \A x \in S : f[x] \in Int /\ e[x] \in Int /\ z[x] = f[x] + e[x]
    OBVIOUS
  <2> HIDE DEF e, z
  <2> QED BY <2>1, SumAdds
<1>3. SumOver(z, S) = 0
  <2>1. \A x \in S : z[x] = 0
    OBVIOUS
  <2> HIDE DEF z
  <2> QED BY <2>1, SumZero
<1>4. SumOver(f, S) \in Int
  BY SumTaken
<1> HIDE DEF e, z
<1> QED BY <1>1, <1>2, <1>3, <1>4

-----------------------------------------------------------------------------
(* The basis of a book. *)

\* What a row takes out of the basis of its paper, as its own amount tells.
BasisSent(o) ==
  IF o.typ \in Departures \cup {"spinoff_out"} THEN o.amount ELSE 0

\* A breakdown that was accepted costs what its row says.
LEMMA TakenIsSent ==
  ASSUME NEW b, NEW o, FoldOne(b, o).ok, o.typ \in Departures => o.lots # <<>>
  PROVE  BasisTaken(o) = BasisSent(o)
<1> SUFFICES ASSUME o.typ \in Departures \cup {"spinoff_out"} PROVE LotsCost(o.lots) = o.amount
  BY DEF BasisTaken, BasisSent
<1>1. RequiresInstrument(o.typ) /\ o.typ # "conversion"
  BY DEF RequiresInstrument, Departures
<1> DEFINE f == FoldOne(b, o)
           p == Settle(PositionOf(b, o.paper), o).pos
<1>2. Apply(p, o).ok
  <2>1. Touched(b, o, f.pos)
    BY <1>1, FoldOneGives DEF Untouched
  <2> QED BY <2>1, Zenon DEF Touched
<1> HIDE DEF p, f
<1>3. CASE o.typ \in Departures
  <2> DEFINE fits == CheckTransferLots(o)
             y == Provided(fits, p)
  <2>1. Apply(p, o) = ApplyDeparture(p, o)
    BY <1>3 DEF Apply, Departures, Arrivals
  <2>2. ApplyDeparture(p, o) = IF y.ok THEN ReleaseRecorded(y.pos, o) ELSE y
    BY <1>3, Zenon DEF ApplyDeparture, Then
  <2> HIDE DEF fits
  <2>3. y.ok = fits
    BY GateIs
  <2> HIDE DEF y
  <2>4. y.ok
    <3> SUFFICES ASSUME ~y.ok PROVE FALSE
      OBVIOUS
    <3>1. Apply(p, o) = y
      BY <2>1, <2>2, Zenon
    <3> QED BY <1>2, <3>1
  <2> QED BY <2>3, <2>4, Zenon DEF fits, CheckTransferLots
<1>4. CASE o.typ = "spinoff_out"
  <2> DEFINE fits == o.amount >= 0 /\ CheckSpinoffLots(o)
             y == Provided(fits, p)
  <2>1. Apply(p, o) = ApplySpinoffOut(p, o)
    BY <1>4 DEF Apply, Departures, Arrivals
  <2>2. ApplySpinoffOut(p, o) = IF y.ok THEN Run(Carved, y.pos, o.lots) ELSE y
    BY Zenon DEF ApplySpinoffOut, Then
  <2> HIDE DEF fits
  <2>3. y.ok = fits
    BY GateIs
  <2> HIDE DEF y
  <2>4. y.ok
    <3> SUFFICES ASSUME ~y.ok PROVE FALSE
      OBVIOUS
    <3>1. Apply(p, o) = y
      BY <2>1, <2>2, Zenon
    <3> QED BY <1>2, <3>1
  <2> QED BY <2>3, <2>4, Zenon DEF fits, CheckSpinoffLots
<1> QED BY <1>3, <1>4

\* A conversion is accepted with its breakdown only.
LEMMA ConvertedInParts ==
  ASSUME NEW b, NEW o, FoldOne(b, o).ok, o.typ = "exchange_out"
  PROVE  o.lots # <<>>
<1> SUFFICES ASSUME o.lots = <<>> PROVE FALSE
  OBVIOUS
<1>1. RequiresInstrument(o.typ) /\ o.typ # "conversion"
  BY DEF RequiresInstrument, Departures
<1> DEFINE f == FoldOne(b, o)
           p == Settle(PositionOf(b, o.paper), o).pos
<1>2. Apply(p, o).ok
  <2>1. Touched(b, o, f.pos)
    BY <1>1, FoldOneGives DEF Untouched
  <2> QED BY <2>1, Zenon DEF Touched
<1> HIDE DEF p, f
<1> DEFINE y == Provided(FALSE, p)
           Gone(r) == Provided(r.ok, r.pos)
<1>3. Apply(p, o) = ApplyDeparture(p, o)
  BY DEF Apply, Departures, Arrivals
<1>4. ApplyDeparture(p, o) = IF Provided(o.typ # "exchange_out", p).ok
                             THEN Gone(ReleaseFIFO(Provided(o.typ # "exchange_out", p).pos, o.qty))
                             ELSE Provided(o.typ # "exchange_out", p)
  BY Zenon DEF ApplyDeparture, Then
<1>5. Provided(o.typ # "exchange_out", p).ok = FALSE
  <2> DEFINE no == o.typ # "exchange_out"
  <2>1. no = FALSE
    OBVIOUS
  <2> HIDE DEF no
  <2>2. Provided(no, p).ok = no
    BY GateIs
  <2> QED BY <2>1, <2>2 DEF no
<1> QED BY <1>2, <1>3, <1>4, <1>5, Zenon

\* The basis a position holds or gave up, and that of a book.
KeptBasis(p) == p.cost + GivenUp(p.realized)
KeptIn(b) == [x \in DOMAIN b |-> KeptBasis(b[x])]
BookBasis(b) == SumOver(KeptIn(b), DOMAIN b)

LEMMA NothingKept == KeptBasis(NoPosition) = 0
<1>1. NoPosition.cost = 0 /\ NoPosition.realized = <<>>
  BY DEF NoPosition
<1>2. GivenUp(<<>>) = 0
  <2> DEFINE t == [i \in DOMAIN <<>> |-> LotsCost(<<>>[i].released)]
  <2>1. t \in Seq(Int) /\ Len(t) = 0
    OBVIOUS
  <2>2. GivenUp(<<>>) = Total(t)
    BY Zenon DEF GivenUp
  <2> HIDE DEF t
  <2> QED BY <2>1, <2>2, TotalIs
<1> QED BY <1>1, <1>2 DEF KeptBasis

LEMMA KeptAre ==
  ASSUME NEW b, NEW d \in Nat, IsBook(b, d)
  PROVE  DOMAIN KeptIn(b) = DOMAIN b /\ \A x \in DOMAIN b : KeptIn(b)[x] = KeptBasis(b[x]) /\ KeptIn(b)[x] \in Int
<1>1. ASSUME NEW x \in DOMAIN b PROVE KeptBasis(b[x]) \in Int
  <2>1. IsPosition(b[x], d)
    BY DEF IsBook
  <2>2. b[x].cost \in Nat /\ GivenUp(b[x].realized) \in Int
    BY <2>1, HeldIs
  <2> QED BY <2>2 DEF KeptBasis
<1> QED BY <1>1 DEF KeptIn

\* An entry accepted adds what it brings to the basis of the book, and takes
\* what it sends.
LEMMA FoldedBasis ==
  ASSUME NEW b, NEW d \in Nat, IsBook(b, d), IsFiniteSet(DOMAIN b),
         NEW o, Entry(o), NEW f, FoldedInto(b, o, f), FoldOne(b, o).ok,
         o.typ = "transfer_out" => o.lots # <<>>
  PROVE  /\ IsFiniteSet(DOMAIN f) /\ BookBasis(b) \in Int
         /\ BookBasis(f) = BookBasis(b) + BasisBrought(o) - BasisSent(o)
<1>0. o.typ \in Departures => o.lots # <<>>
  BY ConvertedInParts DEF Departures
<1>1. BasisTaken(o) = BasisSent(o) /\ BasisSent(o) \in Int /\ BasisBrought(o) \in Int
  <2>1. BasisSent(o) \in Int
    BY DEF BasisSent, Entry, IsEntry
  <2> QED BY <1>0, <2>1, TakenIsSent DEF FoldedInto
<1>2. BookBasis(b) \in Int
  BY KeptAre, SumTaken DEF BookBasis
<1>3. CASE f = b /\ BasisBrought(o) = 0 /\ BasisTaken(o) = 0
  BY <1>1, <1>2, <1>3
<1> DEFINE x == o.paper
           D == DOMAIN b \ {x}
           w == KeptIn(b)
           v == KeptIn(f)
           p == PositionOf(b, x)
<1>4. CASE /\ DOMAIN f = DOMAIN b \cup {o.paper}
           /\ \A y \in DOMAIN b \ {o.paper} : f[y] = b[y]
           /\ IsPosition(f[o.paper], o.day)
           /\ Reckoned(PositionOf(b, o.paper), f[o.paper], o.day, BasisBrought(o), BasisTaken(o))
  <2>1. IsFiniteSet(DOMAIN f) /\ IsFiniteSet(D)
    BY <1>4, FS_AddElement, FS_Subset
  <2>2. v[x] = KeptBasis(p) + BasisBrought(o) - BasisSent(o)
    <3>1. v[x] = KeptBasis(f[x])
      BY <1>4 DEF KeptIn
    <3>2. f[x].cost + GivenUp(f[x].realized) = p.cost + GivenUp(p.realized) + BasisBrought(o) - BasisTaken(o)
      BY <1>4, Zenon DEF Reckoned
    <3> HIDE DEF v, p
    <3> QED BY <1>1, <3>1, <3>2, Zenon DEF KeptBasis
  <2>3. \A y \in D : v[y] = w[y] /\ w[y] \in Int
    <3>1. \A y \in D : f[y] = b[y] /\ y \in DOMAIN f
      BY <1>4
    <3> QED BY <3>1, KeptAre DEF KeptIn
  <2>4. KeptBasis(p) \in Int
    <3>1. CASE x \in DOMAIN b
      <4>1. p = b[x]
        BY <3>1 DEF PositionOf
      <4>2. KeptBasis(b[x]) \in Int
        BY <3>1, KeptAre
      <4> QED BY <4>1, <4>2
    <3>2. CASE x \notin DOMAIN b
      <4>1. p = NoPosition
        BY <3>2 DEF PositionOf
      <4> QED BY <4>1, NothingKept
    <3> QED BY <3>1, <3>2
  <2>5. BookBasis(f) = v[x] + SumOver(v, D)
    <3>1. v[x] \in Int
      <4> HIDE DEF v, p
      <4> QED BY <1>1, <2>2, <2>4
    <3>2. \A y \in DOMAIN f : v[y] \in Int
      <4> HIDE DEF v, w
      <4> QED BY <1>4, <2>3, <3>1
    <3>3. (DOMAIN f) \ {x} = D /\ x \in DOMAIN f
      BY <1>4
    <3> HIDE DEF v, D
    <3>4. SumOver(v, DOMAIN f) = v[x] + SumOver(v, (DOMAIN f) \ {x})
      BY <2>1, <3>2, <3>3, SumTaken
    <3> QED BY <3>3, <3>4 DEF BookBasis, v
  <2>6. SumOver(v, D) = SumOver(w, D)
    <3> HIDE DEF v, w, D
    <3> QED BY <2>1, <2>3, SumSame
  <2>7. BookBasis(b) = KeptBasis(p) + SumOver(w, D)
    <3>1. CASE x \in DOMAIN b
      <4>1. p = b[x] /\ w[x] = KeptBasis(b[x])
        BY <3>1 DEF PositionOf, KeptIn
      <4>2. \A y \in DOMAIN b : w[y] \in Int
        BY KeptAre
      <4> HIDE DEF w, p, D
      <4>3. SumOver(w, DOMAIN b) = w[x] + SumOver(w, (DOMAIN b) \ {x})
        BY <3>1, <4>2, SumTaken
      <4> QED BY <4>1, <4>3 DEF BookBasis, w, D
    <3>2. CASE x \notin DOMAIN b
      <4>1. p = NoPosition /\ D = DOMAIN b
        BY <3>2 DEF PositionOf
      <4>2. BookBasis(b) = SumOver(w, D)
        BY <4>1 DEF BookBasis
      <4> HIDE DEF w, p, D
      <4> QED BY <1>2, <4>1, <4>2, NothingKept
    <3> QED BY <3>1, <3>2
  <2>8. SumOver(w, D) \in Int
    <3> HIDE DEF w, D
    <3>1. \A y \in D : w[y] \in Int
      BY <2>3
    <3> QED BY <2>1, <3>1, SumTaken
  <2> HIDE DEF v, w, D, p
  <2> QED BY <1>1, <1>2, <2>1, <2>2, <2>4, <2>5, <2>6, <2>7, <2>8
<1> QED
  <2>1. \/ f = b /\ BasisBrought(o) = 0 /\ BasisTaken(o) = 0 /\ NumbersOf(o) = {}
        \/ /\ DOMAIN f = DOMAIN b \cup {o.paper}
           /\ \A y \in DOMAIN b \ {o.paper} : f[y] = b[y]
           /\ IsPosition(f[o.paper], o.day) /\ Joins(PositionOf(b, o.paper), f[o.paper], o)
           /\ (o.typ \in Departures => o.lots # <<>>)
              => Reckoned(PositionOf(b, o.paper), f[o.paper], o.day, BasisBrought(o), BasisTaken(o))
    BY Zenon DEF FoldedInto
  <2> HIDE DEF w, v, D, x, p
  <2> QED BY <1>0, <1>3, <1>4, <2>1

\* The basis of the book a journal makes is what its rows bring less what they
\* send.
LEMMA ChainBasis ==
  ASSUME NEW O, Daily(O), NEW b, BookChain(O, b),
         \A i \in 1..Len(O) : O[i].typ = "transfer_out" => O[i].lots # <<>>,
         NEW w, \A i \in 1..Len(O) : w[i] = BasisBrought(O[i]) - BasisSent(O[i])
  PROVE  BookBasis(b[Len(O)]) = SumOver(w, 1..Len(O)) /\ IsFiniteSet(DOMAIN b[Len(O)])
<1> DEFINE n == Len(O)
           Fine(k) == /\ IsFiniteSet(DOMAIN b[k]) /\ BookBasis(b[k]) = SumOver(w, 1..k)
<1>1. n \in Nat
  BY DEF Daily
<1>2. Fine(0)
  <2>1. b[0] = <<>> /\ DOMAIN <<>> = {} /\ 1..0 = {}
    BY DEF BookChain
  <2>2. SumOver(w, {}) = 0 /\ BookBasis(<<>>) = 0
    BY <2>1, SumNothing DEF BookBasis
  <2> QED BY <2>1, <2>2, FS_EmptySet
<1>3. ASSUME NEW k \in 1..n, Fine(k - 1) PROVE Fine(k)
  <2> DEFINE c == b[k - 1]
             f == b[k]
             o == O[k]
             e == DayAt(O, k - 1)
  <2>1. IsBook(c, e) /\ e \in Nat /\ FoldedInto(c, o, f) /\ FoldOne(c, o).ok /\ Entry(o)
    BY DaysAre DEF BookChain, Daily
  <2>2. o.typ = "transfer_out" => o.lots # <<>>
    OBVIOUS
  <2>3. IsFiniteSet(DOMAIN c)
    BY <1>3
  <2> HIDE DEF c, f, o, e
  <2>4. /\ IsFiniteSet(DOMAIN f) /\ BookBasis(c) \in Int
        /\ BookBasis(f) = BookBasis(c) + BasisBrought(o) - BasisSent(o)
    BY <2>1, <2>2, <2>3, FoldedBasis
  <2>5. w[k] = BasisBrought(o) - BasisSent(o) /\ BasisBrought(o) \in Int /\ BasisSent(o) \in Int
    <3>1. BasisBrought(o) \in Int /\ BasisSent(o) \in Int
      BY <2>1 DEF FoldedInto, BasisSent, Entry, IsEntry
    <3> QED BY <3>1 DEF o
  <2>6. SumOver(w, 1..k) = w[k] + SumOver(w, 1..(k - 1))
    <3>0. k \in Nat \ {0}
      BY <1>1
    <3>1. (1..k) \ {k} = 1..(k - 1) /\ IsFiniteSet(1..k) /\ k \in 1..k
      <4> HIDE DEF n
      <4>1. (1..k) \ {k} = 1..(k - 1) /\ k \in 1..k
        BY <3>0
      <4>2. IsFiniteSet(1..k)
        BY <3>0, FS_Interval
      <4> QED BY <4>1, <4>2
    <3>2. \A i \in 1..k : w[i] \in Int
      <4>1. \A i \in 1..k : i \in 1..n
        OBVIOUS
      <4>2. \A i \in 1..n : BasisBrought(O[i]) \in Int /\ BasisSent(O[i]) \in Int
        BY DEF BookChain, FoldedInto, BasisSent, Daily, Entry, IsEntry
      <4> QED BY <4>1, <4>2
    <3> QED BY <3>1, <3>2, SumTaken
  <2>7. BookBasis(c) = SumOver(w, 1..(k - 1))
    BY <1>3 DEF c
  <2>8. BookBasis(f) = SumOver(w, 1..k)
    BY <2>4, <2>5, <2>6, <2>7
  <2> QED BY <2>4, <2>8 DEF f
<1>4. Fine(n)
  <2> DEFINE Bad == {k \in 0..n : ~Fine(k)}
  <2>1. SUFFICES ASSUME Bad # {} PROVE FALSE
    <3> HIDE DEF Fine
    <3> QED BY <1>1, <2>1
  <2>2. PICK k \in Bad : \A m \in Bad : k <= m
    <3>1. Bad \in SUBSET Nat
      <4> HIDE DEF Fine
      <4> QED BY <1>1
    <3> HIDE DEF Bad
    <3> QED BY <2>1, <3>1, SmallestOf
  <2> HIDE DEF Fine
  <2>3. k # 0 /\ k \in 0..n /\ ~Fine(k)
    BY <1>2
  <2>4. k \in 1..n /\ k - 1 \in 0..n
    BY <1>1, <2>3
  <2>5. Fine(k - 1)
    <3>1. k - 1 \notin Bad
      <4>1. ~(k <= k - 1)
        BY <2>4
      <4> HIDE DEF Bad
      <4> QED BY <2>2, <4>1
    <3> QED BY <2>4, <3>1
  <2> QED BY <1>3, <2>3, <2>4, <2>5
<1> QED BY <1>4

-----------------------------------------------------------------------------
(* What an importer's delta leaves on its own. *)

\* What an offer adds are legs of the event, a move's with what was released.
Laded(x, legs) ==
  (\E k \in DOMAIN legs : x.id = legs[k].id) /\ (legs[1].typ = "transfer_out" => x.lots # <<>>)

LEMMA BasisLaded ==
  ASSUME NEW P, NEW b, Pending(P, b), NEW legs, Offerable(legs, b), ValidImported(legs[1]),
         ReleaseBasis(P, legs).ok, NEW x \in LegSet(ReleaseBasis(P, legs).pos)
  PROVE  Laded(x, legs)
<1> DEFINE out == legs[1]
           ahead == {y \in RowsOf(P, out.acct) : FoldsBefore(y, out)}
           r == Release(ahead, out.paper, out.qty)
<1>1. CASE out.typ # "transfer_out"
  <2>1. ReleaseBasis(P, legs) = Provided(TRUE, legs)
    BY <1>1, Zenon DEF ReleaseBasis
  <2>2. ReleaseBasis(P, legs).pos = legs
    BY <2>1, GateIs
  <2> QED BY <1>1, <2>2, Zenon DEF LegSet, Laded
<1>2. CASE out.typ = "transfer_out"
  <2>1. ReleaseBasis(P, legs) = Provided(r.ok, OnEveryLeg(legs, r.lots))
    BY <1>2, Zenon DEF ReleaseBasis
  <2>2. ReleaseBasis(P, legs).pos = OnEveryLeg(legs, r.lots) /\ r.ok
    BY <2>1, GateIs
  <2>3. out.qty > 0 /\ out.qty \in Int
    BY <1>2 DEF ValidImported, TransferLeg, Offerable, IsEntry
  <2>4. ahead \in SUBSET P
    BY DEF RowsOf
  <2>5. Readable(ahead)
    BY <2>4, ReadableRows DEF Pending
  <2>6. out.qty \in Nat \ {0}
    BY <2>3
  <2> DEFINE q == out.qty
  <2> HIDE DEF ahead, q
  <2>7. Release(ahead, out.paper, q).lots # <<>>
    <3>1. q \in Nat \ {0} /\ Release(ahead, out.paper, q).ok
      BY <2>2, <2>6 DEF q
    <3>2. /\ Release(ahead, out.paper, q).lots \in Seq(Piece)
          /\ Release(ahead, out.paper, q).lots # <<>>
      BY <2>5, <3>1, ReleaseOfRows
    <3> QED BY <3>2
  <2> DEFINE lots == r.lots
             w == OnEveryLeg(legs, lots)
  <2>8. lots # <<>>
    BY <2>7 DEF q
  <2> HIDE DEF lots
  <2>9. /\ DOMAIN w = DOMAIN legs
        /\ \A k \in DOMAIN legs : /\ w[k].id = legs[k].id /\ w[k].lots = lots
                                  /\ w[k].amount = LotsCost(lots)
    <3>1. \A k \in DOMAIN legs : IsRow(legs[k])
      BY DEF Offerable, IsEntry
    <3> QED BY <3>1, OnEveryLegIs
  <2> HIDE DEF w
  <2>10. ReleaseBasis(P, legs).pos = w
    BY <2>2 DEF w, lots
  <2>11. PICK k \in DOMAIN legs : x = w[k]
    BY <2>9, <2>10, Zenon DEF LegSet
  <2> QED BY <2>8, <2>9, <2>11, Zenon DEF Laded
<1> QED BY <1>1, <1>2

LEMMA OfferLades ==
  ASSUME NEW P, NEW b, Pending(P, b), NEW legs, Offerable(legs, b),
         NEW kind \in {"together", "one"}, NEW x \in StepOf(kind, P, legs).pos
  PROVE  x \in P \/ Laded(x, legs)
<1>1. ASSUME x \in Offer(P, legs).pos PROVE x \in P \/ Laded(x, legs)
  <2> DEFINE valid == \A k \in DOMAIN legs : ValidImported(legs[k])
             r == ReleaseBasis(P, legs)
  <2>1. Offer(P, legs) = IF valid THEN WithLegs(P, r) ELSE Provided(TRUE, P)
    BY Zenon DEF Offer
  <2>2. valid => ValidImported(legs[1])
    BY DEF Offerable
  <2> HIDE DEF valid, r
  <2>3. WithLegs(P, r).pos = IF r.ok THEN P \cup LegSet(r.pos) ELSE P
    BY GateIs DEF WithLegs
  <2>4. CASE ~valid \/ ~r.ok
    <3>1. Offer(P, legs).pos = P
      BY <2>1, <2>3, <2>4, GateIs
    <3> QED BY <1>1, <3>1
  <2>5. CASE valid /\ r.ok
    <3>1. Offer(P, legs).pos = P \cup LegSet(r.pos)
      BY <2>1, <2>3, <2>5
    <3>2. x \in LegSet(r.pos) => Laded(x, legs)
      BY <2>2, <2>5, BasisLaded DEF r
    <3> QED BY <1>1, <3>1, <3>2
  <2> QED BY <2>4, <2>5
<1>2. CASE kind = "together"
  BY <1>1, <1>2 DEF StepOf
<1>3. CASE kind = "one"
  <2>1. \A after : IfHeld(P, legs, after).pos \in {after.pos, P}
    BY DEF IfHeld, Provided
  <2>2. StepOf(kind, P, legs) = IfHeld(P, legs, Offer(P, legs))
    BY <1>3, Zenon DEF StepOf, OfferIfHeld
  <2>3. StepOf(kind, P, legs).pos \in {Offer(P, legs).pos, P}
    BY <2>1, <2>2, Zenon
  <2> QED BY <1>1, <2>3
<1> QED BY <1>2, <1>3

\* No leg of a move stands among the rows of P without what was released.
Laden(P, O, n) ==
  \A l \in 1..n : \A k \in DOMAIN O[l] : \A x \in P :
     x.id = O[l][k].id /\ O[l][1].typ = "transfer_out" => x.lots # <<>>

LEMMA OfferedLaden ==
  ASSUME NEW O, NEW n \in Nat, Len(O) = n, NEW c \in Nat, Numbering(O, n, c),
         NEW kept, Pending(kept, c), NEW kind \in {"together", "one"}
  PROVE  Laden(RunOf(kind, kept, O).pos, O, n)
<1>1. PICK after : Steps(kind, kept, O, after) /\ RunOf(kind, kept, O) = after[n]
  <2>1. Len(O) \in Nat
    OBVIOUS
  <2> QED BY <2>1, RunSteps
<1>2. /\ after[0] = Provided(TRUE, kept)
      /\ \A i \in 1..n : after[i] = IF after[i - 1].ok THEN StepOf(kind, after[i - 1].pos, O[i]) ELSE after[i - 1]
  BY <1>1, Zenon DEF Steps
<1>0. \A l \in 1..n : \A k \in DOMAIN O[l] : k \in {1, 2} /\ O[l][k].id = c + 2 * l - 2 + k
  BY DEF Numbering, Offerable
<1> DEFINE Good(P, i) == Pending(P, c + 2 * i) /\ Laden(P, O, n)
           G == {i \in 0..n : Good(after[i].pos, i)}
<1>3. 0 \in G
  <2>1. after[0].pos = kept
    BY <1>2, GateIs
  <2>2. c + 2 * 0 = c
    OBVIOUS
  <2>3. \A l \in 1..n : \A k \in DOMAIN O[l] : \A x \in kept : x.id # O[l][k].id
    <3> SUFFICES ASSUME NEW l \in 1..n, NEW k \in DOMAIN O[l], NEW x \in kept
                 PROVE  x.id # O[l][k].id
      OBVIOUS
    <3>1. x.id \in Int /\ x.id <= c
      BY DEF Pending, Readable
    <3>2. k \in {1, 2} /\ O[l][k].id = c + 2 * l - 2 + k
      BY <1>0
    <3> QED BY <3>1, <3>2
  <2>4. Laden(kept, O, n)
    BY <2>3, Zenon DEF Laden
  <2> QED BY <2>1, <2>2, <2>4
<1>4. ASSUME NEW i \in 1..n, i - 1 \in G PROVE i \in G
  <2> DEFINE P == after[i - 1].pos
             Q == after[i].pos
             b == c + 2 * i - 2
  <2>1. b = c + 2 * (i - 1) /\ b + 2 = c + 2 * i /\ b \in Int
    OBVIOUS
  <2>2. Pending(P, b) /\ Offerable(O[i], b) /\ Laden(P, O, n)
    BY <1>4, <2>1 DEF Numbering
  <2>3. after[i] = IF after[i - 1].ok THEN StepOf(kind, P, O[i]) ELSE after[i - 1]
    BY <1>2
  <2> HIDE DEF b, P
  <2>4. Pending(Q, b + 2)
    <3>1. CASE after[i - 1].ok
      BY <2>2, <2>3, <3>1, OfferPends
    <3>2. CASE ~after[i - 1].ok
      <4>1. Q = P
        BY <2>3, <3>2 DEF P
      <4> QED BY <2>1, <2>2, <4>1, PendingStays
    <3> QED BY <3>1, <3>2
  <2>5. \A x \in Q : x \in P \/ Laded(x, O[i])
    <3>1. CASE after[i - 1].ok
      BY <2>2, <2>3, <3>1, OfferLades
    <3>2. CASE ~after[i - 1].ok
      <4>1. Q = P
        BY <2>3, <3>2 DEF P
      <4> QED BY <4>1
    <3> QED BY <3>1, <3>2
  <2> HIDE DEF Q
  <2>6. ASSUME NEW l \in 1..n, NEW k \in DOMAIN O[l], NEW x \in Q,
               x.id = O[l][k].id, O[l][1].typ = "transfer_out"
        PROVE  x.lots # <<>>
    <3>1. CASE x \in P
      BY <2>2, <2>6, <3>1, Zenon DEF Laden
    <3>2. CASE Laded(x, O[i])
      <4>1. PICK j \in DOMAIN O[i] : x.id = O[i][j].id
        BY <3>2, Zenon DEF Laded
      <4>2. l = i
        <5>1. k \in {1, 2} /\ O[l][k].id = c + 2 * l - 2 + k
          BY <1>0
        <5>2. j \in {1, 2} /\ O[i][j].id = c + 2 * i - 2 + j
          BY <1>0
        <5>3. c + 2 * l - 2 + k = c + 2 * i - 2 + j
          BY <2>6, <4>1, <5>1, <5>2
        <5> QED BY <5>1, <5>2, <5>3
      <4> QED BY <2>6, <3>2, <4>2, Zenon DEF Laded
    <3> QED BY <2>5, <3>1, <3>2
  <2>7. Laden(Q, O, n)
    BY <2>6, Zenon DEF Laden
  <2> QED BY <2>1, <2>4, <2>7 DEF Q
<1>5. \A i \in 0..n : i \in G
  <2> HIDE DEF G
  <2> QED BY <1>3, <1>4, Climbing
<1>6. Laden(after[n].pos, O, n)
  BY <1>5
<1> QED BY <1>1, <1>6

\* A row of no pair brings or takes its own basis: nothing converted, and no
\* parcel gone without its breakdown.
Parted(r) ==
  r.group = 0 => ~CorporateLeg(r) /\ (r.typ = "transfer_out" => r.lots # <<>>)

LEMMA ImportParted ==
  ASSUME NEW some, NEW c, Recorded(some, c), Readable(some), NEW add, NEW n, Typed(add, n),
         Presentable(add, some, c), NEW remove, ApplyImportDelta(some, c, add, remove).ok,
         NEW r \in ApplyImportDelta(some, c, add, remove).add
  PROVE  Parted(r)
<1> DEFINE legs == LegsOf(add)
           accts == AcctsOf(remove \cup legs)
           kept == {x \in some \ remove : x.acct \in accts}
           base == Base(kept, c, legs)
           T == Stamped(add, c, base)
           offer == Offered(kept, Ordered(add, T), accts)
           A == offer.pos
           d == ApplyImportDelta(some, c, add, remove)
<1>1. d = Written(some, add, remove, kept, offer, Inserted(LegsOf(T), A))
  BY DEF ApplyImportDelta, ImportIn, ImportOver, ImportAsked, WrittenOf
<1>2. Recorded(kept, c) /\ c \in Nat
  BY Zenon DEF Recorded
<1>3. Readable(kept) /\ \A x \in kept : x.id <= c
  <2>1. kept \in SUBSET some
    OBVIOUS
  <2> HIDE DEF kept
  <2>2. Readable(kept)
    BY <2>1, ReadableRows
  <2> QED BY <1>2, <2>2 DEF Recorded
<1>4. base \in Int
  <2>1. \A leg \in legs : leg.stamp \in 0..(c + AppAhead)
    <3>1. \A leg \in legs : \E i \in DOMAIN add : \E k \in DOMAIN add[i] : leg = add[i][k]
      BY Zenon DEF LegsOf, LegSet
    <3> HIDE DEF legs
    <3> QED BY <3>1, Zenon DEF Presentable
  <2> HIDE DEF legs, kept
  <2>2. base = c + AppAhead + 1
    BY <1>2, <2>1, BaseIsNext
  <2> QED BY <1>2, <2>2, AppAheadAssumption
<1> HIDE DEF kept, base, legs, accts
<1>5. offer.ok /\ d.add = Inserted(LegsOf(T), A) /\ \A i \in DOMAIN add : ImportContract(add[i])
  <2> HIDE DEF offer, T, A, d
  <2>1. d.ok /\ d = Written(some, add, remove, kept, offer, Inserted(LegsOf(T), A))
    BY <1>1 DEF d
  <2> QED BY <2>1 DEF Written
<1> DEFINE O == Ordered(add, T)
<1>6. Numbering(O, n, c) /\ Len(O) = n
  <2>1. /\ Numbering(O, n, c) /\ Len(O) = n
        /\ \A leg \in LegsOf(T) : IsEntry(leg)
    BY <1>2, <1>4, StampedNumbering
  <2> QED BY <2>1
<1>7. n \in Nat /\ Eventful(add, n) /\ DOMAIN add = 1..n
  BY DEF Typed, Eventful
<1>8. /\ \A i \in 1..n : Place(add, i) \in 1..n
      /\ \A i, j \in 1..n : Place(add, i) = Place(add, j) => i = j
      /\ \A m \in 1..n : \E i \in 1..n : Place(add, i) = m /\ O[m] = T[i]
      /\ Len(O) = n
  <2> HIDE DEF T
  <2> QED BY <1>7, OrderedIs
<1>9. \A i \in 1..n : \E m \in 1..n : O[m] = T[i]
  <2> HIDE DEF O, T
  <2> TAKE i \in 1..n
  <2>1. Place(add, i) \in 1..n
    BY <1>8
  <2>2. PICK j \in 1..n : Place(add, j) = Place(add, i) /\ O[Place(add, i)] = T[j]
    BY <1>8, <2>1, Zenon
  <2>3. j = i
    BY <1>8, <2>2, Zenon
  <2> QED BY <2>1, <2>2, <2>3, Zenon
<1>10. /\ DOMAIN T = 1..n
       /\ \A i \in 1..n : /\ DOMAIN T[i] = DOMAIN add[i]
                          /\ \A k \in DOMAIN add[i] :
                               T[i][k] = StampedLeg(add[i][k], 2 * Place(add, i) + k - 2, c, base)
  BY <1>7, Zenon DEF Stamped
<1> HIDE DEF T, O
<1>11. PICK kind \in {"together", "one"} : A = RunOf(kind, kept, O).pos
  BY <1>5, OfferedRuns DEF O
<1> HIDE DEF offer, A, d
<1>12. Laden(A, O, n)
  <2>1. Pending(kept, c)
    BY <1>3 DEF Pending
  <2>2. Laden(RunOf(kind, kept, O).pos, O, n)
    BY <1>2, <1>6, <1>7, <2>1, OfferedLaden
  <2> QED BY <1>11, <2>2
<1>13. PICK leg \in LegsOf(T) : (\E x \in A : x.id = leg.id) /\ r = WithBreakdown(leg, A)
  <2>1. r \in Inserted(LegsOf(T), A)
    BY <1>5 DEF d
  <2> QED BY <2>1, Zenon DEF Inserted, WithBreakdowns
<1>20. PICK i \in 1..n : \E k \in DOMAIN add[i] : leg = T[i][k]
  BY <1>10, Zenon DEF LegsOf, LegSet
<1>14. PICK k \in DOMAIN add[i] : leg = T[i][k]
  BY <1>20
<1> DEFINE y == add[i][k]
<1>15. IsRow(leg) /\ Alike(leg, y)
  <2>1. IsRow(y)
    BY <1>7 DEF Eventful
  <2> DEFINE tick == 2 * Place(add, i) + k - 2
  <2>2. leg = StampedLeg(y, tick, c, base)
    BY <1>10, <1>14
  <2> HIDE DEF y, tick
  <2>3. LET w == StampedLeg(y, tick, c, base)
        IN IsRow(w) /\ Alike(w, y) /\ w.id = c + tick
           /\ w.lots = y.lots /\ w.amount = y.amount
           /\ (y.stamp # 0 => w.stamp = y.stamp)
    BY <2>1, StampedIs
  <2> QED BY <2>2, <2>3
<1>16. /\ Alike(r, leg)
       /\ \E x \in A : x.id = leg.id /\ r.lots = x.lots
  <2>1. LET w == WithBreakdown(leg, A)
        IN /\ IsRow(w) /\ Alike(w, leg) /\ w.id = leg.id /\ w.stamp = leg.stamp
           /\ \E x \in A : x.id = leg.id /\ w.lots = x.lots /\ w.amount = x.amount
    BY <1>13, <1>15, BreakdownIs
  <2> QED BY <1>13, <2>1, Zenon
<1>17. r.group = y.group /\ r.typ = y.typ /\ ImportContract(add[i]) /\ Shaped(add[i])
  BY <1>5, <1>7, <1>15, <1>16 DEF Alike, Eventful
<1>18. ASSUME r.group = 0 PROVE ~CorporateLeg(r)
  <2>1. CorporateLeg(y) => y.group # 0
    BY <1>17, Zenon DEF ImportContract
  <2> QED BY <1>17, <1>18, <2>1 DEF CorporateLeg
<1>19. ASSUME r.group = 0, r.typ = "transfer_out" PROVE r.lots # <<>>
  <2>1. k = 1
    <3>1. CASE add[i][1].group = 0
      <4>1. Len(add[i]) = 1
        BY <1>17, <3>1 DEF ImportContract
      <4> QED BY <1>17, <4>1 DEF Shaped
    <3>2. CASE add[i][1].group # 0
      <4>1. Len(add[i]) = 2 /\ add[i][2].group = add[i][1].group
        BY <1>17, <3>2 DEF ImportContract
      <4>2. k \in {1, 2}
        BY <1>17, <4>1 DEF Shaped
      <4> QED BY <1>17, <1>19, <3>2, <4>1, <4>2
    <3> QED BY <3>1, <3>2
  <2>2. PICK m \in 1..n : O[m] = T[i]
    BY <1>9
  <2>3. O[m][1].typ = "transfer_out" /\ 1 \in DOMAIN O[m] /\ O[m][1] = leg
    BY <1>10, <1>14, <1>15, <1>17, <1>19, <2>1, <2>2 DEF Alike
  <2>4. PICK x \in A : x.id = leg.id /\ r.lots = x.lots
    BY <1>16
  <2>5. x.lots # <<>>
    BY <1>12, <2>3, <2>4, Zenon DEF Laden
  <2> QED BY <2>4, <2>5
<1> QED BY <1>18, <1>19 DEF Parted

=============================================================================
