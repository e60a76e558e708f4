---------------------------- MODULE JournalProofs ----------------------------
(***************************************************************************)
(* Theorems of the journal: its rows are typed, the legs of every pair     *)
(* agree, rows that stay on their day stay in their order, and, while the  *)
(* process and the database read one clock, every journal folds at every   *)
(* moment, into queues of lots that add up to the positions, whatever the  *)
(* requests, the accounts and the bounds are.                              *)
(***************************************************************************)
EXTENDS JournalTx, LedgerProofs

LEMMA OneLeg ==
  ASSUME NEW op, IsRow(op)
  PROVE  Legible(<<op>>, 1)
BY DEF Legible

LEMMA TwoLegs ==
  ASSUME NEW out, NEW in, IsRow(out), IsRow(in), NEW c
  PROVE  Legible(Pair(c, out, in), 2)
<1>1. IsRow([out EXCEPT !.group = c + 1]) /\ IsRow([in EXCEPT !.group = c + 1])
  BY Zenon DEF IsRow
<1> DEFINE a == [out EXCEPT !.group = c + 1]
           b == [in EXCEPT !.group = c + 1]
<1>2. Pair(c, out, in) = <<a, b>>
  BY Zenon DEF Pair
<1> HIDE DEF a, b
<1>3. IsRow(a) /\ IsRow(b)
  BY <1>1, Zenon DEF a, b
<1>4. Legible(<<a, b>>, 2)
  BY <1>3 DEF Legible
<1> QED
  BY <1>2, <1>4, Zenon

-----------------------------------------------------------------------------
(* One accepted delta. *)

\* The rows an accepted delta leaves are typed when those it adds are.
LEMMA TypedAfter ==
  ASSUME TypeOK, NEW STATE d, NEW t \in Nat, Accepted(d), Taking(t),
         Recorded(d.add, clock + t)
  PROVE  TypeOK'
<1>1. clock \in Nat /\ clock' = clock + t /\ clock' \in 0..MaxClock
  BY RequestsAssumption DEF TypeOK, Taking
<1>2. Recorded(rows, clock)
  BY <1>1, Zenon DEF TypeOK, Recorded
<1>3. Recorded(rows, clock') /\ Recorded(d.add, clock')
  BY <1>1, <1>2, RecordedLater
<1>4. rows' \subseteq rows \cup d.add /\ archived' = archived
  BY DEF Accepted, After
<1>5. \A r \in rows' : r.acct \in Accounts
  BY <1>4, Zenon DEF Accepted, AcctsOf, TypeOK
<1> QED
  BY <1>1, <1>3, <1>4, <1>5, Zenon DEF TypeOK, Recorded

\* A journal the delta does not touch is the journal it was.
LEMMA DeltaReplays ==
  ASSUME JournalsReplay, NEW STATE d, Accepted(d), Sound(rows, d)
  PROVE  JournalsReplay'
<1> SUFFICES ASSUME NEW a \in Accounts
             PROVE  AccountReplays(rows', a)
  BY Zenon DEF JournalsReplay
<1>1. d.ok /\ rows' = (rows \ d.remove) \cup d.add
  BY Zenon DEF Accepted, After
<1>2. CASE a \in AcctsOf(d.remove \cup d.add)
  BY <1>1, <1>2, Zenon DEF Sound, Checked
<1>3. CASE a \notin AcctsOf(d.remove \cup d.add)
  <2>1. \A r \in d.remove \cup d.add : r.acct # a
    BY <1>3, Zenon DEF AcctsOf
  <2>2. RowsOf(rows', a) = RowsOf(rows, a)
    BY <1>1, <2>1 DEF RowsOf
  <2>3. AccountReplays(rows, a)
    BY Zenon DEF JournalsReplay
  <2> QED
    BY <2>2, <2>3, Zenon DEF AccountReplays, JournalOf
<1> QED
  BY <1>2, <1>3, Zenon

\* What an action asks of the delta it applies.
Justified(d, t) ==
  /\ Recorded(d.add, clock + t)
  /\ AppAhead = 0 => Sound(rows, d)

LEMMA RowsRecorded ==
  ASSUME TypeOK
  PROVE  Recorded(rows, clock) /\ clock \in Nat /\ clock \in Int
BY RequestsAssumption DEF TypeOK, Recorded

LEMMA HandJustified ==
  ASSUME TypeOK, NEW legs, NEW n, Legible(legs, n), NEW remove, NEW cond
  PROVE  Justified(HandDelta(rows, clock, legs, remove, cond), n)
<1>1. Recorded(rows, clock) /\ clock \in Nat
  BY RowsRecorded
<1>2. HandDelta(rows, clock, legs, remove, cond).add = Stored(clock, legs)
  BY DEF HandDelta
<1> QED
  BY <1>1, <1>2, HandRecorded, HandSound, Zenon DEF Justified

LEMMA RestateJustified ==
  ASSUME NEW old, NEW new, NEW cond, Recorded(new, clock), clock \in Int
  PROVE  Justified(RestateDelta(rows, old, new, cond), 0)
<1>1. RestateDelta(rows, old, new, cond).add = new
  BY DEF RestateDelta
<1>2. clock + 0 = clock
  OBVIOUS
<1> QED
  BY <1>1, <1>2, RestateSound, Zenon DEF Justified

-----------------------------------------------------------------------------
(* Every action applies one justified delta, or archives an account. *)

Applies == \E d, t : /\ t \in Nat /\ Accepted(d) /\ Taking(t)
                     /\ Justified(d, t)

LEMMA AppliedApplies ==
  ASSUME NEW STATE d, NEW t \in Nat, Justified(d, t), Applied(d, t)
  PROVE  Applies
BY Zenon DEF Applied, Applies

LEMMA ByHandApplies ==
  ASSUME NEW STATE d, NEW t \in Nat, Justified(d, t), ByHand(d, t)
  PROVE  Applies
BY AppliedApplies, Zenon DEF ByHand

LEMMA CreatesApply ==
  ASSUME TypeOK, DoCreate(HandRows) \/ DoReplace(HandRows)
  PROVE  Applies
<1>1. PICK op \in HandRows, replace \in SUBSET rows :
         ByHand(CreateReplacing(rows, clock, op, replace), 1)
  <2>1. CASE DoCreate(HandRows)
    BY <2>1, Zenon DEF DoCreate, Create
  <2>2. CASE DoReplace(HandRows)
    BY <2>2, Zenon DEF DoReplace
  <2> QED
    BY <2>1, <2>2, Zenon
<1>2. Legible(<<op>>, 1)
  BY RequestsAssumption, OneLeg, Zenon
<1>3. Justified(CreateReplacing(rows, clock, op, replace), 1)
  BY <1>2, HandJustified, Zenon DEF CreateReplacing
<1>4. 1 \in Nat
  OBVIOUS
<1> QED
  BY <1>1, <1>3, <1>4, ByHandApplies, Zenon

LEMMA UpdateApplies ==
  ASSUME TypeOK, DoUpdate(HandRows)
  PROVE  Applies
<1>1. PICK old \in rows, op \in HandRows : ByHand(Update(rows, old, op), 0)
  BY Zenon DEF DoUpdate, InPlace
<1>2. Recorded(Update(rows, old, op).add, clock)
  BY RequestsAssumption, RowsRecorded, UpdateRecorded, Zenon
<1>3. \E new, cond : Update(rows, old, op) = RestateDelta(rows, {old}, new, cond)
  BY Zenon DEF Update
<1>4. Justified(Update(rows, old, op), 0)
  <2>1. PICK new, cond : Update(rows, old, op) = RestateDelta(rows, {old}, new, cond)
    BY <1>3, Zenon
  <2>2. RestateDelta(rows, {old}, new, cond).add = new
    BY DEF RestateDelta
  <2>3. clock \in Int
    BY RowsRecorded
  <2> QED
    BY <1>2, <2>1, <2>2, <2>3, RestateJustified, Zenon
<1>5. 0 \in Nat
  OBVIOUS
<1> QED
  BY <1>1, <1>4, <1>5, ByHandApplies, Zenon

LEMMA DeleteApplies ==
  ASSUME TypeOK, DoDelete
  PROVE  Applies
<1>1. PICK op \in rows : ByHand(Delete(rows, op), 0)
  BY Zenon DEF DoDelete, InPlace
<1>2. Recorded({}, clock) /\ clock \in Int
  BY RowsRecorded DEF Recorded
<1>3. Justified(Delete(rows, op), 0)
  BY <1>2, RestateJustified, Zenon DEF Delete
<1>4. 0 \in Nat
  OBVIOUS
<1> QED
  BY <1>1, <1>3, <1>4, ByHandApplies, Zenon

\* Every pair and every arrival is written from a row of blanks.
LEMMA TransferApplies ==
  ASSUME TypeOK, DoTransfer(Transfers)
  PROVE  Applies
<1>1. PICK p \in Transfers : ByHand(CreateTransfer(rows, clock, p), 2)
  BY Zenon DEF DoTransfer
<1>2. \E out, in, cond : /\ IsRow(out) /\ IsRow(in)
                         /\ CreateTransfer(rows, clock, p)
                              = HandDelta(rows, clock, Pair(clock, out, in), {}, cond)
  <2>1. \A cur, lots, amount :
          LET legs == TransferLegs(p, cur, lots, amount) IN IsRow(legs.out) /\ IsRow(legs.in)
    <3>1. ASSUME NEW cur, NEW lots, NEW amount
          PROVE  LET legs == TransferLegs(p, cur, lots, amount)
                 IN IsRow(legs.out) /\ IsRow(legs.in)
      BY Zenon DEF TransferLegs, IsRow
    <3> QED
      BY <3>1, Zenon
  <2>2. \E cur, lots, amount, cond :
          LET legs == TransferLegs(p, cur, lots, amount)
          IN CreateTransfer(rows, clock, p)
               = HandDelta(rows, clock, Pair(clock, legs.out, legs.in), {}, cond)
    BY Zenon DEF CreateTransfer
  <2> QED
    BY <2>1, <2>2, Zenon
<1>3. Justified(CreateTransfer(rows, clock, p), 2)
  BY <1>2, TwoLegs, HandJustified, Zenon
<1>4. 2 \in Nat
  OBVIOUS
<1> QED
  BY <1>1, <1>3, <1>4, ByHandApplies, Zenon

LEMMA MoneyTransferApplies ==
  ASSUME TypeOK, DoMoneyTransfer(MoneyTransfers)
  PROVE  Applies
<1>1. PICK p \in MoneyTransfers : ByHand(CreateMoneyTransfer(rows, clock, p), 2)
  BY Zenon DEF DoMoneyTransfer
<1>2. \E out, in, cond : /\ IsRow(out) /\ IsRow(in)
                         /\ CreateMoneyTransfer(rows, clock, p)
                              = HandDelta(rows, clock, Pair(clock, out, in), {}, cond)
  BY Zenon DEF CreateMoneyTransfer, IsRow
<1>3. Justified(CreateMoneyTransfer(rows, clock, p), 2)
  BY <1>2, TwoLegs, HandJustified, Zenon
<1>4. 2 \in Nat
  OBVIOUS
<1> QED
  BY <1>1, <1>3, <1>4, ByHandApplies, Zenon

LEMMA ExchangeApplies ==
  ASSUME TypeOK, DoExchange(Exchanges)
  PROVE  Applies
<1>1. PICK p \in Exchanges : Applied(CreateExchange(rows, clock, p), 2)
  BY Zenon DEF DoExchange
<1>2. \E out, in, cond : /\ IsRow(out) /\ IsRow(in)
                         /\ CreateExchange(rows, clock, p)
                              = HandDelta(rows, clock, Pair(clock, out, in), {}, cond)
  <2> DEFINE b == BuildExchange(rows, p)
  <2>1. IsRow(b.out) /\ IsRow(b.in)
    BY Zenon DEF BuildExchange, ExchangeLegs, IsRow
  <2> HIDE DEF b
  <2>2. CreateExchange(rows, clock, p)
          = HandDelta(rows, clock, Pair(clock, b.out, b.in), {}, b.ok)
    BY Zenon DEF CreateExchange, CreatePair, b
  <2> QED
    BY <2>1, <2>2, Zenon
<1>3. Justified(CreateExchange(rows, clock, p), 2)
  BY <1>2, TwoLegs, HandJustified, Zenon
<1>4. 2 \in Nat
  OBVIOUS
<1> QED
  BY <1>1, <1>3, <1>4, AppliedApplies, Zenon

LEMMA SpinoffApplies ==
  ASSUME TypeOK, DoSpinoff(Spinoffs)
  PROVE  Applies
<1>1. PICK p \in Spinoffs : Applied(CreateSpinoff(rows, clock, p), 2)
  BY Zenon DEF DoSpinoff
<1>2. \E out, in, cond : /\ IsRow(out) /\ IsRow(in)
                         /\ CreateSpinoff(rows, clock, p)
                              = HandDelta(rows, clock, Pair(clock, out, in), {}, cond)
  <2> DEFINE b == BuildSpinoff(rows, p)
  <2>1. IsRow(b.out) /\ IsRow(b.in)
    BY Zenon DEF BuildSpinoff, SpinoffLegs, IsRow
  <2> HIDE DEF b
  <2>2. CreateSpinoff(rows, clock, p)
          = HandDelta(rows, clock, Pair(clock, b.out, b.in), {}, b.ok)
    BY Zenon DEF CreateSpinoff, CreatePair, b
  <2> QED
    BY <2>1, <2>2, Zenon
<1>3. Justified(CreateSpinoff(rows, clock, p), 2)
  BY <1>2, TwoLegs, HandJustified, Zenon
<1>4. 2 \in Nat
  OBVIOUS
<1> QED
  BY <1>1, <1>3, <1>4, AppliedApplies, Zenon

LEMMA ArrivalApplies ==
  ASSUME TypeOK, DoArrival(ArrivalsAsked)
  PROVE  Applies
<1>1. PICK p \in ArrivalsAsked : ByHand(CreateArrival(rows, clock, p), 1)
  BY Zenon DEF DoArrival
<1>2. \E op, cond : /\ IsRow(op)
                    /\ CreateArrival(rows, clock, p)
                         = HandDelta(rows, clock, <<op>>, {}, cond)
  BY Zenon DEF CreateArrival, IsRow
<1>3. Justified(CreateArrival(rows, clock, p), 1)
  BY <1>2, OneLeg, HandJustified, Zenon
<1>4. 1 \in Nat
  OBVIOUS
<1> QED
  BY <1>1, <1>3, <1>4, ByHandApplies, Zenon

LEMMA StatePurchasesApplies ==
  ASSUME TypeOK, DoStatePurchases(Statements)
  PROVE  Applies
<1>1. PICK op \in rows, pieces \in Statements :
         ByHand(StatePurchases(rows, op, pieces), 0)
  BY Zenon DEF DoStatePurchases, InPlace
<1>2. PICK old, settled, cond :
         /\ old \subseteq rows
         /\ StatePurchases(rows, op, pieces)
              = RestateDelta(rows, old, WithBreakdowns(old, settled), cond)
  BY Zenon DEF StatePurchases
<1>3. Recorded(old, clock) /\ clock \in Int
  <2>1. Recorded(rows, clock) /\ clock \in Int
    BY RowsRecorded, Zenon
  <2>2. \A r \in old : r \in rows
    BY <1>2, Zenon
  <2> QED
    BY <2>1, <2>2, Zenon DEF Recorded
<1>4. Recorded(WithBreakdowns(old, settled), clock)
  BY <1>3, BreakdownsRecorded, Zenon
<1>5. Justified(StatePurchases(rows, op, pieces), 0)
  BY <1>2, <1>3, <1>4, RestateJustified, Zenon
<1>6. 0 \in Nat
  OBVIOUS
<1> QED
  BY <1>1, <1>5, <1>6, ByHandApplies, Zenon

\* An event corrects what it restates and stays an event.
LEMMA CorrectedPresentable ==
  ASSUME TypeOK, NEW remove \in SUBSET rows, NEW e \in Events
  PROVE  /\ DOMAIN Corrected(e, remove) \subseteq {1, 2}
         /\ \A k \in DOMAIN Corrected(e, remove) :
              /\ IsRow(Corrected(e, remove)[k])
              /\ Corrected(e, remove)[k].stamp \in 0..(clock + AppAhead)
<1> DEFINE leg(k) == InheritsPlace(e[k], remove)
<1>1. DOMAIN e \subseteq {1, 2} /\ \A k \in DOMAIN e : IsRow(e[k]) /\ e[k].stamp = 0
  BY RequestsAssumption, Zenon
<1>2. Corrected(e, remove) = [k \in DOMAIN e |-> leg(k)]
  BY Zenon DEF Corrected
<1>3. 0 \in 0..(clock + AppAhead) /\ 1..(clock + AppAhead) \subseteq 0..(clock + AppAhead)
  BY RowsRecorded, AppAheadAssumption
<1>4. ASSUME NEW k \in DOMAIN e
      PROVE  IsRow(leg(k)) /\ leg(k).stamp \in 0..(clock + AppAhead)
  <2> DEFINE old == {r \in remove : /\ r.acct = e[k].acct /\ r.src = e[k].src
                                    /\ r.ext = e[k].ext}
             kept == CHOOSE r \in old : TRUE
  <2>1. IsRow(e[k]) /\ e[k].stamp = 0
    BY <1>1, Zenon
  <2>2. CASE old = {}
    <3>1. leg(k) = e[k]
      BY <2>2, Zenon DEF InheritsPlace
    <3> QED
      BY <1>3, <2>1, <3>1, Zenon
  <2>3. CASE old # {}
    <3>1. kept \in rows
      BY <2>3, Zenon
    <3>2. leg(k) = [e[k] EXCEPT !.stamp = kept.stamp]
      BY <2>3, Zenon DEF InheritsPlace
    <3> HIDE DEF kept, leg
    <3>3. "stamp" \in DOMAIN e[k]
      BY <2>1, RowFields, Zenon
    <3>4. IsRow(leg(k)) /\ leg(k).stamp = kept.stamp
      BY <2>1, <3>2, <3>3, Zenon DEF IsRow
    <3>5. kept.stamp \in 1..(clock + AppAhead)
      BY <3>1, Zenon DEF TypeOK
    <3> QED
      BY <1>3, <3>4, <3>5, Zenon
  <2> QED
    BY <2>2, <2>3, Zenon
<1> HIDE DEF leg
<1> QED
  BY <1>1, <1>2, <1>4, Zenon

LEMMA AskedPresentable ==
  ASSUME TypeOK, NEW remove \in SUBSET rows,
         NEW events, NEW n \in Nat, DOMAIN events = 1..n,
         \A i \in 1..n : events[i] \in Events
  PROVE  Presentable(Asked(events, remove), rows, clock) /\ Len(Asked(events, remove)) = n
<1> DEFINE asked == Asked(events, remove)
<1>1. DOMAIN asked = 1..n /\ \A i \in 1..n : asked[i] = Corrected(events[i], remove)
  BY DEF Asked
<1>2. asked = [i \in 1..n |-> Corrected(events[i], remove)]
  BY Zenon DEF Asked
<1> HIDE DEF asked
<1>3. Len(asked) = n
  BY <1>1, <1>2
<1>4. \A i \in 1..n :
        /\ DOMAIN asked[i] \subseteq {1, 2}
        /\ \A k \in DOMAIN asked[i] :
             IsRow(asked[i][k]) /\ asked[i][k].stamp \in 0..(clock + AppAhead)
  BY <1>1, CorrectedPresentable, Zenon
<1>5. Presentable(asked, rows, clock)
  BY <1>1, <1>3, <1>4, Zenon DEF Presentable
<1> QED
  BY <1>3, <1>5, Zenon DEF asked

LEMMA ImportApplies ==
  ASSUME TypeOK, DoImport(Events)
  PROVE  Applies
<1>1. PICK events \in AtMostTwo(Events), remove \in SUBSET {r \in rows : r.src # "manual"} :
         /\ Accepted(ApplyImportDelta(rows, clock, Asked(events, remove), remove))
         /\ Taking(2 * Len(events))
  BY Zenon DEF DoImport
<1> DEFINE asked == Asked(events, remove)
           n == Len(events)
           d == ApplyImportDelta(rows, clock, asked, remove)
<1>2. n \in Nat /\ DOMAIN events = 1..n /\ \A i \in 1..n : events[i] \in Events
  BY <1>1 DEF AtMostTwo
<1>3. remove \in SUBSET rows /\ Accepted(d) /\ Taking(2 * n)
  BY <1>1, Zenon
<1> HIDE DEF asked, n
<1>4. Presentable(asked, rows, clock) /\ Len(asked) = n
  BY <1>2, <1>3, AskedPresentable, Zenon DEF asked
<1>5. Recorded(d.add, clock + 2 * n)
  BY <1>4, RowsRecorded, ImportRecorded, Zenon
<1>6. Justified(d, 2 * n)
  BY <1>5, ImportSound, Zenon DEF Justified
<1>7. 2 * n \in Nat
  BY <1>2
<1> HIDE DEF d
<1> QED
  BY <1>3, <1>6, <1>7, Zenon DEF Applies

LEMMA NextApplies ==
  ASSUME TypeOK, Next
  PROVE  Applies \/ DoArchive(Closable)
BY CreatesApply, UpdateApplies, DeleteApplies, TransferApplies, MoneyTransferApplies,
   ArrivalApplies, StatePurchasesApplies, ExchangeApplies, SpinoffApplies,
   ImportApplies DEF Next

-----------------------------------------------------------------------------
(* The theorems. *)

\* Every row the table ever holds is a row of one of the family's accounts,
\* numbered by the database and stamped no later than the clocks allow: an
\* import's stamps too, those inherited and those that follow the youngest row.
THEOREM TypeCorrect == Spec => []TypeOK
<1>1. Init => TypeOK
  BY RequestsAssumption, AppAheadAssumption DEF Init, TypeOK
<1>2. TypeOK /\ [Next]_vars => TypeOK'
  <2> SUFFICES ASSUME TypeOK, [Next]_vars PROVE TypeOK'
    OBVIOUS
  <2>1. CASE Applies
    BY <2>1, TypedAfter, Zenon DEF Applies, Justified
  <2>2. CASE DoArchive(Closable)
    BY <2>2, RequestsAssumption, Zenon DEF DoArchive, TypeOK
  <2>3. CASE UNCHANGED vars
    BY <2>3, Zenon DEF vars, TypeOK
  <2> QED
    BY <2>1, <2>2, <2>3, NextApplies, Zenon
<1> QED
  BY <1>1, <1>2, PTL DEF Spec

LEMMA SortedIsSequence ==
  ASSUME NEW S
  PROVE  \E f : Sorted(S) = [i \in 1..Cardinality(S) |-> f[i]]
<1> DEFINE Ahead(r) == {x \in S : FoldsBefore(x, r) \/ (~FoldsBefore(r, x) /\ x.id < r.id)}
           g(i) == CHOOSE r \in S : 1 + Cardinality(Ahead(r)) = i
<1>1. Sorted(S) = [i \in 1..Cardinality(S) |-> g(i)]
  BY Zenon DEF Sorted
<1> DEFINE f == [i \in 1..Cardinality(S) |-> g(i)]
<1>2. f = [i \in 1..Cardinality(S) |-> f[i]]
  <2> HIDE DEF g
  <2> QED
    OBVIOUS
<1> QED
  BY <1>1, <1>2, Zenon

LEMMA NoRowsSorted == Sorted({}) = <<>>
<1>1. PICK f : Sorted({}) = [i \in 1..Cardinality({}) |-> f[i]]
  BY SortedIsSequence, Zenon
<1>2. 1..Cardinality({}) = {}
  BY FS_EmptySet
<1>3. [i \in {} |-> f[i]] = <<>>
  OBVIOUS
<1> QED
  BY <1>1, <1>2, <1>3, Zenon

LEMMA NothingFolds == Replays(<<>>)
<1> DEFINE F(f) == [i \in 0..Len(<<>>) |->
                      IF i = 0 THEN Provided(TRUE, <<>>)
                      ELSE Then(f[i - 1], LAMBDA q : FoldOne(q, <<>>[i]))]
           after == CHOOSE f : f = F(f)
           w == [i \in 0..Len(<<>>) |-> Provided(TRUE, <<>>)]
<1>1. 0..Len(<<>>) = {0}
  OBVIOUS
<1>2. w = F(w)
  BY <1>1, Zenon
<1>3. after = F(after)
  <2> HIDE DEF F, w
  <2> QED
    BY <1>2, Zenon
<1>4. Compute(<<>>) = after[Len(<<>>)]
  BY Zenon DEF Compute, Run
<1> HIDE DEF after
<1>5. Len(<<>>) = 0
  OBVIOUS
<1>6. after[0] = Provided(TRUE, <<>>)
  BY <1>1, <1>3, Zenon
<1>7. Compute(<<>>) = Provided(TRUE, <<>>)
  BY <1>4, <1>5, <1>6
<1> QED
  BY <1>7 DEF Replays, Provided

\* No entry accepted on one day is refused by a later read (#17): with one clock
\* between the process and the database, every journal folds at every moment,
\* for any accounts and any requests.  The run JournalClock shows that the
\* hypothesis is needed.
THEOREM JournalsAlwaysReplay ==
  ASSUME AppAhead = 0
  PROVE  Spec => []JournalsReplay
<1>1. Init => JournalsReplay
  <2> SUFFICES ASSUME Init, NEW a \in Accounts PROVE AccountReplays(rows, a)
    BY Zenon DEF JournalsReplay
  <2>1. JournalOf(rows, a) = <<>>
    <3>1. RowsOf(rows, a) = {}
      BY DEF Init, RowsOf
    <3>2. Cardinality({}) = 0
      BY FS_EmptySet
    <3> QED
      BY <3>1, <3>2, NoRowsSorted DEF JournalOf
  <2>2. Replays(<<>>)
    BY NothingFolds
  <2> QED
    BY <2>1, <2>2, Zenon DEF AccountReplays
<1>2. TypeOK /\ JournalsReplay /\ [Next]_vars => JournalsReplay'
  <2> SUFFICES ASSUME TypeOK, JournalsReplay, [Next]_vars PROVE JournalsReplay'
    OBVIOUS
  <2>1. CASE Applies
    BY <2>1, DeltaReplays, Zenon DEF Applies, Justified
  <2>2. CASE DoArchive(Closable)
    BY <2>2, Zenon DEF DoArchive, JournalsReplay
  <2>3. CASE UNCHANGED vars
    BY <2>3, Zenon DEF vars, JournalsReplay
  <2> QED
    BY <2>1, <2>2, <2>3, NextApplies, Zenon
<1> QED
  BY <1>1, <1>2, TypeCorrect, PTL DEF Spec

-----------------------------------------------------------------------------
(* The pairs. *)

\* A row of a group has one other leg among some, and the two are one parcel.
Paired(some, r) ==
  \E s \in some : s # r /\ Legs(some, r.group) = {r, s} /\ OneParcel(r, s) /\ OneParcel(s, r)

\* Every row of a group is one of a pair.
AllPaired(some) == \A r \in some : r.group # 0 => Paired(some, r)

\* new in place of gone parts no pair and adds none of a group that is there.
Fitting(some, gone, new) ==
  /\ gone \subseteq some /\ Whole(some, gone)
  /\ AllPaired(new)
  /\ \A r \in new : r.group # 0 => Legs(some \ gone, r.group) = {}

\* Taking whole groups out and putting whole new pairs in keeps the pairs.
LEMMA PairsFit ==
  ASSUME NEW some, AllPaired(some), NEW gone, NEW new, Fitting(some, gone, new)
  PROVE  AllPaired((some \ gone) \cup new)
<1> DEFINE after == (some \ gone) \cup new
<1> SUFFICES ASSUME NEW r \in after, r.group # 0
             PROVE  \E s \in after : s # r /\ Legs(after, r.group) = {r, s}
                                     /\ OneParcel(r, s) /\ OneParcel(s, r)
  BY Zenon DEF AllPaired, Paired
<1>1. CASE r \in some \ gone
  <2>1. PICK s \in some : /\ s # r /\ Legs(some, r.group) = {r, s}
                          /\ OneParcel(r, s) /\ OneParcel(s, r)
    BY <1>1, Zenon DEF AllPaired, Paired
  <2>2. s.group = r.group /\ r \in Legs(some, r.group)
    BY <2>1 DEF Legs
  <2>3. s \notin gone
    BY <1>1, <2>2 DEF Fitting, Whole
  <2>4. \A x \in new : x.group # r.group
    BY <1>1 DEF Fitting, Legs
  <2>5. Legs(after, r.group) = {r, s}
    BY <1>1, <2>1, <2>2, <2>3, <2>4 DEF Legs
  <2> QED
    BY <2>1, <2>3, <2>5
<1>2. CASE r \in new
  <2>1. PICK s \in new : /\ s # r /\ Legs(new, r.group) = {r, s}
                         /\ OneParcel(r, s) /\ OneParcel(s, r)
    BY <1>2, Zenon DEF Fitting, AllPaired, Paired
  <2>2. Legs(some \ gone, r.group) = {}
    BY <1>2 DEF Fitting
  <2>3. Legs(after, r.group) = {r, s}
    BY <2>1, <2>2 DEF Legs
  <2> QED
    BY <2>1, <2>3
<1> QED
  BY <1>1, <1>2

\* Paired rows are the pairs the property speaks of.
LEMMA PairedAgree ==
  ASSUME AllPaired(rows)
  PROVE  PairsAgree
<1> SUFFICES ASSUME NEW r \in rows, r.group # 0
             PROVE  /\ Cardinality(Legs(rows, r.group)) = 2
                    /\ \A s \in Legs(rows, r.group) \ {r} : OneParcel(r, s)
  BY Zenon DEF PairsAgree
<1>1. PICK s \in rows : /\ s # r /\ Legs(rows, r.group) = {r, s}
                        /\ OneParcel(r, s) /\ OneParcel(s, r)
  BY Zenon DEF AllPaired, Paired
<1>2. Cardinality({r, s}) = 2
  <2>1. {r, s} = {r} \cup {s} /\ s \notin {r}
    BY <1>1
  <2>2. IsFiniteSet({r}) /\ Cardinality({r}) = 1
    BY FS_Singleton
  <2>3. Cardinality({r} \cup {s}) = Cardinality({r}) + 1
    BY <2>1, <2>2, FS_AddElement
  <2> QED
    BY <2>1, <2>2, <2>3
<1> QED
  BY <1>1, <1>2

-----------------------------------------------------------------------------
(* The events an import writes are pairs or rows of no group. *)

\* The legs of an event of two.
TwoLegged(legs) ==
  /\ DOMAIN legs = {1, 2} /\ legs[1].day = legs[2].day
  /\ CorporateLeg(legs[1]) =>
       /\ CorporateLeg(legs[2]) /\ legs[1].typ # "transfer_out"
       /\ {legs[1].typ, legs[2].typ}
            \in {{"exchange_out", "exchange_in"}, {"spinoff_out", "spinoff_in"}}
       /\ ~TransferLeg(legs[1]) /\ ~TransferLeg(legs[2])
       /\ legs[1].acct = legs[2].acct /\ legs[1].paper # legs[2].paper
       /\ legs[1].amount = legs[2].amount
  /\ ~CorporateLeg(legs[1]) =>
       /\ legs[1].typ = "transfer_out" /\ legs[2].typ = "transfer_in"
       /\ TransferLeg(legs[2])
       /\ legs[1].acct # legs[2].acct /\ legs[1].paper = legs[2].paper
       /\ legs[1].qty = legs[2].qty

\* The import contract makes a leg of a group one of two.
LEMMA ContractPairs ==
  ASSUME NEW legs, Shaped(legs), ImportContract(legs),
         NEW k \in DOMAIN legs, legs[k].group # 0
  PROVE  TwoLegged(legs) /\ legs[1].group = legs[k].group /\ legs[2].group = legs[k].group
<1>1. Len(legs) = 2 /\ legs[1].group # 0 /\ DOMAIN legs = 1..2
  BY DEF ImportContract, Shaped
<1>2. DOMAIN legs = {1, 2}
  BY <1>1
<1>3. k = 1 \/ k = 2
  BY <1>2
<1> QED
  BY <1>1, <1>2, <1>3 DEF TwoLegged, ImportContract, CorporateLeg, TransferLeg

\* Events of one group are one event, and a conversion is told with its cost.
Grouped(add, n) ==
  /\ \A i, j \in 1..n : add[i][1].group # 0 /\ add[i][1].group = add[j][1].group =>
       SameRecord(add[i][1], add[j][1])
  /\ \A i \in 1..n : \A k \in DOMAIN add[i] :
       CorporateLeg(add[i][k]) => LotsCost(add[i][k].lots) = add[i][k].amount

\* The two legs an import writes are one parcel, whatever was released for them.
LEMMA LegsWrittenAgree ==
  ASSUME NEW legs, Shaped(legs), ImportContract(legs),
         \A k \in DOMAIN legs : CorporateLeg(legs[k]) => LotsCost(legs[k].lots) = legs[k].amount,
         legs[1].group # 0,
         NEW w, \A k \in DOMAIN legs : Alike(w[k], legs[k]), OneBreakdown(legs, w)
  PROVE  OneParcel(w[1], w[2]) /\ OneParcel(w[2], w[1])
<1>1. TwoLegged(legs)
  <2>1. 1 \in DOMAIN legs
    BY DEF Shaped
  <2> QED
    BY <2>1, ContractPairs, Zenon
<1>2. DOMAIN legs = {1, 2} /\ Alike(w[1], legs[1]) /\ Alike(w[2], legs[2])
  BY <1>1, Zenon DEF TwoLegged
<1>3. CASE CorporateLeg(legs[1])
  <2>1. /\ w[1].lots = legs[1].lots /\ w[1].amount = legs[1].amount
        /\ w[2].lots = legs[2].lots /\ w[2].amount = legs[2].amount
    BY <1>1, <1>2, <1>3, Zenon DEF OneBreakdown, TwoLegged
  <2>2. LotsCost(legs[1].lots) = LotsCost(legs[2].lots)
    BY <1>1, <1>2, <1>3, Zenon DEF TwoLegged
  <2> QED
    BY <1>1, <1>2, <1>3, <2>1, <2>2 DEF TwoLegged, OneParcel, Alike, CorporateLeg, TransferLeg
<1>4. CASE ~CorporateLeg(legs[1])
  <2>1. w[1].lots = w[2].lots /\ w[1].amount = w[2].amount
    BY <1>1, <1>2, <1>4, Zenon DEF OneBreakdown, TwoLegged
  <2> QED
    BY <1>1, <1>2, <1>4, <2>1 DEF TwoLegged, OneParcel, Alike, CorporateLeg, TransferLeg
<1> QED
  BY <1>3, <1>4

\* An import adds pairs and rows of no group, numbered after the clock.
LEMMA ImportedPairs ==
  ASSUME NEW add, NEW n, Eventful(add, n), NEW c \in Nat,
         NEW W, NEW I, NEW new, Wrote(add, n, c, W, I, new),
         \A i \in 1..n : ImportContract(add[i]), NamedOnce(add), Grouped(add, n)
  PROVE  /\ AllPaired(new) /\ OwnIds(new)
         /\ \A r \in new : r.id \in Int /\ r.id > c
<1>0. /\ I \in SUBSET (1..n) /\ WrittenAs(add, n, c, W)
      /\ \A i \in I : OneBreakdown(add[i], W[i])
      /\ new = UNION {LegSet(W[i]) : i \in I}
  BY Zenon DEF Wrote
<1>1. \A r : r \in new <=> \E i \in I : \E k \in DOMAIN add[i] : r = W[i][k]
  <2>1. \A i \in I : \A r : r \in LegSet(W[i]) <=> \E k \in DOMAIN add[i] : r = W[i][k]
    BY <1>0, Zenon DEF LegSet, WrittenAs
  <2>2. \A r : r \in new <=> \E i \in I : r \in LegSet(W[i])
    BY <1>0
  <2> TAKE r
  <2>3. ASSUME r \in new PROVE \E i \in I : \E k \in DOMAIN add[i] : r = W[i][k]
    <3>1. PICK i \in I : r \in LegSet(W[i])
      BY <2>2, <2>3, Zenon
    <3> QED
      BY <2>1, <3>1
  <2>4. ASSUME NEW i \in I, NEW k \in DOMAIN add[i], r = W[i][k] PROVE r \in new
    BY <2>1, <2>2, <2>4, Zenon
  <2> QED
    BY <2>3, <2>4, Zenon
<1>2. \A i \in 1..n : /\ Place(add, i) \in 1..n
                      /\ \A k \in DOMAIN add[i] : k \in {1, 2} /\ Alike(W[i][k], add[i][k])
                                                  /\ W[i][k].id = c + 2 * Place(add, i) + k - 2
  <2>1. \A i \in 1..n : Place(add, i) \in 1..n
    BY PlacesAre, Zenon DEF Eventful
  <2>2. \A i \in 1..n : DOMAIN add[i] \subseteq {1, 2}
    BY SMTT(30) DEF Eventful, Shaped
  <2> SUFFICES ASSUME NEW i \in 1..n, NEW k \in DOMAIN add[i]
               PROVE  k \in {1, 2} /\ Alike(W[i][k], add[i][k])
                      /\ W[i][k].id = c + 2 * Place(add, i) + k - 2
    BY <2>1, Zenon
  <2>3. k \in {1, 2}
    BY <2>2
  <2> QED
    BY <1>0, <2>3, Zenon DEF WrittenAs
<1>3. n \in Nat /\ DOMAIN add = 1..n
  BY DEF Eventful
<1>4. ASSUME NEW i \in 1..n, NEW k \in DOMAIN add[i], NEW j \in 1..n, NEW l \in DOMAIN add[j],
             W[i][k].id = W[j][l].id
      PROVE  i = j /\ k = l
  <2>1. \A x, y \in 1..n : Place(add, x) = Place(add, y) => x = y
    BY PlacesAre, Zenon DEF Eventful
  <2>2. k \in {1, 2} /\ l \in {1, 2} /\ Place(add, i) \in Nat /\ Place(add, j) \in Nat
    BY <1>2, <1>3, SMTT(30)
  <2>3. c + 2 * Place(add, i) + k - 2 = c + 2 * Place(add, j) + l - 2
    <3>1. W[i][k].id = c + 2 * Place(add, i) + k - 2
      BY <1>2, Zenon
    <3>2. W[j][l].id = c + 2 * Place(add, j) + l - 2
      BY <1>2, Zenon
    <3> QED
      BY <1>4, <3>1, <3>2
  <2>4. Place(add, i) = Place(add, j) /\ k = l
    BY <2>2, <2>3
  <2> QED
    BY <2>1, <2>4, Zenon
<1>5. OwnIds(new)
  <2> SUFFICES ASSUME NEW x \in new, NEW y \in new, x.id = y.id PROVE x = y
    BY Zenon DEF OwnIds
  <2>1. PICK i \in I : \E k \in DOMAIN add[i] : x = W[i][k]
    BY <1>1, Zenon
  <2>2. PICK k \in DOMAIN add[i] : x = W[i][k]
    BY <2>1, Zenon
  <2>3. PICK j \in I : \E l \in DOMAIN add[j] : y = W[j][l]
    BY <1>1, Zenon
  <2>4. PICK l \in DOMAIN add[j] : y = W[j][l]
    BY <2>3, Zenon
  <2>5. i \in 1..n /\ j \in 1..n /\ W[i][k].id = W[j][l].id
    BY <1>0, <2>2, <2>4
  <2> QED
    BY <1>4, <2>2, <2>4, <2>5
<1>6. \A r \in new : r.id \in Int /\ r.id > c
  <2> SUFFICES ASSUME NEW i \in 1..n, NEW k \in DOMAIN add[i]
               PROVE  W[i][k].id \in Int /\ W[i][k].id > c
    <3> TAKE r \in new
    <3>1. PICK i \in I : \E k \in DOMAIN add[i] : r = W[i][k]
      BY <1>1, Zenon
    <3>2. PICK k \in DOMAIN add[i] : r = W[i][k]
      BY <3>1, Zenon
    <3>3. i \in 1..n
      BY <1>0
    <3>4. W[i][k].id \in Int /\ W[i][k].id > c
      BY <3>3
    <3> QED
      BY <3>2, <3>4
  <2>1. k \in {1, 2} /\ Place(add, i) \in 1..n /\ W[i][k].id = c + 2 * Place(add, i) + k - 2
    BY <1>2, Zenon
  <2> QED
    BY <1>3, <2>1
<1>7. AllPaired(new)
  <2> SUFFICES ASSUME NEW i \in I, NEW k \in DOMAIN add[i], W[i][k].group # 0
               PROVE  Paired(new, W[i][k])
    <3> SUFFICES ASSUME NEW r \in new, r.group # 0 PROVE Paired(new, r)
      BY Zenon DEF AllPaired
    <3>1. PICK i \in I : \E k \in DOMAIN add[i] : r = W[i][k]
      BY <1>1, Zenon
    <3>2. PICK k \in DOMAIN add[i] : r = W[i][k]
      BY <3>1, Zenon
    <3> QED
      BY <3>2
  <2> DEFINE a == W[i][1]
             b == W[i][2]
             g == W[i][k].group
  <2>1. i \in 1..n /\ add[i][k].group = g
    BY <1>0, <1>2, Zenon DEF Alike
  <2>2. Shaped(add[i]) /\ ImportContract(add[i])
    BY <2>1, Zenon DEF Eventful
  <2>3. DOMAIN add[i] = {1, 2} /\ add[i][1].group = g /\ add[i][2].group = g
    <3>1. TwoLegged(add[i]) /\ add[i][1].group = g /\ add[i][2].group = g
      BY <2>1, <2>2, ContractPairs, Zenon
    <3> QED
      BY <3>1, Zenon DEF TwoLegged
  <2>4. a \in new /\ b \in new /\ W[i][k] \in {a, b} /\ a.group = g /\ b.group = g
    <3>1. 1 \in DOMAIN add[i] /\ 2 \in DOMAIN add[i] /\ (k = 1 \/ k = 2)
      BY <2>3
    <3> QED
      BY <1>1, <1>2, <2>1, <2>3, <3>1, Zenon DEF Alike
  <2>5. a # b
    <3>1. 1 \in DOMAIN add[i] /\ 2 \in DOMAIN add[i]
      BY <2>3
    <3> QED
      BY <1>4, <2>1, <3>1
  <2>6. OneParcel(a, b) /\ OneParcel(b, a)
    <3>1. \A x \in DOMAIN add[i] : /\ Alike(W[i][x], add[i][x])
                                   /\ CorporateLeg(add[i][x]) => LotsCost(add[i][x].lots) = add[i][x].amount
      BY <1>2, <2>1, Zenon DEF Grouped
    <3>2. OneBreakdown(add[i], W[i]) /\ add[i][1].group # 0
      BY <1>0, <2>3
    <3> DEFINE legs == add[i]
               w == W[i]
    <3>3. /\ Shaped(legs) /\ ImportContract(legs)
          /\ \A x \in DOMAIN legs : CorporateLeg(legs[x]) => LotsCost(legs[x].lots) = legs[x].amount
          /\ legs[1].group # 0 /\ OneBreakdown(legs, w)
          /\ \A x \in DOMAIN legs : Alike(w[x], legs[x])
      BY <2>2, <3>1, <3>2, Zenon
    <3> HIDE DEF legs, w
    <3>4. OneParcel(w[1], w[2]) /\ OneParcel(w[2], w[1])
      BY <3>3, LegsWrittenAgree, Zenon
    <3> QED
      BY <3>4, Zenon DEF w
  <2>7. ASSUME NEW r \in new, r.group = g PROVE r \in {a, b}
    <3>1. PICK j \in I : \E l \in DOMAIN add[j] : r = W[j][l]
      BY <1>1, Zenon
    <3>2. PICK l \in DOMAIN add[j] : r = W[j][l]
      BY <3>1, Zenon
    <3>3. j \in 1..n /\ add[j][l].group = g /\ g # 0
      BY <1>0, <1>2, <2>7, <3>2, Zenon DEF Alike
    <3>4. Shaped(add[j]) /\ ImportContract(add[j])
      BY <3>3, Zenon DEF Eventful
    <3>5. DOMAIN add[j] = {1, 2} /\ add[j][1].group = g
      <4>1. TwoLegged(add[j]) /\ add[j][1].group = g
        BY <3>3, <3>4, ContractPairs, Zenon
      <4> QED
        BY <4>1, Zenon DEF TwoLegged
    <3>6. SameRecord(add[i][1], add[j][1])
      BY <2>1, <2>3, <3>3, <3>5, Zenon DEF Grouped
    <3>7. i = j
      <4>1. 1 \in DOMAIN add[i] /\ 1 \in DOMAIN add[j] /\ i \in DOMAIN add /\ j \in DOMAIN add
        BY <1>3, <2>1, <2>3, <3>3, <3>5
      <4> QED
        BY <3>6, <4>1, Zenon DEF NamedOnce
    <3>8. l = 1 \/ l = 2
      BY <3>5
    <3> QED
      BY <3>2, <3>7, <3>8
  <2>8. Legs(new, g) = {a, b}
    <3> HIDE DEF a, b, g
    <3>1. g # 0
      BY DEF g
    <3> QED
      BY <2>4, <2>7, <3>1 DEF Legs
  <2> HIDE DEF a, b, g
  <2>9. CASE W[i][k] = a
    <3>1. Legs(new, a.group) = {a, b}
      BY <2>4, <2>8
    <3> QED
      BY <2>4, <2>5, <2>6, <2>9, <3>1, Zenon DEF Paired
  <2>10. CASE W[i][k] = b
    <3>1. Legs(new, b.group) = {b, a}
      BY <2>4, <2>8
    <3> QED
      BY <2>4, <2>5, <2>6, <2>10, <3>1, Zenon DEF Paired
  <2> QED
    BY <2>4, <2>9, <2>10
<1> QED
  BY <1>5, <1>6, <1>7

-----------------------------------------------------------------------------
(* The table they stand in. *)

\* A group is the database's numbering or the name an importer gave the event
\* the row records.
Named(r, c) ==
  \/ r.group \in 0..c
  \/ \E e \in Events : e[1].group = r.group /\ \E k \in DOMAIN e : SameRecord(e[k], r)

\* A row is a record: EXCEPT leaves what it does not name.
Record(r) == r = [c \in DOMAIN r |-> r[c]]

\* A row with a record's number was read from it.
Sourced(r) == r.ext = 0 \/ \E e \in Events : \E k \in DOMAIN e : SameRecord(e[k], r)

\* A row of the table, once the clock has reached c.
Regular(r, c) == Record(r) /\ Dated(r) /\ Named(r, c) /\ Sourced(r)

\* The inductive invariant: rows are numbered apart, those of a group are pairs,
\* and a group is named by the database or by the record its rows were read from,
\* so that no later entry joins it; a record has one row.
PairedTable ==
  /\ OwnIds(rows) /\ AllPaired(rows) /\ Unique(rows)
  /\ \A r \in rows : Regular(r, clock)

\* x and r number the lots they bring alike.
SameOrigin(x, r) == x.acct = r.acct /\ LotOrigin(x) = LotOrigin(r)

\* A delta puts in no second row of a record, and what it puts in for a row that
\* was there stands where that row stood.
KeepsPlaces(d) ==
  /\ Unique(d.add)
  /\ \A x \in d.add, r \in rows \ d.remove : x.ext # 0 => ~SameRecord(x, r)
  /\ \A x \in d.add, r \in rows : SameOrigin(x, r) => x.src = r.src /\ x.stamp = r.stamp

\* What a delta of t ticks keeps of the table.
KeepsTable(d, t) ==
  /\ Fitting(rows, d.remove, d.add) /\ KeepsPlaces(d)
  /\ OwnIds(d.add) /\ \A x \in d.add, y \in rows \ d.remove : x.id # y.id
  /\ \A r \in d.add : Regular(r, clock + t)

\* A record's number names its source.
LEMMA RecordsAre ==
  /\ \A r : Sourced(r) => r.ext \in Nat
  /\ \A r, s : Sourced(r) /\ Sourced(s) /\ r.ext # 0 /\ r.ext = s.ext => r.src = s.src
<1>1. ASSUME NEW r, Sourced(r) PROVE r.ext \in Nat
  <2>1. CASE r.ext = 0
    BY <2>1
  <2>2. CASE r.ext # 0
    <3>1. PICK e \in Events : \E k \in DOMAIN e : SameRecord(e[k], r)
      BY <1>1, <2>2, Zenon DEF Sourced
    <3>2. PICK k \in DOMAIN e : SameRecord(e[k], r)
      BY <3>1, Zenon
    <3>3. e[k].ext \in Nat
      BY RequestsAssumption, Zenon
    <3> QED
      BY <3>2, <3>3, Zenon DEF SameRecord
  <2> QED
    BY <2>1, <2>2
<1>2. ASSUME NEW r, NEW s, Sourced(r), Sourced(s), r.ext # 0, r.ext = s.ext
      PROVE  r.src = s.src
  <2>1. PICK e \in Events : \E k \in DOMAIN e : SameRecord(e[k], r)
    BY <1>2, Zenon DEF Sourced
  <2>2. PICK k \in DOMAIN e : SameRecord(e[k], r)
    BY <2>1, Zenon
  <2>3. PICK f \in Events : \E l \in DOMAIN f : SameRecord(f[l], s)
    BY <1>2, Zenon DEF Sourced
  <2>4. PICK l \in DOMAIN f : SameRecord(f[l], s)
    BY <2>3, Zenon
  <2>5. e[k].ext # 0 /\ e[k].ext = f[l].ext
    BY <1>2, <2>2, <2>4, Zenon DEF SameRecord
  <2>6. e[k].src = f[l].src
    BY <2>5, RequestsAssumption, ZenonT(60)
  <2> QED
    BY <2>2, <2>4, <2>6, Zenon DEF SameRecord
<1> QED
  BY <1>1, <1>2

\* Rows of one origin are one row.
LEMMA OneOrigin ==
  ASSUME TypeOK, PairedTable, NEW r \in rows, NEW s \in rows, SameOrigin(r, s)
  PROVE  r = s
<1>1. /\ r.id \in Nat \ {0} /\ s.id \in Nat \ {0}
      /\ Sourced(r) /\ Sourced(s)
  BY DEF TypeOK, PairedTable, Regular
<1>2. r.ext \in Nat /\ s.ext \in Nat
  BY <1>1, RecordsAre, Zenon
<1>3. IF r.ext # 0 THEN s.ext = r.ext ELSE s.ext = 0 /\ r.id = s.id
  BY <1>1, <1>2 DEF SameOrigin, LotOrigin
<1>4. CASE r.ext # 0
  <2>1. r.src = s.src
    BY <1>1, <1>3, <1>4, RecordsAre, Zenon
  <2>2. SameRecord(r, s)
    BY <1>3, <1>4, <2>1, Zenon DEF SameOrigin, SameRecord
  <2> QED
    BY <1>4, <2>2, Zenon DEF PairedTable, Unique
<1>5. CASE r.ext = 0
  BY <1>3, <1>5, Zenon DEF PairedTable, OwnIds
<1> QED
  BY <1>4, <1>5

\* New rows without a record disturb no place.
LEMMA NewKeepPlaces ==
  ASSUME TypeOK, PairedTable, NEW d,
         \A x \in d.add : x.ext = 0 /\ x.id \in Int /\ x.id > clock
  PROVE  KeepsPlaces(d)
<1>1. ASSUME NEW x \in d.add, NEW r \in rows PROVE ~SameOrigin(x, r)
  <2>1. r.id \in 1..clock /\ clock \in Nat /\ Sourced(r)
    BY RequestsAssumption DEF TypeOK, PairedTable, Regular
  <2>2. r.ext \in Nat
    BY <2>1, RecordsAre, Zenon
  <2> QED
    BY <2>1, <2>2 DEF SameOrigin, LotOrigin
<1> QED
  BY <1>1, Zenon DEF KeepsPlaces, Unique

\* x restates y in its place.
InPlaceOf(x, y) ==
  x.id = y.id /\ x.acct = y.acct /\ x.src = y.src /\ x.ext = y.ext /\ x.stamp = y.stamp

\* Rows restated in their places keep them.
LEMMA RestatedKeepPlaces ==
  ASSUME TypeOK, PairedTable, NEW d, d.remove \subseteq rows, OwnIds(d.add),
         \A x \in d.add : \E y \in d.remove : InPlaceOf(x, y)
  PROVE  KeepsPlaces(d)
<1>1. ASSUME NEW x \in d.add, NEW y \in rows, InPlaceOf(x, y), NEW r \in rows,
             SameOrigin(x, r)
      PROVE  y = r
  <2>1. SameOrigin(y, r)
    BY <1>1, Zenon DEF InPlaceOf, SameOrigin, LotOrigin
  <2> QED
    BY <2>1, OneOrigin, Zenon
<1>2. \A x \in d.add, r \in rows : SameOrigin(x, r) => x.src = r.src /\ x.stamp = r.stamp
  <2> SUFFICES ASSUME NEW x \in d.add, NEW r \in rows, SameOrigin(x, r)
               PROVE  x.src = r.src /\ x.stamp = r.stamp
    BY Zenon
  <2>1. PICK y \in d.remove : InPlaceOf(x, y)
    BY Zenon
  <2>2. y = r
    BY <1>1, <2>1
  <2> QED
    BY <2>1, <2>2, Zenon DEF InPlaceOf
<1>3. \A x \in d.add, r \in rows \ d.remove : x.ext # 0 => ~SameRecord(x, r)
  <2> SUFFICES ASSUME NEW x \in d.add, NEW r \in rows \ d.remove, SameRecord(x, r), x.ext # 0
               PROVE  FALSE
    BY Zenon
  <2>1. PICK y \in d.remove : InPlaceOf(x, y)
    BY Zenon
  <2>2. y \in rows /\ r \in rows /\ SameRecord(y, r) /\ y.ext # 0
    BY <2>1 DEF InPlaceOf, SameRecord
  <2>3. y = r
    BY <2>2, Zenon DEF PairedTable, Unique
  <2> QED
    BY <2>1, <2>3
<1>4. Unique(d.add)
  <2> SUFFICES ASSUME NEW x \in d.add, NEW z \in d.add, SameRecord(x, z), x.ext # 0
               PROVE  x = z
    BY Zenon DEF Unique
  <2>1. PICK y \in d.remove : InPlaceOf(x, y)
    BY Zenon
  <2>2. PICK w \in d.remove : InPlaceOf(z, w)
    BY Zenon
  <2>3. y \in rows /\ w \in rows /\ SameRecord(y, w) /\ y.ext # 0
    BY <2>1, <2>2 DEF InPlaceOf, SameRecord
  <2>4. y = w
    BY <2>3, Zenon DEF PairedTable, Unique
  <2>5. x.id = z.id
    BY <2>1, <2>2, <2>4, Zenon DEF InPlaceOf
  <2> QED
    BY <2>5, Zenon DEF OwnIds
<1> QED
  BY <1>2, <1>3, <1>4, Zenon DEF KeepsPlaces

\* Every builder writes records.
LEMMA StoredAreRecords ==
  ASSUME NEW c, NEW legs, NEW r \in Stored(c, legs)
  PROVE  Record(r)
<1>1. PICK i \in DOMAIN legs : r = [legs[i] EXCEPT !.id = c + i, !.stamp = c + i]
  BY Zenon DEF Stored
<1> QED
  BY <1>1 DEF Record

LEMMA BrokenAreRecords ==
  ASSUME NEW legs, NEW settled, NEW r \in WithBreakdowns(legs, settled)
  PROVE  Record(r)
<1>1. PICK leg \in legs : r = WithBreakdown(leg, settled)
  BY Zenon DEF WithBreakdowns
<1> DEFINE x == CHOOSE x \in settled : x.id = leg.id
<1>2. r = [leg EXCEPT !.lots = x.lots, !.amount = x.amount]
  BY <1>1, Zenon DEF WithBreakdown
<1> HIDE DEF x
<1> QED
  BY <1>2 DEF Record

LEMMA ImportedAreRecords ==
  ASSUME NEW some, NEW c, NEW add, NEW remove,
         NEW r \in ApplyImportDelta(some, c, add, remove).add
  PROVE  Record(r)
<1>1. \E legs, accepted : ApplyImportDelta(some, c, add, remove).add = Inserted(legs, accepted)
  BY Zenon DEF ApplyImportDelta, ImportIn, ImportOver, ImportAsked, WrittenOf, Written
<1>2. PICK legs, accepted : ApplyImportDelta(some, c, add, remove).add = Inserted(legs, accepted)
  BY <1>1, Zenon
<1>3. \E some2 : r \in WithBreakdowns(some2, accepted)
  BY <1>2, Zenon DEF Inserted
<1> QED
  BY <1>3, BrokenAreRecords, Zenon

\* A delta that fits, once accepted, leaves such a table.
LEMMA FitsKeep ==
  ASSUME TypeOK, PairedTable, NEW STATE d, NEW t \in Nat, KeepsTable(d, t), Accepted(d), Taking(t)
  PROVE  PairedTable'
<1>1. rows' = (rows \ d.remove) \cup d.add /\ clock' = clock + t
  BY Zenon DEF Accepted, After, Taking
<1>2. AllPaired(rows')
  BY <1>1, PairsFit, Zenon DEF PairedTable, KeepsTable
<1>3. OwnIds(rows')
  BY <1>1 DEF PairedTable, KeepsTable, OwnIds
<1>4. \A r \in rows' : Regular(r, clock')
  <2>1. 0..clock \subseteq 0..(clock + t)
    BY RowsRecorded
  <2>2. \A r : Named(r, clock) => Named(r, clock + t)
    BY <2>1, Zenon DEF Named
  <2>3. \A r \in rows' : r \in rows \/ r \in d.add
    BY <1>1, Zenon
  <2> QED
    BY <1>1, <2>2, <2>3, Zenon DEF PairedTable, KeepsTable, Regular
<1>5. Unique(rows')
  <2> SUFFICES ASSUME NEW x \in rows', NEW y \in rows', SameRecord(x, y), x.ext # 0
               PROVE  x = y
    BY Zenon DEF Unique
  <2>1. SameRecord(y, x) /\ y.ext # 0
    BY Zenon DEF SameRecord
  <2>2. x \in rows \ d.remove \/ x \in d.add
    BY <1>1, Zenon
  <2>3. y \in rows \ d.remove \/ y \in d.add
    BY <1>1, Zenon
  <2>4. Unique(rows) /\ KeepsPlaces(d)
    BY Zenon DEF PairedTable, KeepsTable
  <2> QED
    BY <2>1, <2>2, <2>3, <2>4 DEF Unique, KeepsPlaces
<1>6. AllPaired(rows)' /\ OwnIds(rows)' /\ Unique(rows)' /\ (\A r \in rows : Regular(r, clock))'
  BY <1>2, <1>3, <1>4, <1>5
<1> QED
  BY <1>6, Zenon DEF PairedTable

-----------------------------------------------------------------------------
(* The import. *)

\* Events as they were reported, whatever places they inherit.
Restates(legs, e) ==
  /\ DOMAIN e = DOMAIN legs
  /\ \A k \in DOMAIN legs : /\ Alike(legs[k], e[k])
                            /\ legs[k].lots = e[k].lots /\ legs[k].amount = e[k].amount

\* The candidates of a delta were all reported.
FromEvents(add, n) == \A i \in 1..n : \E e \in Events : Restates(add[i], e)

\* Candidates of one group restate one record.
LEMMA EventsGroup ==
  ASSUME NEW add, NEW n, Eventful(add, n), FromEvents(add, n)
  PROVE  Grouped(add, n)
<1>1. ASSUME NEW i \in 1..n, NEW j \in 1..n, add[i][1].group # 0, add[i][1].group = add[j][1].group
      PROVE  SameRecord(add[i][1], add[j][1])
  <2>1. PICK e \in Events : Restates(add[i], e)
    BY Zenon DEF FromEvents
  <2>2. PICK f \in Events : Restates(add[j], f)
    BY Zenon DEF FromEvents
  <2>3. 1 \in DOMAIN add[i] /\ 1 \in DOMAIN add[j]
    BY DEF Eventful, Shaped
  <2>4. Alike(add[i][1], e[1]) /\ Alike(add[j][1], f[1]) /\ 1 \in DOMAIN e \cap DOMAIN f
    BY <2>1, <2>2, <2>3, Zenon DEF Restates
  <2>5. e[1].group # 0 /\ e[1].group = f[1].group
    BY <1>1, <2>4, Zenon DEF Alike
  <2>6. SameRecord(e[1], f[1])
    BY <2>4, <2>5, RequestsAssumption, Zenon
  <2> QED
    BY <2>4, <2>6, Zenon DEF Alike, SameRecord
<1>2. ASSUME NEW i \in 1..n, NEW k \in DOMAIN add[i], CorporateLeg(add[i][k])
      PROVE  LotsCost(add[i][k].lots) = add[i][k].amount
  <2>1. PICK e \in Events : Restates(add[i], e)
    BY Zenon DEF FromEvents
  <2>2. k \in DOMAIN e /\ Alike(add[i][k], e[k]) /\ add[i][k].lots = e[k].lots
        /\ add[i][k].amount = e[k].amount
    BY <2>1, Zenon DEF Restates
  <2>3. CorporateLeg(e[k])
    BY <1>2, <2>2, Zenon DEF Alike, CorporateLeg
  <2>4. LotsCost(e[k].lots) = e[k].amount
    BY <2>2, <2>3, RequestsAssumption, Zenon
  <2> QED
    BY <2>2, <2>4, Zenon
<1> QED
  BY <1>1, <1>2, Zenon DEF Grouped

\* The rows an import is judged over.
Beside(some, add, remove) ==
  {r \in some \ remove : r.acct \in AcctsOf(remove \cup LegsOf(add))}

\* An accepted import, opened: what the contract promised of its events, and the
\* events it wrote.
LEMMA ImportOpened ==
  ASSUME NEW c \in Nat, NEW some, \A r \in some : r.id \in 1..c,
         NEW add, NEW n, Eventful(add, n), NEW remove,
         NEW d, d = ApplyImportDelta(some, c, add, remove), d.ok
  PROVE  /\ d.remove = remove /\ Removable(some, remove)
         /\ \A i \in 1..n : ImportContract(add[i])
         /\ NamedOnce(add) /\ Unique(Beside(some, add, remove) \cup d.add)
         /\ \E W, I : Wrote(add, n, c, W, I, d.add)
<1> DEFINE legs == LegsOf(add)
           accts == AcctsOf(remove \cup legs)
           kept == Beside(some, add, remove)
           base == Base(kept, c, legs)
           S == Stamped(add, c, base)
           offer == Offered(kept, Ordered(add, S), accts)
           stored == Inserted(LegsOf(S), offer.pos)
<1>1. d = Written(some, add, remove, kept, offer, stored)
  BY DEF Beside, ApplyImportDelta, ImportIn, ImportOver, ImportAsked, WrittenOf
<1>2. \A x \in kept : x.id \in 1..c
  BY DEF Beside
<1>4. n \in Nat /\ DOMAIN add = 1..n
  BY DEF Eventful
<1> HIDE DEF legs, kept, base, stored, offer, accts
<1>5. /\ d.remove = remove /\ d.add = stored /\ Removable(some, remove)
      /\ \A i \in DOMAIN add : ImportContract(add[i])
      /\ NamedOnce(add) /\ Unique(kept \cup stored) /\ offer.ok
  BY <1>1 DEF Written
<1>6. \E W, I : Wrote(add, n, c, W, I, stored)
  <2>1. Offered(kept, Ordered(add, Stamped(add, c, base)), accts).ok
    BY <1>5, Zenon DEF offer
  <2>2. \E W, I : Wrote(add, n, c, W, I,
             Inserted(LegsOf(Stamped(add, c, base)),
                      Offered(kept, Ordered(add, Stamped(add, c, base)), accts).pos))
    BY <1>2, <2>1, WrittenWhole, Zenon
  <2> QED
    BY <2>2, Zenon DEF stored, offer
<1> QED
  BY <1>4, <1>5, <1>6, Zenon DEF kept

\* A candidate that corrects a row removed is stamped as that row.
Inherits(add, n, remove) ==
  \A i \in 1..n : \A k \in DOMAIN add[i] : \A r \in remove :
     add[i][k].ext # 0 /\ SameRecord(add[i][k], r) => add[i][k].stamp = r.stamp

\* An accepted import keeps the pairs: a group it names stands nowhere else, for
\* a row that carries it would be the same record twice.
LEMMA ImportFits ==
  ASSUME TypeOK, PairedTable, NEW add, NEW n, Eventful(add, n), FromEvents(add, n),
         NEW remove, Inherits(add, n, remove), ApplyImportDelta(rows, clock, add, remove).ok
  PROVE  KeepsTable(ApplyImportDelta(rows, clock, add, remove), 2 * n)
<1> DEFINE d == ApplyImportDelta(rows, clock, add, remove)
           kept == Beside(rows, add, remove)
           new == d.add
<1>1. clock \in Nat /\ clock <= MaxClock /\ MaxClock \in Nat /\ \A r \in rows : r.id \in 1..clock
  BY RequestsAssumption DEF TypeOK
<1>2. /\ d.remove = remove /\ Removable(rows, remove)
      /\ \A i \in 1..n : ImportContract(add[i])
      /\ NamedOnce(add) /\ Unique(kept \cup new)
      /\ \E W, I : Wrote(add, n, clock, W, I, new)
  BY <1>1, ImportOpened, Zenon
<1> HIDE DEF d, new, kept
<1>0. PICK W, I : Wrote(add, n, clock, W, I, new)
  BY <1>2, Zenon
<1>3. /\ I \in SUBSET (1..n) /\ WrittenAs(add, n, clock, W)
      /\ \A i \in I : OneBreakdown(add[i], W[i])
      /\ new = UNION {LegSet(W[i]) : i \in I}
  BY <1>0, Zenon DEF Wrote
<1>4. Grouped(add, n)
  BY EventsGroup, Zenon
<1>5. AllPaired(new) /\ OwnIds(new) /\ \A r \in new : r.id \in Int /\ r.id > clock
  BY <1>0, <1>1, <1>2, <1>4, ImportedPairs, Zenon
<1>6. ASSUME NEW r \in new
      PROVE  \E i \in I : \E k \in DOMAIN add[i] : r = W[i][k]
  <2>1. PICK i \in I : r \in LegSet(W[i])
    BY <1>3
  <2>2. DOMAIN W[i] = DOMAIN add[i]
    BY <1>3 DEF WrittenAs
  <2> QED
    BY <2>1, <2>2, Zenon DEF LegSet
<1>7. ASSUME NEW i \in I, NEW k \in DOMAIN add[i]
      PROVE  W[i][k] \in new
  <2>1. DOMAIN W[i] = DOMAIN add[i]
    BY <1>3 DEF WrittenAs
  <2>2. W[i][k] \in LegSet(W[i])
    BY <2>1, Zenon DEF LegSet
  <2> QED
    BY <1>3, <2>2
<1>8. ASSUME NEW i \in I, NEW k \in DOMAIN add[i]
      PROVE  i \in 1..n /\ \E e \in Events : /\ DOMAIN e = DOMAIN add[i]
                                             /\ \A l \in DOMAIN add[i] : Alike(W[i][l], e[l])
  <2>1. i \in 1..n
    BY <1>3
  <2>2. PICK e \in Events : Restates(add[i], e)
    BY <2>1, Zenon DEF FromEvents
  <2>3. \A l \in DOMAIN add[i] : Alike(W[i][l], add[i][l]) /\ Alike(add[i][l], e[l])
    BY <1>3, <2>1, <2>2, Zenon DEF WrittenAs, Restates
  <2>4. \A l \in DOMAIN add[i] : Alike(W[i][l], e[l])
    <3> TAKE l \in DOMAIN add[i]
    <3>1. Alike(W[i][l], add[i][l]) /\ Alike(add[i][l], e[l])
      BY <2>3, Zenon
    <3> QED
      BY <3>1, Zenon DEF Alike
  <2> QED
    BY <2>1, <2>2, <2>4, Zenon DEF Restates
<1>9. ASSUME NEW r \in new
      PROVE  Dated(r) /\ Named(r, clock + 2 * n) /\ Sourced(r)
  <2>1. PICK i \in I : \E k \in DOMAIN add[i] : r = W[i][k]
    BY <1>6, Zenon
  <2>2. PICK k \in DOMAIN add[i] : r = W[i][k]
    BY <2>1, Zenon
  <2>3. PICK e \in Events : DOMAIN e = DOMAIN add[i] /\ \A l \in DOMAIN add[i] : Alike(W[i][l], e[l])
    BY <1>8, Zenon
  <2>4. Alike(r, e[k]) /\ k \in DOMAIN e /\ Dated(e[k])
    BY <2>2, <2>3, RequestsAssumption, Zenon
  <2>5. Dated(r) /\ SameRecord(e[k], r)
    BY <2>4, Zenon DEF Dated, Alike, SameRecord
  <2>8. Sourced(r)
    BY <2>4, <2>5, Zenon DEF Sourced
  <2>6. CASE r.group = 0
    <3>1. 0 \in 0..(clock + 2 * n)
      BY <1>1 DEF Eventful
    <3> QED
      BY <2>5, <2>6, <2>8, <3>1, Zenon DEF Named
  <2>7. CASE r.group # 0
    <3>1. i \in 1..n /\ add[i][k].group = r.group
      BY <1>3, <2>2, <1>8, Zenon DEF WrittenAs, Alike
    <3>2. TwoLegged(add[i]) /\ add[i][1].group = r.group
      <4>1. Shaped(add[i]) /\ ImportContract(add[i])
        BY <1>2, <3>1, Zenon DEF Eventful
      <4> QED
        BY <2>7, <3>1, <4>1, ContractPairs, Zenon
    <3>3. 1 \in DOMAIN add[i]
      BY <3>2 DEF TwoLegged
    <3>4. Alike(W[i][1], e[1]) /\ Alike(W[i][1], add[i][1])
      BY <1>3, <2>3, <3>1, <3>3, Zenon DEF WrittenAs
    <3>5. e[1].group = r.group
      BY <3>2, <3>4, Zenon DEF Alike
    <3> QED
      BY <2>4, <2>5, <2>8, <3>5, Zenon DEF Named
  <2> QED
    BY <2>5, <2>6, <2>7, <2>8
<1>10. ASSUME NEW x \in new
       PROVE  /\ x.ext # 0
              /\ \A r \in rows \ remove : SameRecord(x, r) => r \in kept
              /\ \A r \in remove : SameRecord(x, r) => r.stamp = 0 \/ x.stamp = r.stamp
  <2>1. PICK i \in I : \E k \in DOMAIN add[i] : x = W[i][k]
    BY <1>6, Zenon
  <2>2. PICK k \in DOMAIN add[i] : x = W[i][k]
    BY <2>1, Zenon
  <2> DEFINE leg == add[i][k]
  <2>3. i \in 1..n /\ Alike(x, leg) /\ (leg.stamp # 0 => x.stamp = leg.stamp)
    BY <1>3, <1>8, <2>2, Zenon DEF WrittenAs
  <2>4. leg.ext # 0
    BY <1>2, <2>3, Zenon DEF ImportContract
  <2>5. x.ext # 0 /\ \A r : SameRecord(x, r) => SameRecord(leg, r)
    BY <2>3, <2>4, Zenon DEF Alike, SameRecord
  <2>6. leg \in LegsOf(add)
    <3>1. i \in DOMAIN add
      BY <2>3 DEF Eventful
    <3>2. leg \in LegSet(add[i])
      BY Zenon DEF LegSet
    <3> QED
      BY <3>1, <3>2 DEF LegsOf
  <2>7. \A r \in remove : SameRecord(leg, r) => leg.stamp = r.stamp
    BY <2>3, <2>4, Zenon DEF Inherits
  <2> HIDE DEF leg
  <2>8. ASSUME NEW r \in rows \ remove, SameRecord(x, r) PROVE r \in kept
    <3>1. r.acct = leg.acct
      BY <2>5, <2>8, Zenon DEF SameRecord
    <3>2. r.acct \in AcctsOf(remove \cup LegsOf(add))
      BY <2>6, <3>1 DEF AcctsOf
    <3> QED
      BY <3>2 DEF kept, Beside
  <2>9. ASSUME NEW r \in remove, SameRecord(x, r) PROVE r.stamp = 0 \/ x.stamp = r.stamp
    BY <2>3, <2>5, <2>7, <2>9, Zenon
  <2> QED
    BY <2>5, <2>8, <2>9, Zenon
<1>11. ASSUME NEW x \in new, NEW r \in rows \ remove, SameRecord(x, r)
       PROVE  FALSE
  <2>1. r \in kept /\ x.ext # 0
    BY <1>10, <1>11, Zenon
  <2>2. x = r
    BY <1>2, <1>11, <2>1 DEF Unique
  <2> QED
    BY <1>1, <1>5, <2>2
<1>12. ASSUME NEW r \in new, r.group # 0, NEW t \in rows \ remove, t.group = r.group
       PROVE  FALSE
  <2>1. PICK i \in I : \E k \in DOMAIN add[i] : r = W[i][k]
    BY <1>6, Zenon
  <2>2. PICK k \in DOMAIN add[i] : r = W[i][k]
    BY <2>1, Zenon
  <2>3. PICK e \in Events : DOMAIN e = DOMAIN add[i] /\ \A l \in DOMAIN add[i] : Alike(W[i][l], e[l])
    BY <1>8, Zenon
  <2>4. i \in 1..n /\ add[i][k].group = r.group
    BY <1>3, <2>2, <1>8, ZenonT(60) DEF WrittenAs, Alike
  <2>5. TwoLegged(add[i]) /\ add[i][1].group = r.group
    <3>1. Shaped(add[i]) /\ ImportContract(add[i])
      BY <1>2, <2>4, Zenon DEF Eventful
    <3> QED
      BY <1>12, <2>4, <3>1, ContractPairs, Zenon
  <2>6. DOMAIN add[i] = {1, 2} /\ 1 \in DOMAIN add[i]
    BY <2>5 DEF TwoLegged
  <2>7. e[1].group = r.group
    <3>1. Alike(W[i][1], e[1]) /\ Alike(W[i][1], add[i][1])
      BY <1>3, <2>3, <2>4, <2>6, Zenon DEF WrittenAs
    <3> QED
      BY <2>5, <3>1, Zenon DEF Alike
  <2>8. t.group \notin 0..clock
    <3>1. e[1].group \notin 1..MaxClock
      BY <2>3, <2>6, RequestsAssumption, Zenon
    <3> QED
      BY <1>1, <1>12, <2>7, <3>1
  <2>9. PICK f \in Events : f[1].group = t.group /\ \E l \in DOMAIN f : SameRecord(f[l], t)
    BY <2>8, Zenon DEF PairedTable, Regular, Named
  <2>10. PICK l \in DOMAIN f : SameRecord(f[l], t)
    BY <2>9, Zenon
  <2>11. l \in DOMAIN add[i] /\ l \in DOMAIN e \cap DOMAIN f
    <3>1. DOMAIN f \subseteq {1, 2}
      BY RequestsAssumption
    <3> QED
      BY <2>3, <2>6, <2>10, <3>1
  <2>12. SameRecord(e[l], f[l])
    <3>1. e[1].group # 0 /\ e[1].group = f[1].group
      BY <1>12, <2>7, <2>9
    <3> QED
      BY <2>11, <3>1, RequestsAssumption, Zenon
  <2> DEFINE x == W[i][l]
  <2>13. x \in new /\ SameRecord(x, t)
    <3>1. Alike(x, e[l])
      BY <2>3, <2>11, Zenon
    <3> QED
      BY <1>7, <2>10, <2>11, <2>12, <3>1, Zenon DEF Alike, SameRecord
  <2> HIDE DEF x
  <2> QED
    BY <1>11, <2>13, Zenon
<1>13. ASSUME NEW x \in new, NEW r \in rows, SameOrigin(x, r)
       PROVE  x.src = r.src /\ x.stamp = r.stamp
  <2>1. r.id \in 1..clock /\ r.stamp \in Int /\ r.stamp # 0 /\ Sourced(r) /\ Sourced(x) /\ x.ext # 0
    <3>1. Sourced(r)
      BY Zenon DEF PairedTable, Regular
    <3>2. r.stamp \in 1..(clock + AppAhead)
      BY RowsRecorded, Zenon DEF Recorded
    <3> QED
      BY <1>1, <1>9, <1>10, <3>1, <3>2
  <2>2. r.ext \in Nat /\ x.ext \in Nat
    BY <2>1, RecordsAre, Zenon
  <2>3. r.ext = x.ext
    BY <1>13, <2>1, <2>2 DEF SameOrigin, LotOrigin
  <2>4. x.src = r.src
    BY <2>1, <2>3, RecordsAre, Zenon
  <2>5. SameRecord(x, r)
    BY <1>13, <2>3, <2>4, Zenon DEF SameOrigin, SameRecord
  <2>6. r \in remove
    BY <1>11, <2>5
  <2> QED
    BY <1>10, <2>1, <2>4, <2>5, <2>6, Zenon
<1>14. Fitting(rows, d.remove, d.add)
  <2>1. remove \subseteq rows /\ Whole(rows, remove)
    BY <1>2, Zenon DEF Removable
  <2>2. \A r \in new : r.group # 0 => Legs(rows \ remove, r.group) = {}
    BY <1>12 DEF Legs
  <2> QED
    BY <1>2, <1>5, <2>1, <2>2, Zenon DEF Fitting, new
<1>15. \A x \in d.add, y \in rows \ d.remove : x.id # y.id
  BY <1>1, <1>5 DEF new
<1>16. KeepsPlaces(d)
  <2>1. Unique(new)
    BY <1>2 DEF Unique
  <2>2. \A x \in new, r \in rows \ remove : x.ext # 0 => ~SameRecord(x, r)
    BY <1>11, Zenon
  <2>3. \A x \in new, r \in rows : SameOrigin(x, r) => x.src = r.src /\ x.stamp = r.stamp
    BY <1>13, Zenon
  <2> QED
    BY <1>2, <2>1, <2>2, <2>3, Zenon DEF KeepsPlaces, new
<1> QED
  <2>1. OwnIds(d.add) /\ \A r \in d.add : Regular(r, clock + 2 * n)
    <3>1. \A r \in d.add : Record(r)
      BY ImportedAreRecords, Zenon DEF d
    <3> QED
      BY <1>5, <1>9, <3>1, Zenon DEF new, Regular
  <2>2. KeepsTable(d, 2 * n)
    BY <1>14, <1>15, <1>16, <2>1, Zenon DEF KeepsTable, new
  <2> QED
    BY <2>2, Zenon DEF d

-----------------------------------------------------------------------------
(* Restating an arrival. *)

\* x is the row y, its breakdown restated.
Redone(x, y) == x = [y EXCEPT !.lots = x.lots, !.amount = x.amount]

\* leg with another breakdown.
Broken(leg, lots, amount) == [leg EXCEPT !.lots = lots, !.amount = amount]

\* Restating a breakdown restates nothing else.
LEMMA RowRestated ==
  ASSUME NEW y, IsRow(y), NEW lots, NEW amount
  PROVE  /\ Redone(Broken(y, lots, amount), y)
         /\ Broken(y, lots, amount).lots = lots /\ Broken(y, lots, amount).amount = amount
<1> DEFINE x == [y EXCEPT !.lots = lots, !.amount = amount]
<1>1. {"lots", "amount"} \subseteq DOMAIN y
  BY RowFields, Zenon
<1>2. x.lots = lots /\ x.amount = amount
  BY <1>1, Zenon
<1>3. Redone(x, y)
  BY <1>2, Zenon DEF Redone
<1> QED
  BY <1>2, <1>3, Zenon DEF Broken

LEMMA RestatedAgain ==
  ASSUME NEW y, IsRow(y), NEW x, Redone(x, y), NEW lots, NEW amount
  PROVE  Broken(x, lots, amount) = Broken(y, lots, amount)
BY RowHasColumns DEF Redone, RowColumns, Broken

LEMMA RedoneKeeps ==
  ASSUME NEW y, IsRow(y), NEW x, Redone(x, y)
  PROVE  /\ IsRow(x) /\ x.id = y.id /\ x.stamp = y.stamp /\ Alike(x, y) /\ Record(x)
         /\ Record(y) /\ x.lots = y.lots /\ x.amount = y.amount => x = y
<1>1. RowColumns \subseteq DOMAIN y
  BY RowHasColumns
<1>2. IsRow(x) /\ x.id = y.id /\ x.stamp = y.stamp /\ Alike(x, y)
  <2> DEFINE lots == x.lots
             amount == x.amount
             z == [y EXCEPT !.lots = lots, !.amount = amount]
  <2>1. x = z
    BY Zenon DEF Redone
  <2> HIDE DEF lots, amount
  <2>2. IsRow(z) /\ z.id = y.id /\ z.stamp = y.stamp /\ Alike(z, y)
    BY <1>1, ZenonT(30) DEF IsRow, Alike, RowColumns
  <2> HIDE DEF z
  <2> QED
    BY <2>1, <2>2, Zenon
<1>3. Record(x)
  BY DEF Record, Redone
<1>4. Record(y) /\ x.lots = y.lots /\ x.amount = y.amount => x = y
  BY <1>1 DEF Record, Redone, RowColumns
<1> QED
  BY <1>2, <1>3, <1>4

-----------------------------------------------------------------------------
(* What releasing the onward moves again does to the journals read. *)

\* The leg y of a move has its other leg in the journals J.
MovedLeg(J, y) ==
  TransferLeg(y) /\ y.group # 0 /\ \E z \in J : z # y /\ z.group = y.group

\* The legs of a move are restated alike.
BothSides(J, K) ==
  \A y, z \in J : y.group # 0 /\ y.group = z.group /\ TransferLeg(y) =>
    \A x, w \in K : x.id = y.id /\ w.id = z.id => x.lots = w.lots /\ x.amount = w.amount

\* The journals J, the arrival op restated, as K: row for row, a move alike on
\* both sides, and nothing else touched.
Restating(J, op, K) ==
  /\ OwnIds(K)
  /\ \A x \in K : \E y \in J : Redone(x, y)
  /\ \A y \in J : \E x \in K : x.id = y.id
  /\ \A y \in J \ {op} : y \notin K => MovedLeg(J, y)
  /\ BothSides(J, K)

\* A table of rows in which the pairs agree, and the journals read of it.
Among(some, J) ==
  /\ OwnIds(some) /\ AllPaired(some) /\ J \subseteq some
  /\ \A r \in some : IsRow(r) /\ Record(r)

\* Two rows of one group are its pair.
LEMMA Mates ==
  ASSUME NEW some, AllPaired(some), NEW y \in some, y.group # 0,
         NEW z \in some, z # y, z.group = y.group
  PROVE  Legs(some, y.group) = {y, z} /\ OneParcel(y, z) /\ OneParcel(z, y)
<1>1. PICK s \in some : /\ s # y /\ Legs(some, y.group) = {y, s}
                        /\ OneParcel(y, s) /\ OneParcel(s, y)
  BY Zenon DEF AllPaired, Paired
<1>2. z \in Legs(some, y.group)
  BY DEF Legs
<1>3. z = s
  BY <1>1, <1>2
<1> QED
  BY <1>1, <1>3

\* Stating the purchases of an arrival touches that arrival alone.
LEMMA RestatingStarts ==
  ASSUME NEW some, NEW J, Among(some, J), NEW op \in J, op.group = 0,
         NEW stated, stated = [op EXCEPT !.lots = stated.lots, !.amount = stated.amount]
  PROVE  Restating(J, op, (J \ {op}) \cup {stated})
<1> DEFINE K == (J \ {op}) \cup {stated}
<1>1. \A y \in J : y \in some /\ IsRow(y) /\ Record(y)
  BY Zenon DEF Among
<1>2. Redone(stated, op) /\ stated.id = op.id
  <2>1. Redone(stated, op)
    BY Zenon DEF Redone
  <2> QED
    BY <1>1, <2>1, RedoneKeeps, Zenon
<1>3. \A x, y \in J : x.id = y.id => x = y
  BY <1>1, Zenon DEF Among, OwnIds
<1>4. OwnIds(K)
  BY <1>2, <1>3 DEF OwnIds
<1>5. \A x \in K : \E y \in J : Redone(x, y)
  <2>1. \A y \in J : Redone(y, y)
    BY <1>1 DEF Redone, Record
  <2> QED
    BY <1>2, <2>1
<1>6. \A y \in J : \E x \in K : x.id = y.id
  BY <1>2
<1>7. \A y \in J \ {op} : y \notin K => MovedLeg(J, y)
  OBVIOUS
<1>8. ASSUME NEW y \in J, NEW z \in J, y.group # 0, y.group = z.group, TransferLeg(y),
             NEW x \in K, NEW w \in K, x.id = y.id, w.id = z.id
      PROVE  x.lots = w.lots /\ x.amount = w.amount
  <2>1. x = y /\ w = z
    BY <1>2, <1>3, <1>8
  <2>2. CASE y = z
    BY <2>1, <2>2
  <2>3. CASE y # z
    <3>1. OneParcel(y, z)
      BY <1>1, <1>8, <2>3, Mates, Zenon DEF Among
    <3> QED
      BY <1>8, <2>1, <3>1, Zenon DEF OneParcel
  <2> QED
    BY <2>2, <2>3
<1>9. BothSides(J, K)
  <2> HIDE DEF K
  <2> QED
    BY <1>8 DEF BothSides
<1>10. Restating(J, op, K)
  <2> HIDE DEF K
  <2> QED
    BY <1>4, <1>5, <1>6, <1>7, <1>9, Zenon DEF Restating
<1> QED
  BY <1>10, Zenon

\* Releasing a move again rewrites both its legs alike, or nothing.
LEMMA AgainRewrites ==
  ASSUME NEW K, NEW out
  PROVE  \/ ReleaseAgain(K, out).pos = K
         \/ \E in \in K : /\ in.group = out.group /\ in.typ = "transfer_in"
                          /\ \E lots : ReleaseAgain(K, out).pos = Rebroken(K, {out.id, in.id}, lots)
<1> DEFINE in == CHOOSE r \in ArrivingLeg(K, out) : TRUE
           r  == ReleasedLots(AheadOf(JournalOf(K, out.acct), out), out.paper, out.qty)
           again == Provided(r.ok, IF r.ok THEN Rebroken(K, MovedLegs(out, in), Quantize(r.pieces, out.qty))
                                   ELSE K)
<1>1. \A ok, p : Provided(ok, p).pos = p
  BY DEF Provided
<1>2. CASE ArrivingLeg(K, out) = {}
  <2>1. ReleaseAgain(K, out) = Provided(FALSE, K)
    BY <1>2, Zenon DEF ReleaseAgain
  <2> QED
    BY <1>1, <2>1, Zenon
<1>3. CASE ArrivingLeg(K, out) # {}
  <2>1. in \in ArrivingLeg(K, out)
    BY <1>3, Zenon
  <2>2. in \in K /\ in.group = out.group /\ in.typ = "transfer_in"
    <3> HIDE DEF in
    <3> QED
      BY <2>1 DEF ArrivingLeg, Legs
  <2>3. ReleaseAgain(K, out) \in {Provided(TRUE, K), again}
    BY <1>3, Zenon DEF ReleaseAgain
  <2> HIDE DEF r, in
  <2>4. again.pos \in {K, Rebroken(K, {out.id, in.id}, Quantize(r.pieces, out.qty))}
    BY <1>1, Zenon DEF MovedLegs
  <2> HIDE DEF again
  <2>5. ReleaseAgain(K, out).pos \in {K, again.pos}
    BY <1>1, <2>3, Zenon
  <2>6. ReleaseAgain(K, out).pos \in {K, Rebroken(K, {out.id, in.id}, Quantize(r.pieces, out.qty))}
    BY <2>4, <2>5, Zenon
  <2> QED
    BY <2>2, <2>6, Zenon
<1> QED
  BY <1>2, <1>3

\* One more onward move released again.
LEMMA RestatingGoesOn ==
  ASSUME NEW some, NEW J, Among(some, J), NEW op, NEW K, Restating(J, op, K),
         NEW out \in J, out.typ = "transfer_out", out.group # 0
  PROVE  Restating(J, op, ReleaseAgain(K, out).pos)
<1>1. CASE ReleaseAgain(K, out).pos = K
  BY <1>1
<1>2. ASSUME NEW in \in K, NEW lots, in.group = out.group, in.typ = "transfer_in"
      PROVE  Restating(J, op, Rebroken(K, {out.id, in.id}, lots))
  <2> DEFINE ids == {out.id, in.id}
             amount == LotsCost(lots)
             F(leg) == IF leg.id \in ids THEN Broken(leg, lots, amount) ELSE leg
             K2 == {F(leg) : leg \in K}
  <2>1. Rebroken(K, ids, lots) = K2
    BY Zenon DEF Rebroken, Broken
  <2>2. \A y \in J : y \in some /\ IsRow(y) /\ Record(y)
    BY Zenon DEF Among
  <2>3. \A x, y \in J : x.id = y.id => x = y
    BY <2>2, Zenon DEF Among, OwnIds
  <2>4. ASSUME NEW leg \in K
        PROVE  /\ F(leg).id = leg.id
               /\ \E y \in J : Redone(F(leg), y) /\ y.id = leg.id /\ Redone(leg, y)
               /\ leg.id \in ids => F(leg).lots = lots /\ F(leg).amount = amount
    <3>1. PICK y \in J : Redone(leg, y)
      BY Zenon DEF Restating
    <3>2. IsRow(y) /\ y.id = leg.id
      BY <2>2, <3>1, RedoneKeeps, Zenon
    <3>3. CASE leg.id \notin ids
      BY <3>1, <3>2, <3>3, Zenon
    <3>4. CASE leg.id \in ids
      <4> DEFINE z == Broken(y, lots, amount)
      <4> HIDE DEF amount, ids
      <4>0. IsRow(y) /\ Redone(leg, y)
        BY <3>1, <3>2
      <4>3. Broken(leg, lots, amount) = Broken(y, lots, amount)
        BY <4>0, RestatedAgain
      <4>1. F(leg) = z
        BY <3>4, <4>3
      <4>2. Redone(z, y) /\ z.lots = lots /\ z.amount = amount
        BY <4>0, RowRestated
      <4> HIDE DEF z, F
      <4>4. z.id = y.id
        BY <3>2, <4>2, RedoneKeeps, Zenon
      <4> QED
        BY <3>1, <3>2, <4>1, <4>2, <4>4, Zenon
    <3> QED
      BY <3>3, <3>4, Zenon
  <2>5. PICK mate \in J : mate.id = in.id /\ Redone(in, mate)
    BY <2>4, Zenon
  <2>6. mate # out /\ mate.group = out.group /\ TransferLeg(mate) /\ TransferLeg(out)
    <3>1. Alike(in, mate)
      BY <2>2, <2>5, RedoneKeeps, Zenon
    <3> QED
      BY <1>2, <3>1 DEF Alike, TransferLeg
  <2>7. Legs(some, out.group) = {out, mate}
    BY <2>2, <2>6, Mates, ZenonT(60) DEF Among
  <2>8. \A y \in J : y.group = out.group => y = out \/ y = mate
    BY <2>2, <2>7 DEF Legs
  <2>9. \A y \in J : y.id \in ids => y = out \/ y = mate
    BY <2>3, <2>5
  <2>10. \A x : x \in K2 <=> \E leg \in K : x = F(leg)
    BY Zenon
  <2> HIDE DEF ids, F, K2, amount
  <2>11. OwnIds(K2)
    <3>1. \A x, y \in K : x.id = y.id => x = y
      BY Zenon DEF Restating, OwnIds
    <3>2. ASSUME NEW x \in K2, NEW y \in K2, x.id = y.id PROVE x = y
      <4>1. PICK a \in K : x = F(a)
        BY <2>10, Zenon
      <4>2. PICK b \in K : y = F(b)
        BY <2>10, Zenon
      <4>3. a.id = b.id
        BY <2>4, <3>2, <4>1, <4>2, Zenon
      <4> QED
        BY <3>1, <4>1, <4>2, <4>3, Zenon
    <3> QED
      BY <3>2, Zenon DEF OwnIds
  <2>12. \A x \in K2 : \E y \in J : Redone(x, y)
    <3> TAKE x \in K2
    <3>1. PICK a \in K : x = F(a)
      BY <2>10, Zenon
    <3> QED
      BY <2>4, <3>1, Zenon
  <2>13. \A y \in J : \E x \in K2 : x.id = y.id
    <3> TAKE y \in J
    <3>1. PICK leg \in K : leg.id = y.id
      BY Zenon DEF Restating
    <3>2. F(leg) \in K2 /\ F(leg).id = y.id
      BY <2>4, <2>10, <3>1, Zenon
    <3> QED
      BY <3>2, Zenon
  <2>14. ASSUME NEW y \in J \ {op}, y \notin K2
         PROVE  MovedLeg(J, y)
    <3>1. CASE y \notin K
      BY <3>1, Zenon DEF Restating
    <3>2. CASE y \in K
      <4>1. y.id \in ids
        <5>1. SUFFICES ASSUME y.id \notin ids PROVE FALSE
          BY Zenon
        <5>2. F(y) = y
          BY <5>1, Zenon DEF F
        <5> QED
          BY <2>10, <2>14, <3>2, <5>2, Zenon
      <4>2. y \in J /\ (y = out \/ y = mate)
        BY <2>9, <4>1
      <4> QED
        BY <2>6, <4>2 DEF MovedLeg
    <3> QED
      BY <3>1, <3>2
  <2>15. ASSUME NEW y \in J, NEW z \in J, y.group # 0, y.group = z.group, TransferLeg(y),
                NEW x \in K2, NEW w \in K2, x.id = y.id, w.id = z.id
         PROVE  x.lots = w.lots /\ x.amount = w.amount
    <3>1. PICK a \in K : x = F(a)
      BY <2>10, Zenon
    <3>2. PICK b \in K : w = F(b)
      BY <2>10, Zenon
    <3>3. a.id = y.id /\ b.id = z.id
      BY <2>4, <2>15, <3>1, <3>2, Zenon
    <3>4. CASE y.group = out.group
      <4>1. y.id \in ids /\ z.id \in ids
        BY <2>5, <2>8, <2>15, <3>4 DEF ids
      <4> QED
        BY <2>4, <3>1, <3>2, <3>3, <4>1
    <3>5. CASE y.group # out.group
      <4>1. y.id \notin ids /\ z.id \notin ids
        BY <2>6, <2>9, <2>15, <3>5
      <4>2. x = a /\ w = b
        BY <3>1, <3>2, <3>3, <4>1 DEF F
      <4> QED
        <5>1. BothSides(J, K)
          BY Zenon DEF Restating
        <5> QED
          BY <2>15, <3>3, <4>2, <5>1 DEF BothSides
    <3> QED
      BY <3>4, <3>5
  <2>16. BothSides(J, K2)
    BY <2>15 DEF BothSides
  <2>17. Restating(J, op, K2)
    BY <2>11, <2>12, <2>13, <2>14, <2>16, Zenon DEF Restating
  <2> QED
    BY <2>1, <2>17, Zenon DEF ids
<1>3. CASE ReleaseAgain(K, out).pos # K
  <2>1. PICK in \in K : /\ in.group = out.group /\ in.typ = "transfer_in"
                        /\ \E lots : ReleaseAgain(K, out).pos = Rebroken(K, {out.id, in.id}, lots)
    BY <1>3, AgainRewrites, ZenonT(60)
  <2>2. PICK lots : ReleaseAgain(K, out).pos = Rebroken(K, {out.id, in.id}, lots)
    BY <2>1, Zenon
  <2> QED
    BY <1>2, <2>1, <2>2, Zenon
<1> QED
  BY <1>1, <1>3

\* All of them.
LEMMA RestatingRun ==
  ASSUME NEW some, NEW J, Among(some, J), NEW op, NEW K, Restating(J, op, K),
         NEW O, NEW n \in Nat, Len(O) = n,
         \A i \in 1..n : O[i] \in J /\ O[i].typ = "transfer_out" /\ O[i].group # 0
  PROVE  Restating(J, op, Run(ReleaseAgain, K, O).pos)
<1>1. PICK after : Steps("release", K, O, after) /\ RunOf("release", K, O) = after[n]
  <2>1. Len(O) \in Nat
    OBVIOUS
  <2> QED
    BY <2>1, RunSteps
<1>2. /\ after[0] = Provided(TRUE, K)
      /\ \A i \in 1..n : after[i] = IF after[i - 1].ok THEN ReleaseAgain(after[i - 1].pos, O[i])
                                    ELSE after[i - 1]
  <2>1. \A q, x : StepOf("release", q, x) = ReleaseAgain(q, x)
    BY DEF StepOf
  <2>2. /\ after[0] = Provided(TRUE, K)
        /\ \A i \in 1..n : after[i] = IF after[i - 1].ok
                                      THEN StepOf("release", after[i - 1].pos, O[i])
                                      ELSE after[i - 1]
    BY <1>1, Zenon DEF Steps
  <2>3. \A i \in 1..n : after[i] = IF after[i - 1].ok THEN ReleaseAgain(after[i - 1].pos, O[i])
                                   ELSE after[i - 1]
    <3> TAKE i \in 1..n
    <3>1. StepOf("release", after[i - 1].pos, O[i]) = ReleaseAgain(after[i - 1].pos, O[i])
      BY <2>1, Zenon
    <3> QED
      BY <2>2, <3>1, Zenon
  <2> QED
    BY <2>2, <2>3, Zenon
<1>3. Run(ReleaseAgain, K, O) = after[n]
  <2>1. RunOf("release", K, O) = Run(ReleaseAgain, K, O)
    BY DEF RunOf
  <2> QED
    BY <1>1, <2>1, Zenon
<1> DEFINE Good(i) == Restating(J, op, after[i].pos)
           Bad == {i \in Nat : i <= n /\ ~Good(i)}
<1>4. Good(0)
  <2>1. after[0].pos = K
    BY <1>2 DEF Provided
  <2> QED
    BY <2>1, Zenon
<1>5. ASSUME NEW i \in 1..n, Good(i - 1) PROVE Good(i)
  <2>1. Restating(J, op, ReleaseAgain(after[i - 1].pos, O[i]).pos)
    <3> DEFINE P == after[i - 1].pos
               out == O[i]
    <3>1. Restating(J, op, P) /\ out \in J /\ out.typ = "transfer_out" /\ out.group # 0
      BY <1>5, Zenon
    <3> HIDE DEF P, out
    <3>2. Restating(J, op, ReleaseAgain(P, out).pos)
      BY <3>1, RestatingGoesOn, Zenon
    <3> QED
      BY <3>2, Zenon DEF P, out
  <2>2. CASE after[i - 1].ok
    BY <1>2, <2>1, <2>2, Zenon
  <2>3. CASE ~after[i - 1].ok
    BY <1>2, <1>5, <2>3, Zenon
  <2> QED
    BY <2>2, <2>3
<1>6. Bad = {}
  <2> SUFFICES ASSUME Bad # {} PROVE FALSE
    OBVIOUS
  <2>1. Bad \in SUBSET Nat
    OBVIOUS
  <2>2. PICK i \in Bad : \A j \in Bad : i <= j
    <3> HIDE DEF Bad
    <3> QED
      BY <2>1, SmallestOf
  <2> HIDE DEF Good
  <2>3. i \in Nat /\ i <= n /\ ~Good(i) /\ i # 0
    BY <1>4
  <2>4. i - 1 \in Nat /\ i - 1 <= n /\ i \in 1..n /\ ~(i <= i - 1)
    BY <2>3
  <2>5. Good(i - 1)
    BY <2>2, <2>4
  <2> QED
    BY <1>5, <2>3, <2>4, <2>5
<1>7. Good(n)
  <2> HIDE DEF Good
  <2> QED
    BY <1>6
<1> QED
  BY <1>3, <1>7, Zenon

\* x is the row y as the journals K hold it.
HeldAs(x, y, K) == x \in K /\ x.id = y.id /\ x.stamp = y.stamp /\ Alike(x, y)

\* A row restated among the journals is the row the settled journals hold.
LEMMA SettledRow ==
  ASSUME NEW some, NEW J, Among(some, J), NEW op, NEW K, Restating(J, op, K), NEW y \in J
  PROVE  /\ HeldAs(WithBreakdown(y, K), y, K)
         /\ \A x \in K : x.id = y.id => x = WithBreakdown(y, K)
<1>1. \A u \in J : u \in some /\ IsRow(u) /\ Record(u)
  BY Zenon DEF Among
<1>2. \A u, v \in J : u.id = v.id => u = v
  BY <1>1, Zenon DEF Among, OwnIds
<1> DEFINE x == CHOOSE x \in K : x.id = y.id
<1>3. x \in K /\ x.id = y.id
  <2>1. \E w \in K : w.id = y.id
    BY Zenon DEF Restating
  <2> QED
    BY <2>1, Zenon
<1>4. WithBreakdown(y, K) = [y EXCEPT !.lots = x.lots, !.amount = x.amount]
  BY Zenon DEF WithBreakdown
<1> HIDE DEF x
<1>5. Redone(x, y)
  <2>1. PICK u \in J : Redone(x, u)
    BY <1>3, Zenon DEF Restating
  <2>2. u.id = y.id
    BY <1>1, <1>3, <2>1, RedoneKeeps, Zenon
  <2> QED
    BY <1>2, <2>1, <2>2, Zenon
<1>6. WithBreakdown(y, K) = x
  BY <1>4, <1>5, Zenon DEF Redone
<1>7. Alike(x, y) /\ x.stamp = y.stamp
  BY <1>1, <1>5, RedoneKeeps, Zenon
<1>8. \A w \in K : w.id = y.id => w = x
  BY <1>3, Zenon DEF Restating, OwnIds
<1> QED
  BY <1>3, <1>6, <1>7, <1>8, Zenon DEF HeldAs

\* What restating an arrival rewrites are whole moves, alike on both sides.
LEMMA RestatedPairs ==
  ASSUME NEW some, NEW J, Among(some, J), NEW op \in J, op.group = 0,
         NEW K, Restating(J, op, K), NEW old, old = J \ K,
         NEW new, new = WithBreakdowns(old, K)
  PROVE  /\ Fitting(some, old, new) /\ OwnIds(new)
         /\ \A r \in new : \E y \in old : r.id = y.id /\ r.stamp = y.stamp /\ Alike(r, y)
<1>1. \A u \in J : u \in some /\ IsRow(u) /\ Record(u)
  BY Zenon DEF Among
<1>2. \A u, v \in some : u.id = v.id => u = v
  BY <1>1, Zenon DEF Among, OwnIds
<1>3. ASSUME NEW y \in old, y.group # 0
      PROVE  \E z \in old : /\ z # y /\ TransferLeg(y) /\ Legs(some, y.group) = {y, z}
                            /\ OneParcel(y, z) /\ OneParcel(z, y)
  <2>1. TransferLeg(y) /\ \E z \in J : z # y /\ z.group = y.group
    <3>1. y \in J \ {op} /\ y \notin K
      BY <1>3
    <3> QED
      BY <3>1, Zenon DEF Restating, MovedLeg
  <2>2. PICK z \in J : z # y /\ z.group = y.group
    BY <2>1, Zenon
  <2>3. y \in J /\ y \in some /\ z \in some
    BY <1>1
  <2>4. Legs(some, y.group) = {y, z} /\ OneParcel(y, z) /\ OneParcel(z, y)
    BY <1>3, <2>2, <2>3, Mates, Zenon DEF Among
  <2>5. z \notin K
    <3> SUFFICES ASSUME z \in K PROVE FALSE
      OBVIOUS
    <3>1. PICK x \in K : x.id = y.id
      BY <2>3, Zenon DEF Restating
    <3>2. x.lots = z.lots /\ x.amount = z.amount
      <4>1. BothSides(J, K)
        BY Zenon DEF Restating
      <4> QED
        BY <1>3, <2>1, <2>2, <2>3, <3>1, <4>1 DEF BothSides
    <3>3. y.lots = z.lots /\ y.amount = z.amount
      BY <2>1, <2>4, Zenon DEF OneParcel
    <3>4. PICK u \in J : Redone(x, u)
      BY <3>1, Zenon DEF Restating
    <3>5. x.id = u.id
      BY <1>1, <3>4, RedoneKeeps, Zenon
    <3>6. u = y
      BY <1>1, <1>2, <2>3, <3>1, <3>5
    <3>7. IsRow(y) /\ Record(y) /\ Redone(x, y) /\ x.lots = y.lots /\ x.amount = y.amount
      BY <1>1, <2>3, <3>2, <3>3, <3>4, <3>6, Zenon
    <3>8. x = y
      BY <3>7, RedoneKeeps, Zenon
    <3> QED
      BY <1>3, <3>8
  <2> QED
    BY <2>1, <2>2, <2>4, <2>5
<1> DEFINE V(y) == WithBreakdown(y, K)
<1>4. \A y \in old : V(y) \in K /\ V(y).id = y.id /\ V(y).stamp = y.stamp /\ Alike(V(y), y)
  <2> TAKE y \in old
  <2>1. y \in J
    OBVIOUS
  <2>2. HeldAs(WithBreakdown(y, K), y, K)
    BY <2>1, SettledRow, Zenon
  <2> QED
    BY <2>2, Zenon DEF HeldAs
<1>5. \A r : r \in new <=> \E y \in old : r = V(y)
  BY Zenon DEF WithBreakdowns
<1> HIDE DEF V
<1>6. OwnIds(new)
  <2>1. \A r \in new : r \in K
    <3> TAKE r \in new
    <3>1. PICK y \in old : r = V(y)
      BY <1>5, Zenon
    <3> QED
      BY <1>4, <3>1, Zenon
  <2> QED
    BY <2>1, Zenon DEF Restating, OwnIds
<1>7. \A r \in new : \E y \in old : r.id = y.id /\ r.stamp = y.stamp /\ Alike(r, y)
  <2> TAKE r \in new
  <2>1. PICK y \in old : r = V(y)
    BY <1>5, Zenon
  <2> QED
    BY <1>4, <2>1, Zenon
<1>8. Whole(some, old)
  <2> SUFFICES ASSUME NEW y \in old PROVE Legs(some, y.group) \subseteq old
    BY Zenon DEF Whole
  <2>1. CASE y.group = 0
    BY <2>1 DEF Legs
  <2>2. CASE y.group # 0
    <3>1. PICK z \in old : Legs(some, y.group) = {y, z}
      BY <1>3, <2>2, Zenon
    <3> QED
      BY <3>1
  <2> QED
    BY <2>1, <2>2
<1>9. AllPaired(new)
  <2> SUFFICES ASSUME NEW r \in new, r.group # 0 PROVE Paired(new, r)
    BY Zenon DEF AllPaired
  <2>1. PICK y \in old : r = V(y)
    BY <1>5, Zenon
  <2>2. y.group # 0 /\ y.group = r.group
    BY <1>4, <2>1, Zenon DEF Alike
  <2>3. PICK z \in old : /\ z # y /\ TransferLeg(y) /\ Legs(some, y.group) = {y, z}
                         /\ OneParcel(y, z) /\ OneParcel(z, y)
    BY <1>3, <2>2, Zenon
  <2> DEFINE s == V(z)
  <2>4. /\ s \in new /\ s.id = z.id /\ r.id = y.id /\ Alike(s, z) /\ Alike(r, y)
        /\ s \in K /\ r \in K
    BY <1>4, <1>5, <2>1, Zenon
  <2> HIDE DEF s
  <2>5. y \in some /\ z \in some /\ y \in J /\ z \in J /\ z.group = y.group
    <3>1. z \in Legs(some, y.group)
      BY <2>3
    <3> QED
      BY <1>1, <3>1 DEF Legs
  <2>6. s # r
    BY <1>2, <2>3, <2>4, <2>5
  <2>7. s.group = r.group
    BY <2>2, <2>4, <2>5, Zenon DEF Alike
  <2>8. \A t \in new : t.group = r.group => t = r \/ t = s
    <3> SUFFICES ASSUME NEW t \in new, t.group = r.group PROVE t = r \/ t = s
      OBVIOUS
    <3>1. PICK u \in old : t = V(u)
      BY <1>5, Zenon
    <3>2. u.group = y.group
      BY <1>4, <2>2, <3>1, Zenon DEF Alike
    <3>3. u \in Legs(some, y.group)
      BY <1>1, <2>2, <3>2 DEF Legs
    <3>4. u = y \/ u = z
      BY <2>3, <3>3
    <3> QED
      BY <2>1, <3>1, <3>4, Zenon DEF s
  <2>9. Legs(new, r.group) = {r, s}
    BY <2>4, <2>7, <2>8 DEF Legs
  <2>10. r.lots = s.lots /\ r.amount = s.amount
    <3>1. BothSides(J, K)
      BY Zenon DEF Restating
    <3> QED
      BY <2>2, <2>3, <2>4, <2>5, <3>1 DEF BothSides
  <2>11. OneParcel(r, s) /\ OneParcel(s, r)
    BY <2>3, <2>4, <2>10, ZenonT(60) DEF OneParcel, Alike, TransferLeg, CorporateLeg
  <2> QED
    BY <2>4, <2>6, <2>9, <2>11, Zenon DEF Paired
<1>10. \A r \in new : r.group # 0 => Legs(some \ old, r.group) = {}
  <2> SUFFICES ASSUME NEW r \in new, r.group # 0, NEW u \in some \ old, u.group = r.group
               PROVE  FALSE
    BY DEF Legs
  <2>1. PICK y \in old : Alike(r, y)
    BY <1>7, Zenon
  <2>2. u \in Legs(some, y.group)
    BY <2>1 DEF Legs, Alike
  <2> QED
    BY <1>8, <2>2 DEF Whole
<1>11. old \subseteq some
  BY <1>1
<1> QED
  BY <1>6, <1>7, <1>8, <1>9, <1>10, <1>11, Zenon DEF Fitting

\* What the invariants say of the table, in the form the lemmas ask for.
LEMMA TableIs ==
  ASSUME TypeOK, PairedTable
  PROVE  /\ OwnIds(rows) /\ AllPaired(rows) /\ IsFiniteSet(rows) /\ clock \in Nat
         /\ \A r \in rows : /\ IsRow(r) /\ Record(r) /\ Placed(r) /\ r.id \in 1..clock
                            /\ Dated(r) /\ Named(r, clock)
<1>1. OwnIds(rows) /\ AllPaired(rows) /\ \A r \in rows : Record(r) /\ Dated(r) /\ Named(r, clock)
  BY Zenon DEF PairedTable, Regular
<1>2. /\ clock \in Nat /\ \A r \in rows : /\ IsRow(r) /\ r.id \in 1..clock
                                          /\ r.stamp \in 1..(clock + AppAhead)
  BY RowsRecorded, Zenon DEF Recorded
<1>3. \A r \in rows : r.stamp \in Int /\ r.id \in Int
  BY <1>2
<1>4. IsFiniteSet(rows)
  BY <1>1, <1>2, RowsAreFinite, Zenon
<1> QED
  BY <1>1, <1>2, <1>3, <1>4, Zenon DEF Placed, Dated

\* The journals read of an arrival include its own.
LEMMA OwnAccountIsRead ==
  ASSUME NEW op \in rows
  PROVE  op \in {r \in rows : r.acct \in OnwardAccounts(rows, op)}
<1>1. op.acct \in AcctsOf(rows)
  BY DEF AcctsOf
<1>2. op.acct \in OnwardAccounts(rows, op)
  BY <1>1, Zenon DEF OnwardAccounts
<1> QED
  BY <1>2

\* The journals with the arrival restated, as releasing its shares again
\* settles them.
SettledBy(J, op, pieces) ==
  ReleaseOnward((J \ {op}) \cup {[op EXCEPT !.lots = pieces, !.amount = LotsCost(pieces)]}, op).pos

\* What stating purchases takes out and puts in.
LEMMA StatingIs ==
  ASSUME NEW op, NEW pieces
  PROVE  LET J   == {r \in rows : r.acct \in OnwardAccounts(rows, op)}
             K   == SettledBy(J, op, pieces)
             old == J \ K
             d   == StatePurchases(rows, op, pieces)
         IN d.remove = old /\ d.add = WithBreakdowns(old, K) /\ (d.ok => op.group = 0)
BY Zenon DEF StatePurchases, SettledBy, RestateDelta

\* The journals it settles are the table restated.
LEMMA SettledRestates ==
  ASSUME TypeOK, PairedTable, NEW op \in rows, op.group = 0, NEW pieces,
         NEW J, J \subseteq rows, op \in J
  PROVE  Among(rows, J) /\ Restating(J, op, SettledBy(J, op, pieces))
<1>1. /\ OwnIds(rows) /\ AllPaired(rows) /\ IsFiniteSet(rows)
      /\ \A r \in rows : IsRow(r) /\ Record(r) /\ Placed(r)
  BY TableIs, Zenon
<1>2. Among(rows, J)
  BY <1>1, Zenon DEF Among
<1> DEFINE cost == LotsCost(pieces)
           stated == [op EXCEPT !.lots = pieces, !.amount = cost]
           K0 == (J \ {op}) \cup {stated}
           S == {r \in K0 : MovesOnward(r, op)}
           O == Sorted(S)
           n == Cardinality(S)
<1>3. stated.lots = pieces /\ stated.amount = cost /\ stated.group = 0
  <2>1. {"lots", "amount", "group"} \subseteq DOMAIN op
    BY <1>1, RowFields
  <2> HIDE DEF cost
  <2> QED
    BY <2>1, Zenon
<1>4. Restating(J, op, K0)
  <2>1. stated = [op EXCEPT !.lots = stated.lots, !.amount = stated.amount]
    <3> HIDE DEF stated
    <3> QED
      BY <1>3, Zenon DEF stated
  <2> HIDE DEF stated
  <2> QED
    BY <1>2, <2>1, RestatingStarts, Zenon
<1>5. SettledBy(J, op, pieces) = Run(ReleaseAgain, K0, O).pos
  BY Zenon DEF SettledBy, ReleaseOnward
<1> HIDE DEF stated, O, cost
<1>6. \A r \in S : r \in J /\ r.typ = "transfer_out" /\ r.group # 0
  <2> TAKE r \in S
  <2>1. r.typ = "transfer_out" /\ r.group # 0
    BY Zenon DEF MovesOnward
  <2>2. r \in J \/ r = stated
    OBVIOUS
  <2> QED
    BY <1>3, <2>1, <2>2
<1> HIDE DEF S, n
<1>7. IsFiniteSet(S) /\ OwnIds(S) /\ \A r \in S : Placed(r)
  <2>1. S \subseteq rows
    BY <1>6
  <2>2. IsFiniteSet(S)
    BY <1>1, <2>1, FS_Subset
  <2> QED
    BY <1>1, <2>1, <2>2, Zenon DEF OwnIds
<1>8. n \in Nat /\ Len(O) = n /\ \A i \in 1..n : O[i] \in S
  BY <1>7, SortedHolds, Zenon DEF O, n
<1>9. \A i \in 1..n : O[i] \in J /\ O[i].typ = "transfer_out" /\ O[i].group # 0
  BY <1>6, <1>8, Zenon
<1> HIDE DEF K0
<1>10. Restating(J, op, Run(ReleaseAgain, K0, O).pos)
  BY <1>2, <1>4, <1>8, <1>9, RestatingRun, Zenon
<1> QED
  BY <1>2, <1>5, <1>10, Zenon

\* A row restated is as regular as it was.
LEMMA LikeRowsAreRegular ==
  ASSUME NEW y, NEW c, Regular(y, c), NEW r, Alike(r, y), Record(r)
  PROVE  Regular(r, c)
<1>1. Dated(r)
  BY Zenon DEF Regular, Alike, Dated
<1>2. Named(r, c)
  <2>1. r.group = y.group /\ \A x : SameRecord(x, y) => SameRecord(x, r)
    BY Zenon DEF Alike, SameRecord
  <2> QED
    BY <2>1, Zenon DEF Regular, Named
<1>3. Sourced(r)
  <2>1. r.ext = y.ext /\ \A x : SameRecord(x, y) => SameRecord(x, r)
    BY Zenon DEF Alike, SameRecord
  <2> QED
    BY <2>1, Zenon DEF Regular, Sourced
<1> QED
  BY <1>1, <1>2, <1>3, Zenon DEF Regular

\* Accepted purchases keep the pairs.
LEMMA StatingFits ==
  ASSUME TypeOK, PairedTable, NEW op \in rows, NEW pieces,
         StatePurchases(rows, op, pieces).ok
  PROVE  KeepsTable(StatePurchases(rows, op, pieces), 0)
<1> DEFINE J   == {r \in rows : r.acct \in OnwardAccounts(rows, op)}
           K   == SettledBy(J, op, pieces)
           old == J \ K
           new == WithBreakdowns(old, K)
           d   == StatePurchases(rows, op, pieces)
<1>1. d.remove = old /\ d.add = new /\ op.group = 0
  BY StatingIs
<1>2. op \in J /\ J \subseteq rows
  BY OwnAccountIsRead
<1> HIDE DEF J
<1>3. Among(rows, J) /\ Restating(J, op, K)
  BY <1>1, <1>2, SettledRestates, Zenon
<1> HIDE DEF K
<1>4. /\ Fitting(rows, old, new) /\ OwnIds(new)
      /\ \A r \in new : \E y \in old : r.id = y.id /\ r.stamp = y.stamp /\ Alike(r, y)
  <2>1. op \in J /\ op.group = 0 /\ old = J \ K /\ new = WithBreakdowns(old, K)
    BY <1>1, <1>2, Zenon
  <2> HIDE DEF old, new
  <2> QED
    BY <1>3, <2>1, RestatedPairs, Zenon
<1>5. \A r \in new : Record(r)
  BY BrokenAreRecords, Zenon
<1>6. old \subseteq rows /\ clock \in Nat
  BY <1>2, TableIs
<1> HIDE DEF old, new
<1>7. \A x \in new, y \in rows \ old : x.id # y.id
  <2> SUFFICES ASSUME NEW x \in new, NEW y \in rows \ old, x.id = y.id PROVE FALSE
    OBVIOUS
  <2>1. PICK z \in old : x.id = z.id
    BY <1>4, Zenon
  <2>2. z = y
    BY <1>6, <2>1, TableIs DEF OwnIds
  <2> QED
    BY <2>2
<1>8. \A r \in new : Regular(r, clock)
  <2> TAKE r \in new
  <2>1. PICK y \in old : Alike(r, y)
    BY <1>4, Zenon
  <2>2. Regular(y, clock)
    BY <1>6, <2>1, Zenon DEF PairedTable
  <2> QED
    BY <1>5, <2>1, <2>2, LikeRowsAreRegular, Zenon
<1>9. clock + 0 = clock
  BY <1>6
<1> HIDE DEF d
<1>10. KeepsPlaces(d)
  <2>1. \A x \in new : \E y \in old : InPlaceOf(x, y)
    BY <1>4, Zenon DEF InPlaceOf, Alike
  <2> QED
    BY <1>1, <1>4, <1>6, <2>1, RestatedKeepPlaces, Zenon
<1>11. KeepsTable(d, 0)
  BY <1>1, <1>4, <1>7, <1>8, <1>9, <1>10, Zenon DEF KeepsTable
<1> QED
  BY <1>11, Zenon DEF d

-----------------------------------------------------------------------------
(* Entries by hand. *)

\* The legs of a hand entry as they are stored, n of them.
StoredAs(c, legs, n, new) ==
  /\ OwnIds(new) /\ \A r \in new : r.id \in Int /\ r.id > c
  /\ \A i \in 1..n : \E r \in new : r.id = c + i
  /\ \A r \in new : \E i \in 1..n :
       /\ r.id = c + i /\ Alike(r, legs[i]) /\ Record(r)
       /\ r.lots = legs[i].lots /\ r.amount = legs[i].amount

\* A hand entry stores its legs as they are, numbered after the clock.
LEMMA StoredIs ==
  ASSUME NEW c \in Nat, NEW legs, NEW n, Legible(legs, n)
  PROVE  StoredAs(c, legs, n, Stored(c, legs))
<1> DEFINE At(i) == [legs[i] EXCEPT !.id = c + i, !.stamp = c + i]
<1>1. n \in Nat /\ DOMAIN legs = 1..n /\ \A i \in 1..n : IsRow(legs[i])
  BY Zenon DEF Legible
<1>2. \A r : r \in Stored(c, legs) <=> \E i \in 1..n : r = At(i)
  BY <1>1, Zenon DEF Stored
<1>3. ASSUME NEW i \in 1..n
      PROVE  /\ At(i).id = c + i /\ Alike(At(i), legs[i]) /\ Record(At(i))
             /\ At(i).lots = legs[i].lots /\ At(i).amount = legs[i].amount
  <2> DEFINE leg == legs[i]
             s == c + i
             z == [leg EXCEPT !.id = s, !.stamp = s]
  <2>1. RowColumns \subseteq DOMAIN leg
    BY <1>1, RowHasColumns
  <2> HIDE DEF leg, s
  <2>2. z.id = s /\ Alike(z, leg) /\ z.lots = leg.lots /\ z.amount = leg.amount
    BY <2>1, ZenonT(30) DEF Alike, RowColumns
  <2>3. Record(z)
    BY DEF Record
  <2> QED
    BY <2>2, <2>3, Zenon DEF leg, s
<1> HIDE DEF At
<1>4. \A i, j \in 1..n : c + i = c + j => i = j
  BY <1>1
<1>5. \A i \in 1..n : c + i \in Int /\ c + i > c
  BY <1>1
<1>6. OwnIds(Stored(c, legs))
  <2> SUFFICES ASSUME NEW x \in Stored(c, legs), NEW y \in Stored(c, legs), x.id = y.id
               PROVE  x = y
    BY Zenon DEF OwnIds
  <2>1. PICK i \in 1..n : x = At(i)
    BY <1>2, Zenon
  <2>2. PICK j \in 1..n : y = At(j)
    BY <1>2, Zenon
  <2>3. c + i = c + j
    BY <1>3, <2>1, <2>2
  <2>4. i = j
    BY <1>4, <2>3
  <2> QED
    BY <2>1, <2>2, <2>4
<1>7. ASSUME NEW r \in Stored(c, legs)
      PROVE  /\ \E i \in 1..n : /\ r.id = c + i /\ Alike(r, legs[i]) /\ Record(r)
                                /\ r.lots = legs[i].lots /\ r.amount = legs[i].amount
             /\ r.id \in Int /\ r.id > c
  <2>1. PICK i \in 1..n : r = At(i)
    BY <1>2, Zenon
  <2>2. r.id \in Int /\ r.id > c
    BY <1>3, <1>5, <2>1
  <2> QED
    BY <1>3, <2>1, <2>2, Zenon
<1>8. \A i \in 1..n : \E r \in Stored(c, legs) : r.id = c + i
  <2> TAKE i \in 1..n
  <2>1. At(i) \in Stored(c, legs) /\ At(i).id = c + i
    BY <1>2, <1>3, Zenon
  <2> QED
    BY <2>1, Zenon
<1> QED
  BY <1>6, <1>7, <1>8, Zenon DEF StoredAs

\* Rows of no group, in place of whole groups or of nothing.
LEMMA SinglesFit ==
  ASSUME TypeOK, PairedTable, NEW legs, NEW n, Legible(legs, n),
         \A i \in 1..n : legs[i].group = 0 /\ legs[i].ext = 0 /\ Dated(legs[i]),
         NEW remove, remove \subseteq rows, Whole(rows, remove), NEW cond
  PROVE  KeepsTable(HandDelta(rows, clock, legs, remove, cond), n)
<1> DEFINE d == HandDelta(rows, clock, legs, remove, cond)
           new == Stored(clock, legs)
<1>1. d.remove = remove /\ d.add = new
  BY DEF HandDelta
<1>2. clock \in Nat /\ n \in Nat /\ \A r \in rows : r.id \in 1..clock
  BY TableIs DEF Legible
<1>3. /\ OwnIds(new) /\ \A r \in new : r.id \in Int /\ r.id > clock
      /\ \A r \in new : \E i \in 1..n : Alike(r, legs[i]) /\ Record(r)
  BY <1>2, StoredIs, Zenon DEF StoredAs
<1>4. \A r \in new : r.group = 0 /\ r.ext = 0 /\ Dated(r) /\ Record(r)
  <2> HIDE DEF new
  <2> TAKE r \in new
  <2>1. PICK i \in 1..n : Alike(r, legs[i]) /\ Record(r)
    BY <1>3, Zenon
  <2>2. legs[i].group = 0 /\ legs[i].ext = 0 /\ Dated(legs[i])
    OBVIOUS
  <2> QED
    BY <2>1, <2>2, Zenon DEF Alike, Dated
<1> HIDE DEF d, new
<1>5. Fitting(rows, remove, new)
  BY <1>4, Zenon DEF Fitting, AllPaired
<1>6. \A x \in new, y \in rows \ remove : x.id # y.id
  BY <1>2, <1>3
<1>7. \A r \in new : Regular(r, clock + n)
  <2>1. 0 \in 0..(clock + n)
    BY <1>2
  <2> QED
    BY <1>4, <2>1, Zenon DEF Regular, Named, Sourced
<1>8. KeepsPlaces(d)
  BY <1>1, <1>3, <1>4, NewKeepPlaces, Zenon
<1>9. KeepsTable(d, n)
  BY <1>1, <1>3, <1>5, <1>6, <1>7, <1>8, Zenon DEF KeepsTable
<1> QED
  BY <1>9, Zenon DEF d

\* A group named after the next tick is nobody's yet.
LEMMA NextGroupIsFree ==
  ASSUME TypeOK, PairedTable, clock + 1 <= MaxClock
  PROVE  \A r \in rows : r.group # clock + 1
<1> SUFFICES ASSUME NEW r \in rows, r.group = clock + 1 PROVE FALSE
  OBVIOUS
<1>1. clock \in Nat /\ MaxClock \in Nat /\ Named(r, clock)
  BY TableIs, RequestsAssumption
<1>2. r.group \notin 0..clock /\ r.group \in 1..MaxClock
  BY <1>1
<1>3. PICK e \in Events : e[1].group = r.group
  BY <1>1, <1>2, Zenon DEF Named
<1>4. 1 \in DOMAIN e
  BY RequestsAssumption
<1>5. e[1].group \notin 1..MaxClock
  BY <1>4, RequestsAssumption, Zenon
<1> QED
  BY <1>2, <1>3, <1>5

\* The two legs of a pair are one parcel, entered by hand.
Parcel(out, in) ==
  /\ IsRow(out) /\ IsRow(in) /\ Dated(out) /\ Dated(in)
  /\ out.ext = 0 /\ in.ext = 0
  /\ OneParcel(out, in) /\ OneParcel(in, out)

\* Two legs numbered c + 1 and c + 2, of the group c + 1.
LEMMA PairWritten ==
  ASSUME NEW c \in Nat, NEW out, NEW in, Parcel(out, in)
  PROVE  \E a, b : /\ Stored(c, Pair(c, out, in)) = {a, b} /\ a # b
                   /\ a.group = c + 1 /\ b.group = c + 1 /\ a.ext = 0 /\ b.ext = 0
                   /\ Dated(a) /\ Dated(b) /\ Record(a) /\ Record(b)
                   /\ OneParcel(a, b) /\ OneParcel(b, a)
<1> DEFINE g == c + 1
           p == [out EXCEPT !.group = g]
           q == [in EXCEPT !.group = g]
           legs == Pair(c, out, in)
           new == Stored(c, legs)
<1>1. Legible(legs, 2)
  BY TwoLegs, Zenon DEF Parcel
<1>2. legs[1] = p /\ legs[2] = q
  <2>1. legs = <<p, q>>
    BY Zenon DEF Pair
  <2> HIDE DEF p, q, legs
  <2> QED
    BY <2>1
<1>3. RowColumns \subseteq DOMAIN out /\ RowColumns \subseteq DOMAIN in
  BY RowHasColumns DEF Parcel
<1>8. /\ OwnIds(new)
      /\ \A i \in 1..2 : \E r \in new : r.id = c + i
      /\ \A r \in new : \E i \in 1..2 : /\ r.id = c + i /\ Alike(r, legs[i]) /\ Record(r)
                                        /\ r.lots = legs[i].lots /\ r.amount = legs[i].amount
  <2>1. StoredAs(c, legs, 2, new)
    BY <1>1, StoredIs, Zenon
  <2> HIDE DEF new, legs
  <2> QED
    BY <2>1 DEF StoredAs
<1> HIDE DEF legs, g
<1>4. /\ p.group = g /\ p.day = out.day /\ p.at = out.at /\ p.typ = out.typ /\ p.acct = out.acct
      /\ p.paper = out.paper /\ p.qty = out.qty /\ p.amount = out.amount /\ p.lots = out.lots
      /\ p.ext = out.ext
  BY <1>3, ZenonT(30) DEF RowColumns
<1>5. /\ q.group = g /\ q.day = in.day /\ q.at = in.at /\ q.typ = in.typ /\ q.acct = in.acct
      /\ q.paper = in.paper /\ q.qty = in.qty /\ q.amount = in.amount /\ q.lots = in.lots
      /\ q.ext = in.ext
  BY <1>3, ZenonT(30) DEF RowColumns
<1> HIDE DEF p, q
<1> HIDE DEF new
<1>6. PICK a \in new : a.id = c + 1
  <2>1. 1 \in 1..2
    OBVIOUS
  <2> QED
    BY <1>8, <2>1, Zenon
<1>7. PICK b \in new : b.id = c + 2
  <2>1. 2 \in 1..2
    OBVIOUS
  <2> QED
    BY <1>8, <2>1, Zenon
<1>9. Alike(a, p) /\ a.lots = p.lots /\ a.amount = p.amount /\ Record(a)
  <2>1. PICK i \in 1..2 : /\ a.id = c + i /\ Alike(a, legs[i]) /\ Record(a)
                          /\ a.lots = legs[i].lots /\ a.amount = legs[i].amount
    BY <1>8, Zenon
  <2>2. i = 1
    BY <1>6, <2>1
  <2> QED
    BY <1>2, <2>1, <2>2
<1>10. Alike(b, q) /\ b.lots = q.lots /\ b.amount = q.amount /\ Record(b)
  <2>1. PICK i \in 1..2 : /\ b.id = c + i /\ Alike(b, legs[i]) /\ Record(b)
                          /\ b.lots = legs[i].lots /\ b.amount = legs[i].amount
    BY <1>8, Zenon
  <2>2. i = 2
    BY <1>7, <2>1
  <2> QED
    BY <1>2, <2>1, <2>2
<1>11. a # b /\ new = {a, b}
  <2>1. \A r \in new : r.id = c + 1 \/ r.id = c + 2
    <3> TAKE r \in new
    <3>1. PICK i \in 1..2 : r.id = c + i
      BY <1>8, Zenon
    <3>2. i = 1 \/ i = 2
      OBVIOUS
    <3> QED
      BY <3>1, <3>2
  <2>2. \A r \in new : r = a \/ r = b
    BY <1>6, <1>7, <1>8, <2>1 DEF OwnIds
  <2>3. c + 1 # c + 2
    OBVIOUS
  <2> QED
    BY <1>6, <1>7, <2>2, <2>3
<1>12. OneParcel(a, b) /\ OneParcel(b, a)
  <2>1. /\ a.day = out.day /\ a.typ = out.typ /\ a.acct = out.acct /\ a.paper = out.paper
        /\ a.qty = out.qty /\ a.amount = out.amount /\ a.lots = out.lots
    BY <1>4, <1>9, Zenon DEF Alike
  <2>2. /\ b.day = in.day /\ b.typ = in.typ /\ b.acct = in.acct /\ b.paper = in.paper
        /\ b.qty = in.qty /\ b.amount = in.amount /\ b.lots = in.lots
    BY <1>5, <1>10, Zenon DEF Alike
  <2> QED
    BY <2>1, <2>2 DEF Parcel, OneParcel, TransferLeg, CorporateLeg
<1>13. a.group = g /\ b.group = g /\ a.ext = 0 /\ b.ext = 0 /\ Dated(a) /\ Dated(b)
  BY <1>4, <1>5, <1>9, <1>10, Zenon DEF Parcel, Dated, Alike
<1> QED
  BY <1>9, <1>10, <1>11, <1>12, <1>13, Zenon DEF g, new, legs

\* A pair entered by hand keeps the pairs.
LEMMA PairFits ==
  ASSUME TypeOK, PairedTable, NEW out, NEW in, Parcel(out, in), NEW cond, Taking(2)
  PROVE  KeepsTable(HandDelta(rows, clock, Pair(clock, out, in), {}, cond), 2)
<1> DEFINE legs == Pair(clock, out, in)
           d == HandDelta(rows, clock, legs, {}, cond)
           new == Stored(clock, legs)
<1>1. d.remove = {} /\ d.add = new
  BY DEF HandDelta
<1>2. clock \in Nat /\ \A r \in rows : r.id \in 1..clock
  BY TableIs
<1>3. Legible(legs, 2)
  BY TwoLegs, Zenon DEF Parcel
<1>4. OwnIds(new) /\ \A r \in new : r.id \in Int /\ r.id > clock
  BY <1>2, <1>3, StoredIs, Zenon DEF StoredAs
<1>5. PICK a, b : /\ new = {a, b} /\ a # b
                  /\ a.group = clock + 1 /\ b.group = clock + 1 /\ a.ext = 0 /\ b.ext = 0
                  /\ Dated(a) /\ Dated(b) /\ Record(a) /\ Record(b)
                  /\ OneParcel(a, b) /\ OneParcel(b, a)
  BY <1>2, PairWritten, ZenonT(60)
<1> HIDE DEF d, new
<1>6. \A r \in rows : r.group # clock + 1
  <2>1. clock + 1 <= MaxClock
    BY <1>2, RequestsAssumption DEF Taking
  <2> QED
    BY <2>1, NextGroupIsFree
<1>7. clock + 1 # 0 /\ clock + 1 \in 0..(clock + 2)
  BY <1>2
<1>8. Legs(new, clock + 1) = {a, b}
  BY <1>5, <1>7 DEF Legs
<1>9. AllPaired(new)
  <2>1. Paired(new, a)
    BY <1>5, <1>8, Zenon DEF Paired
  <2>2. Paired(new, b)
    <3>1. Legs(new, b.group) = {b, a}
      BY <1>5, <1>8
    <3> QED
      BY <1>5, <3>1, Zenon DEF Paired
  <2> QED
    BY <1>5, <2>1, <2>2 DEF AllPaired
<1>10. Fitting(rows, {}, new)
  <2>1. \A r \in new : Legs(rows \ {}, r.group) = {}
    BY <1>5, <1>6 DEF Legs
  <2>2. Whole(rows, {})
    BY DEF Whole
  <2> QED
    BY <1>9, <2>1, <2>2 DEF Fitting
<1>11. \A x \in new, y \in rows \ {} : x.id # y.id
  BY <1>2, <1>4
<1>12. \A r \in new : Regular(r, clock + 2)
  BY <1>5, <1>7 DEF Regular, Named, Sourced
<1>13. KeepsPlaces(d)
  <2>1. \A r \in new : r.ext = 0
    BY <1>5
  <2> QED
    BY <1>1, <1>4, <2>1, NewKeepPlaces, Zenon
<1>14. KeepsTable(d, 2)
  BY <1>1, <1>4, <1>10, <1>11, <1>12, <1>13, Zenon DEF KeepsTable
<1> QED
  BY <1>14, Zenon DEF d

-----------------------------------------------------------------------------
(* Every action. *)

\* Every action writes a delta that fits, or archives an account.
FitsIn == \E d, t : t \in Nat /\ KeepsTable(d, t) /\ Accepted(d) /\ Taking(t)

\* What an entry builds is what it writes.
LEMMA ByHandFits ==
  ASSUME NEW STATE d, NEW t \in Nat, ByHand(d, t) \/ Applied(d, t),
         d.ok /\ Taking(t) => KeepsTable(d, t)
  PROVE  FitsIn
<1>1. Accepted(d) /\ Taking(t)
  BY Zenon DEF ByHand, Applied
<1>2. d.ok
  BY <1>1, Zenon DEF Accepted
<1> QED
  BY <1>1, <1>2, Zenon DEF FitsIn

\* The row an entry starts from.
LEMMA BlankIs ==
  /\ IsRow(Blank) /\ RowColumns \subseteq DOMAIN Blank
  /\ Blank.at = 0 /\ Blank.group = 0 /\ Blank.ext = 0
<1>1. IsRow(Blank)
  BY DEF IsRow
<1>2. Blank.at = 0 /\ Blank.group = 0 /\ Blank.ext = 0
  BY DEF Blank
<1> QED
  BY <1>1, <1>2, RowHasColumns, Zenon

\* Create, CreateReplacing.
LEMMA CreatesFit ==
  ASSUME TypeOK, PairedTable, DoCreate(HandRows) \/ DoReplace(HandRows)
  PROVE  FitsIn
<1>1. PICK op \in HandRows, replace \in SUBSET rows :
         ByHand(CreateReplacing(rows, clock, op, replace), 1)
  <2>1. CASE DoCreate(HandRows)
    BY <2>1, Zenon DEF DoCreate, Create
  <2>2. CASE DoReplace(HandRows)
    BY <2>2, Zenon DEF DoReplace
  <2> QED
    BY <2>1, <2>2, Zenon
<1> DEFINE legs == <<op>>
           d == CreateReplacing(rows, clock, op, replace)
<1>2. IsRow(op) /\ Dated(op) /\ op.group = 0 /\ op.ext = 0
  BY RequestsAssumption, Zenon
<1>3. Legible(legs, 1) /\ \A i \in 1..1 : legs[i].group = 0 /\ legs[i].ext = 0 /\ Dated(legs[i])
  <2>1. \A i \in 1..1 : legs[i] = op
    OBVIOUS
  <2> QED
    BY <1>2, <2>1, OneLeg, Zenon
<1>4. ASSUME d.ok PROVE KeepsTable(d, 1)
  <2>1. Replaceable(rows, replace)
    BY <1>4 DEF CreateReplacing, HandDelta
  <2>2. replace \subseteq rows /\ Whole(rows, replace)
    BY <2>1, Zenon DEF Replaceable
  <2> HIDE DEF legs
  <2> QED
    BY <1>3, <2>2, SinglesFit, Zenon DEF CreateReplacing, legs
<1>5. 1 \in Nat
  OBVIOUS
<1> QED
  BY <1>1, <1>4, <1>5, ByHandFits, Zenon

\* CreateArrival.
LEMMA ArrivalFits ==
  ASSUME TypeOK, PairedTable, DoArrival(ArrivalsAsked)
  PROVE  FitsIn
<1>1. PICK p \in ArrivalsAsked : ByHand(CreateArrival(rows, clock, p), 1)
  BY Zenon DEF DoArrival
<1> DEFINE d == CreateArrival(rows, clock, p)
<1>2. \E op, cond : /\ IsRow(op) /\ op.group = 0 /\ op.ext = 0 /\ op.day = p.day /\ op.at = 0
                    /\ d = HandDelta(rows, clock, <<op>>, {}, cond)
  <2> DEFINE op == [Blank EXCEPT !.acct = p.acct, !.typ = "transfer_in", !.paper = p.paper,
                      !.day = p.day, !.qty = p.qty, !.cur = p.cur, !.lots = p.pieces,
                      !.amount = LotsCost(p.pieces)]
  <2>1. IsRow(op) /\ op.group = 0 /\ op.ext = 0 /\ op.day = p.day /\ op.at = 0
    BY BlankIs, ZenonT(30) DEF IsRow, RowColumns
  <2>2. \E cond : d = HandDelta(rows, clock, <<op>>, {}, cond)
    BY Zenon DEF CreateArrival
  <2> HIDE DEF op, d
  <2> QED
    BY <2>1, <2>2, Zenon
<1>3. PICK op, cond : /\ IsRow(op) /\ op.group = 0 /\ op.ext = 0 /\ op.day = p.day /\ op.at = 0
                      /\ d = HandDelta(rows, clock, <<op>>, {}, cond)
  BY <1>2, Zenon
<1> DEFINE legs == <<op>>
<1>4. Dated(op)
  <2>1. p.day \in Int
    BY RequestsAssumption
  <2> QED
    BY <1>3, <2>1 DEF Dated
<1>5. Legible(legs, 1) /\ \A i \in 1..1 : legs[i].group = 0 /\ legs[i].ext = 0 /\ Dated(legs[i])
  <2>1. \A i \in 1..1 : legs[i] = op
    OBVIOUS
  <2> QED
    BY <1>3, <1>4, <2>1, OneLeg, Zenon
<1>6. {} \subseteq rows /\ Whole(rows, {})
  BY DEF Whole
<1>7. KeepsTable(d, 1)
  <2> HIDE DEF d
  <2>1. d = HandDelta(rows, clock, legs, {}, cond)
    BY <1>3, Zenon
  <2> HIDE DEF legs
  <2> QED
    BY <1>5, <1>6, <2>1, SinglesFit, Zenon
<1>8. 1 \in Nat
  OBVIOUS
<1> QED
  BY <1>1, <1>7, <1>8, ByHandFits, Zenon

\* Update: a row of a group is not edited.
LEMMA UpdateFits ==
  ASSUME TypeOK, PairedTable, DoUpdate(HandRows)
  PROVE  FitsIn
<1>1. PICK old \in rows, op \in HandRows : ByHand(Update(rows, old, op), 0)
  BY Zenon DEF DoUpdate, InPlace
<1> DEFINE d == Update(rows, old, op)
           at == IF op.day = old.day THEN old.at ELSE 0
           x  == AsEdited(old, op)
           s  == [x EXCEPT !.ext = old.ext]
<1>2. d.remove = {old} /\ d.add = {s} /\ (d.ok => old.group = 0 /\ op.acct = old.acct)
  BY Zenon DEF Update, RestateDelta, Editable
<1>3. /\ IsRow(op) /\ Dated(op) /\ Dated(old) /\ clock \in Nat /\ OwnIds(rows)
  BY RequestsAssumption, TableIs, Zenon
<1>4. /\ s.id = old.id /\ s.group = 0 /\ s.day = op.day /\ s.at \in {old.at, 0} /\ Record(s)
      /\ s.acct = op.acct /\ s.src = old.src /\ s.stamp = old.stamp /\ s.ext = old.ext
  <2>1. RowColumns \subseteq DOMAIN op
    BY <1>3, RowHasColumns, Zenon
  <2>2. DOMAIN x = DOMAIN op
    BY Zenon DEF AsEdited
  <2>3. /\ x.id = old.id /\ x.group = 0 /\ x.day = op.day /\ x.at = at
        /\ x.acct = op.acct /\ x.src = old.src /\ x.stamp = old.stamp
    BY <2>1, ZenonT(30) DEF AsEdited, RowColumns
  <2>4. at \in {old.at, 0}
    BY Zenon
  <2> HIDE DEF x, at
  <2>5. Record(s)
    BY DEF Record
  <2> QED
    BY <2>1, <2>2, <2>3, <2>4, <2>5, ZenonT(30) DEF RowColumns
<1> HIDE DEF s, d
<1>5. Dated(s)
  BY <1>3, <1>4 DEF Dated
<1>6. ASSUME d.ok PROVE KeepsTable(d, 0)
  <2>1. old.group = 0 /\ op.acct = old.acct
    BY <1>2, <1>6
  <2>2. Fitting(rows, {old}, {s})
    BY <1>4, <2>1 DEF Fitting, Whole, AllPaired, Legs
  <2>3. OwnIds({s}) /\ \A x2 \in {s}, y \in rows \ {old} : x2.id # y.id
    BY <1>3, <1>4 DEF OwnIds
  <2>4. 0 \in 0..(clock + 0)
    BY <1>3
  <2>5. InPlaceOf(s, old)
    BY <1>4, <2>1 DEF InPlaceOf
  <2>6. Sourced(s)
    <3>1. Sourced(old) /\ \A y : SameRecord(y, old) => SameRecord(y, s)
      BY <2>5, Zenon DEF PairedTable, Regular, InPlaceOf, SameRecord
    <3> QED
      BY <1>4, <3>1, Zenon DEF Sourced
  <2>7. Regular(s, clock + 0)
    BY <1>4, <1>5, <2>4, <2>6, Zenon DEF Regular, Named
  <2>8. KeepsPlaces(d)
    BY <1>2, <2>3, <2>5, RestatedKeepPlaces
  <2> QED
    BY <1>2, <2>2, <2>3, <2>7, <2>8 DEF KeepsTable
<1>7. 0 \in Nat
  OBVIOUS
<1> QED
  BY <1>1, <1>6, <1>7, ByHandFits, Zenon DEF d

\* Delete: a row goes with its group.
LEMMA DeleteFits ==
  ASSUME TypeOK, PairedTable, DoDelete
  PROVE  FitsIn
<1>1. PICK op \in rows : ByHand(Delete(rows, op), 0)
  BY Zenon DEF DoDelete, InPlace
<1> DEFINE d == Delete(rows, op)
           gone == {op} \cup Legs(rows, op.group)
<1>2. d.remove = gone /\ d.add = {}
  BY Zenon DEF Delete, RestateDelta
<1>3. gone \subseteq rows /\ Whole(rows, gone)
  BY DEF Legs, Whole
<1> HIDE DEF d, gone
<1>4. KeepsTable(d, 0)
  BY <1>2, <1>3 DEF KeepsTable, KeepsPlaces, Unique, Fitting, AllPaired, OwnIds
<1>5. 0 \in Nat
  OBVIOUS
<1> QED
  BY <1>1, <1>4, <1>5, ByHandFits, Zenon DEF d

\* CreateTransfer.
LEMMA TransferFits ==
  ASSUME TypeOK, PairedTable, DoTransfer(Transfers)
  PROVE  FitsIn
<1>1. PICK p \in Transfers : ByHand(CreateTransfer(rows, clock, p), 2)
  BY Zenon DEF DoTransfer
<1> DEFINE d == CreateTransfer(rows, clock, p)
<1>2. \E cur, lots, amount, cond :
         LET legs == TransferLegs(p, cur, lots, amount)
         IN /\ d = HandDelta(rows, clock, Pair(clock, legs.out, legs.in), {}, cond)
            /\ cond => p.from # p.to
  BY Zenon DEF CreateTransfer
<1>3. PICK cur, lots, amount, cond :
         LET legs == TransferLegs(p, cur, lots, amount)
         IN /\ d = HandDelta(rows, clock, Pair(clock, legs.out, legs.in), {}, cond)
            /\ cond => p.from # p.to
  BY <1>2, Zenon
<1> DEFINE legs == TransferLegs(p, cur, lots, amount)
<1>4. p.day \in Int
  BY RequestsAssumption
<1>5. p.from # p.to => Parcel(legs.out, legs.in)
  <2> DEFINE o == legs.out
             i == legs.in
  <2>1. /\ IsRow(o) /\ o.at = 0 /\ o.ext = 0 /\ o.day = p.day /\ o.acct = p.from /\ o.typ = "transfer_out"
    BY BlankIs, ZenonT(30) DEF TransferLegs, IsRow, RowColumns
  <2>2. i = [o EXCEPT !.acct = p.to, !.typ = "transfer_in"]
    BY Zenon DEF TransferLegs
  <2> HIDE DEF o, i
  <2>3. RowColumns \subseteq DOMAIN o
    BY <2>1, RowHasColumns, Zenon
  <2>4. /\ IsRow(i) /\ i.at = o.at /\ i.ext = 0 /\ i.day = o.day /\ i.acct = p.to /\ i.typ = "transfer_in"
        /\ i.paper = o.paper /\ i.qty = o.qty /\ i.amount = o.amount /\ i.lots = o.lots
    BY <2>1, <2>2, <2>3, ZenonT(30) DEF IsRow, RowColumns
  <2>5. p.from # p.to => Parcel(o, i)
    BY <1>4, <2>1, <2>4 DEF Parcel, Dated, OneParcel, TransferLeg, CorporateLeg
  <2> QED
    BY <2>5, Zenon DEF o, i
<1> HIDE DEF d
<1>6. ASSUME d.ok, Taking(2) PROVE KeepsTable(d, 2)
  <2>1. p.from # p.to
    <3>1. cond
      <4> HIDE DEF legs
      <4> QED
        BY <1>3, <1>6 DEF HandDelta
    <3> QED
      BY <1>3, <3>1, Zenon
  <2> HIDE DEF legs
  <2>2. d = HandDelta(rows, clock, Pair(clock, legs.out, legs.in), {}, cond)
    BY <1>3, Zenon DEF legs
  <2> QED
    BY <1>5, <1>6, <2>1, <2>2, PairFits, Zenon
<1>7. 2 \in Nat
  OBVIOUS
<1> QED
  BY <1>1, <1>6, <1>7, ByHandFits, Zenon DEF d

\* CreateMoneyTransfer.
LEMMA MoneyTransferFits ==
  ASSUME TypeOK, PairedTable, DoMoneyTransfer(MoneyTransfers)
  PROVE  FitsIn
<1>1. PICK p \in MoneyTransfers : ByHand(CreateMoneyTransfer(rows, clock, p), 2)
  BY Zenon DEF DoMoneyTransfer
<1> DEFINE d == CreateMoneyTransfer(rows, clock, p)
<1>2. p.day \in Int
  BY RequestsAssumption
<1>3. \E out, in, cond : /\ Parcel(out, in)
                         /\ d = HandDelta(rows, clock, Pair(clock, out, in), {}, cond)
  <2> DEFINE out == [Blank EXCEPT !.acct = p.from, !.typ = "withdrawal", !.day = p.day,
                                  !.amount = -p.amount, !.cur = p.cur]
             in  == [Blank EXCEPT !.acct = p.to, !.typ = "deposit", !.day = p.day,
                                  !.amount = p.received, !.cur = p.receivedCur]
  <2>1. Parcel(out, in)
    BY <1>2 DEF Blank, Parcel, IsRow, Dated, OneParcel, TransferLeg, CorporateLeg
  <2>2. \E cond : d = HandDelta(rows, clock, Pair(clock, out, in), {}, cond)
    BY Zenon DEF CreateMoneyTransfer
  <2> QED
    BY <2>1, <2>2, Zenon
<1> HIDE DEF d
<1>4. Taking(2) => KeepsTable(d, 2)
  BY <1>3, PairFits, Zenon
<1>5. 2 \in Nat
  OBVIOUS
<1> QED
  BY <1>1, <1>4, <1>5, ByHandFits, Zenon DEF d

\* The two legs of a conversion or of a spin-off built.
LEMMA BuiltFits ==
  ASSUME TypeOK, PairedTable, NEW b, b.ok => Parcel(b.out, b.in),
         Applied(CreatePair(rows, clock, b), 2)
  PROVE  FitsIn
<1> DEFINE d == CreatePair(rows, clock, b)
<1>1. d = HandDelta(rows, clock, Pair(clock, b.out, b.in), {}, b.ok)
  BY Zenon DEF CreatePair
<1> HIDE DEF d
<1>2. ASSUME d.ok, Taking(2) PROVE KeepsTable(d, 2)
  <2>1. b.ok
    BY <1>1, <1>2 DEF HandDelta
  <2> QED
    BY <1>1, <1>2, <2>1, PairFits, Zenon
<1>3. 2 \in Nat
  OBVIOUS
<1> QED
  BY <1>2, <1>3, ByHandFits, Zenon DEF d

\* CreateExchange.
LEMMA ExchangeFits ==
  ASSUME TypeOK, PairedTable, DoExchange(Exchanges)
  PROVE  FitsIn
<1>1. PICK p \in Exchanges : Applied(CreatePair(rows, clock, BuildExchange(rows, p)), 2)
  BY Zenon DEF DoExchange, CreateExchange
<1>2. p.day \in Int
  BY RequestsAssumption
<1>3. \A cur, r : LET b == ExchangeLegs(p, cur, r) IN b.ok => Parcel(b.out, b.in)
  <2> SUFFICES ASSUME NEW cur, NEW r PROVE LET b == ExchangeLegs(p, cur, r) IN b.ok => Parcel(b.out, b.in)
    BY Zenon
  <2> DEFINE b == ExchangeLegs(p, cur, r)
             o == b.out
             i == b.in
  <2>1. /\ IsRow(o) /\ o.at = 0 /\ o.ext = 0 /\ o.day = p.day /\ o.acct = p.acct /\ o.typ = "exchange_out"
        /\ o.paper = p.from /\ o.lots = r.lots /\ o.amount = LotsCost(r.lots)
    BY BlankIs, ZenonT(30) DEF ExchangeLegs, IsRow, RowColumns
  <2>2. \E qty, lots : i = [o EXCEPT !.typ = "exchange_in", !.paper = p.to, !.qty = qty, !.lots = lots]
    BY Zenon DEF ExchangeLegs
  <2>3. b.ok => p.from # p.to /\ LotsCost(i.lots) = o.amount
    BY Zenon DEF ExchangeLegs
  <2> HIDE DEF b, o, i
  <2>4. PICK qty, lots : i = [o EXCEPT !.typ = "exchange_in", !.paper = p.to, !.qty = qty, !.lots = lots]
    BY <2>2, Zenon
  <2>5. RowColumns \subseteq DOMAIN o
    BY <2>1, RowHasColumns, Zenon
  <2>6. /\ IsRow(i) /\ i.at = o.at /\ i.ext = 0 /\ i.day = o.day /\ i.acct = o.acct /\ i.typ = "exchange_in"
        /\ i.paper = p.to /\ i.amount = o.amount
    BY <2>1, <2>4, <2>5, ZenonT(30) DEF IsRow, RowColumns
  <2>7. p.from # p.to /\ LotsCost(i.lots) = o.amount => Parcel(o, i)
    BY <1>2, <2>1, <2>6 DEF Parcel, Dated, OneParcel, TransferLeg, CorporateLeg
  <2> QED
    BY <2>3, <2>7, Zenon DEF b, o, i
<1> DEFINE b == BuildExchange(rows, p)
<1>4. b.ok => Parcel(b.out, b.in)
  BY <1>3, Zenon DEF BuildExchange
<1> HIDE DEF b
<1> QED
  BY <1>1, <1>4, BuiltFits, Zenon DEF b

\* CreateSpinoff.
LEMMA SpinoffFits ==
  ASSUME TypeOK, PairedTable, DoSpinoff(Spinoffs)
  PROVE  FitsIn
<1>1. PICK p \in Spinoffs : Applied(CreatePair(rows, clock, BuildSpinoff(rows, p)), 2)
  BY Zenon DEF DoSpinoff, CreateSpinoff
<1>2. p.day \in Int
  BY RequestsAssumption
<1>3. \A held, pieces : LET b == SpinoffLegs(p, held, pieces) IN b.ok => Parcel(b.out, b.in)
  <2> SUFFICES ASSUME NEW held, NEW pieces PROVE LET b == SpinoffLegs(p, held, pieces) IN b.ok => Parcel(b.out, b.in)
    BY Zenon
  <2> DEFINE b == SpinoffLegs(p, held, pieces)
             o == b.out
             i == b.in
  <2>1. /\ IsRow(o) /\ o.at = 0 /\ o.ext = 0 /\ o.day = p.day /\ o.acct = p.acct /\ o.typ = "spinoff_out"
        /\ o.paper = p.from /\ o.lots = pieces /\ o.amount = LotsCost(pieces)
    BY BlankIs, ZenonT(30) DEF SpinoffLegs, IsRow, RowColumns
  <2>2. \E qty, lots : i = [o EXCEPT !.typ = "spinoff_in", !.paper = p.to, !.qty = qty, !.lots = lots]
    BY Zenon DEF SpinoffLegs
  <2>3. b.ok => p.from # p.to /\ LotsCost(i.lots) = o.amount
    BY Zenon DEF SpinoffLegs
  <2> HIDE DEF b, o, i
  <2>4. PICK qty, lots : i = [o EXCEPT !.typ = "spinoff_in", !.paper = p.to, !.qty = qty, !.lots = lots]
    BY <2>2, Zenon
  <2>5. RowColumns \subseteq DOMAIN o
    BY <2>1, RowHasColumns, Zenon
  <2>6. /\ IsRow(i) /\ i.at = o.at /\ i.ext = 0 /\ i.day = o.day /\ i.acct = o.acct /\ i.typ = "spinoff_in"
        /\ i.paper = p.to /\ i.amount = o.amount
    BY <2>1, <2>4, <2>5, ZenonT(30) DEF IsRow, RowColumns
  <2>7. p.from # p.to /\ LotsCost(i.lots) = o.amount => Parcel(o, i)
    BY <1>2, <2>1, <2>6 DEF Parcel, Dated, OneParcel, TransferLeg, CorporateLeg
  <2> QED
    BY <2>3, <2>7, Zenon DEF b, o, i
<1> DEFINE b == BuildSpinoff(rows, p)
<1>4. b.ok => Parcel(b.out, b.in)
  BY <1>3, Zenon DEF BuildSpinoff
<1> HIDE DEF b
<1> QED
  BY <1>1, <1>4, BuiltFits, Zenon DEF b

\* StatePurchases.
LEMMA StatePurchasesFits ==
  ASSUME TypeOK, PairedTable, DoStatePurchases(Statements)
  PROVE  FitsIn
<1>1. PICK op \in rows, pieces \in Statements :
         ByHand(StatePurchases(rows, op, pieces), 0)
  BY Zenon DEF DoStatePurchases, InPlace
<1> DEFINE d == StatePurchases(rows, op, pieces)
<1>2. d.ok => KeepsTable(d, 0)
  BY StatingFits, Zenon
<1>3. 0 \in Nat
  OBVIOUS
<1> HIDE DEF d
<1> QED
  BY <1>1, <1>2, <1>3, ByHandFits, Zenon DEF d

\* A corrected event changes its place in the day and nothing else.
LEMMA CorrectedRestates ==
  ASSUME NEW e \in Events, NEW remove
  PROVE  /\ Shaped(Corrected(e, remove)) /\ Restates(Corrected(e, remove), e)
         /\ \A k \in DOMAIN Corrected(e, remove) : IsRow(Corrected(e, remove)[k])
         /\ 1 \in DOMAIN Corrected(e, remove)
<1> DEFINE leg(k) == InheritsPlace(e[k], remove)
           legs == Corrected(e, remove)
<1>1. /\ DOMAIN e = {1} \/ DOMAIN e = {1, 2}
      /\ \A k \in DOMAIN e : IsRow(e[k])
  BY RequestsAssumption, Zenon
<1>2. legs = [k \in DOMAIN e |-> leg(k)]
  BY Zenon DEF Corrected
<1>3. ASSUME NEW k \in DOMAIN e
      PROVE  /\ IsRow(leg(k)) /\ Alike(leg(k), e[k])
             /\ leg(k).lots = e[k].lots /\ leg(k).amount = e[k].amount
  <2> DEFINE x == e[k]
  <2>1. \E stamp : leg(k) \in {x, [x EXCEPT !.stamp = stamp]}
    BY Zenon DEF InheritsPlace
  <2>2. IsRow(x)
    BY <1>1, Zenon
  <2> HIDE DEF x, leg
  <2>3. PICK stamp : leg(k) \in {x, [x EXCEPT !.stamp = stamp]}
    BY <2>1, Zenon
  <2>4. RowColumns \subseteq DOMAIN x
    BY <2>2, RowHasColumns, Zenon
  <2> DEFINE z == [x EXCEPT !.stamp = stamp]
  <2>5. IsRow(z) /\ Alike(z, x) /\ z.lots = x.lots /\ z.amount = x.amount
    BY <2>2, <2>4, ZenonT(30) DEF IsRow, Alike, RowColumns
  <2>6. Alike(x, x)
    BY Zenon DEF Alike
  <2> HIDE DEF z
  <2>7. leg(k) = x \/ leg(k) = z
    BY <2>3, Zenon DEF z
  <2> QED
    BY <2>2, <2>5, <2>6, <2>7, Zenon DEF x
<1> HIDE DEF leg
<1>4. DOMAIN legs = DOMAIN e /\ \A k \in DOMAIN e : legs[k] = leg(k)
  BY <1>2, Zenon
<1>5. Shaped(legs)
  <2> HIDE DEF legs
  <2>1. {1} = 1..1 /\ {1, 2} = 1..2
    OBVIOUS
  <2>2. CASE DOMAIN e = 1..1
    <3>1. legs = [k \in 1..1 |-> leg(k)]
      BY <1>2, <2>2
    <3> QED
      BY <3>1 DEF Shaped
  <2>3. CASE DOMAIN e = 1..2
    <3>1. legs = [k \in 1..2 |-> leg(k)]
      BY <1>2, <2>3
    <3> QED
      BY <3>1 DEF Shaped
  <2> QED
    BY <1>1, <2>1, <2>2, <2>3
<1> HIDE DEF legs
<1>6. Restates(legs, e)
  BY <1>3, <1>4, Zenon DEF Restates
<1>7. \A k \in DOMAIN legs : IsRow(legs[k])
  BY <1>3, <1>4, Zenon
<1>8. 1 \in DOMAIN legs
  BY <1>1, <1>4
<1> QED
  BY <1>5, <1>6, <1>7, <1>8, Zenon DEF legs

\* A corrected leg of a record that is removed takes its place.
LEMMA CorrectedInherits ==
  ASSUME PairedTable, NEW remove, remove \subseteq rows, NEW leg, IsRow(leg),
         InheritsPlace(leg, remove).ext # 0,
         NEW r \in remove, SameRecord(InheritsPlace(leg, remove), r)
  PROVE  InheritsPlace(leg, remove).stamp = r.stamp
<1> DEFINE x == InheritsPlace(leg, remove)
           old == {s \in remove : s.acct = leg.acct /\ s.src = leg.src /\ s.ext = leg.ext}
           c == CHOOSE s \in old : TRUE
<1>1. x = IF old = {} THEN leg ELSE [leg EXCEPT !.stamp = c.stamp]
  BY Zenon DEF InheritsPlace
<1>2. x.acct = leg.acct /\ x.src = leg.src /\ x.ext = leg.ext
  <2>1. RowColumns \subseteq DOMAIN leg
    BY RowHasColumns
  <2> HIDE DEF old, c, x
  <2> QED
    BY <1>1, <2>1, ZenonT(30) DEF RowColumns
<1>3. r \in old
  BY <1>2, Zenon DEF SameRecord
<1>4. c \in old
  BY <1>3
<1>5. c = r
  BY <1>2, <1>3, <1>4 DEF PairedTable, Unique, SameRecord
<1>6. "stamp" \in DOMAIN leg
  BY RowFields
<1> HIDE DEF c, x
<1>7. x.stamp = r.stamp
  BY <1>1, <1>3, <1>5, <1>6
<1> QED
  BY <1>7, Zenon DEF x

\* What an importer reports, corrected, is events of the catalogue.
LEMMA AskedIs ==
  ASSUME NEW events \in AtMostTwo(Events), NEW remove
  PROVE  LET add == Asked(events, remove)
             n   == Len(events)
         IN /\ n \in Nat /\ DOMAIN events = 1..n /\ \A i \in 1..n : events[i] \in Events
            /\ \A i \in 1..n : add[i] = Corrected(events[i], remove)
            /\ Eventful(add, n) /\ FromEvents(add, n)
<1> DEFINE add == Asked(events, remove)
           n == Len(events)
<1>2. n \in Nat /\ DOMAIN events = 1..n /\ \A i \in 1..n : events[i] \in Events
  BY DEF AtMostTwo
<1>3. DOMAIN add = 1..n /\ \A i \in 1..n : add[i] = Corrected(events[i], remove)
  BY <1>2, Zenon DEF Asked
<1> HIDE DEF add, n
<1>4. ASSUME NEW i \in 1..n
      PROVE  /\ Shaped(add[i]) /\ Restates(add[i], events[i])
             /\ \A k \in DOMAIN add[i] : IsRow(add[i][k])
             /\ add[i][1].day \in Int /\ add[i][1].at \in Int
  <2> DEFINE e == events[i]
             legs == add[i]
  <2>1. e \in Events
    BY <1>2, Zenon
  <2>2. legs = Corrected(e, remove)
    BY <1>3, Zenon
  <2> HIDE DEF e, legs
  <2>3. /\ Shaped(legs) /\ Restates(legs, e) /\ 1 \in DOMAIN legs
        /\ \A k \in DOMAIN legs : IsRow(legs[k])
    BY <2>1, <2>2, CorrectedRestates, Zenon
  <2>4. Alike(legs[1], e[1]) /\ 1 \in DOMAIN e
    BY <2>3, Zenon DEF Restates
  <2>5. Dated(e[1])
    BY <2>1, <2>4, RequestsAssumption, Zenon
  <2>6. legs[1].day \in Int /\ legs[1].at \in Int
    BY <2>4, <2>5, Zenon DEF Alike, Dated
  <2> QED
    BY <2>3, <2>6, Zenon DEF e, legs
<1>5. Eventful(add, n)
  BY <1>2, <1>3, <1>4, Zenon DEF Eventful
<1>6. FromEvents(add, n)
  BY <1>2, <1>4, Zenon DEF FromEvents
<1> QED BY <1>2, <1>3, <1>5, <1>6, Zenon DEF add, n

\* ApplyImportDelta.
LEMMA ImportsFit ==
  ASSUME TypeOK, PairedTable, DoImport(Events)
  PROVE  FitsIn
<1>1. PICK events \in AtMostTwo(Events), remove \in SUBSET {r \in rows : r.src # "manual"} :
         /\ Accepted(ApplyImportDelta(rows, clock, Asked(events, remove), remove))
         /\ Taking(2 * Len(events))
  BY Zenon DEF DoImport
<1> DEFINE add == Asked(events, remove)
           n == Len(events)
           d == ApplyImportDelta(rows, clock, add, remove)
<1>2. /\ n \in Nat /\ \A i \in 1..n : events[i] \in Events
      /\ \A i \in 1..n : add[i] = Corrected(events[i], remove)
      /\ Eventful(add, n) /\ FromEvents(add, n)
  BY AskedIs, Zenon
<1> HIDE DEF add, n
<1>3. d.ok
  BY <1>1, Zenon DEF Accepted, add
<1>4. Inherits(add, n, remove)
  <2> SUFFICES ASSUME NEW i \in 1..n, NEW k \in DOMAIN add[i], NEW r \in remove,
                      add[i][k].ext # 0, SameRecord(add[i][k], r)
               PROVE  add[i][k].stamp = r.stamp
    BY Zenon DEF Inherits
  <2>1. add[i] = [l \in DOMAIN events[i] |-> InheritsPlace(events[i][l], remove)]
    BY <1>2, Zenon DEF Corrected
  <2>2. k \in DOMAIN events[i] /\ add[i][k] = InheritsPlace(events[i][k], remove)
    BY <2>1
  <2> DEFINE leg == events[i][k]
             x == InheritsPlace(leg, remove)
  <2>3. IsRow(leg) /\ remove \subseteq rows
    BY <1>2, <2>2, RequestsAssumption
  <2>4. x.ext # 0 /\ SameRecord(x, r)
    BY <2>2, Zenon
  <2> HIDE DEF leg
  <2>5. x.stamp = r.stamp
    BY <2>3, <2>4, CorrectedInherits, Zenon
  <2> QED
    BY <2>2, <2>5, Zenon DEF leg
<1>5. KeepsTable(d, 2 * n)
  BY <1>2, <1>3, <1>4, ImportFits, Zenon
<1>6. 2 * n \in Nat
  BY <1>2
<1>7. Accepted(d) /\ Taking(2 * n)
  BY <1>1, Zenon DEF add, n
<1> HIDE DEF d
<1> QED
  BY <1>5, <1>6, <1>7, Zenon DEF FitsIn

LEMMA EveryStep ==
  ASSUME TypeOK, PairedTable, Next
  PROVE  FitsIn \/ DoArchive(Closable)
BY CreatesFit, UpdateFits, DeleteFits, TransferFits, MoneyTransferFits, ArrivalFits,
   StatePurchasesFits, ExchangeFits, SpinoffFits, ImportsFit DEF Next

\* Every step leaves pairs.
LEMMA PairedStep ==
  ASSUME TypeOK, PairedTable, [Next]_vars
  PROVE  PairedTable'
<1>1. CASE FitsIn
  BY <1>1, FitsKeep, Zenon DEF FitsIn
<1>2. CASE DoArchive(Closable)
  BY <1>2, Zenon DEF DoArchive, PairedTable
<1>3. CASE UNCHANGED vars
  BY <1>3, Zenon DEF vars, PairedTable
<1> QED
  BY <1>1, <1>2, <1>3, EveryStep, Zenon

\* A transfer, a conversion and a spin-off stand as two legs of one parcel at
\* every moment.
THEOREM PairsAlwaysAgree == Spec => []PairsAgree
<1>1. Init => PairedTable
  BY DEF Init, PairedTable, OwnIds, AllPaired, Unique
<1>2. TypeOK /\ PairedTable /\ [Next]_vars => PairedTable'
  BY PairedStep
<1>3. PairedTable => PairsAgree
  BY PairedAgree, Zenon DEF PairedTable
<1> QED
  BY <1>1, <1>2, <1>3, TypeCorrect, PTL DEF Spec

\* What has become of a row stands where the row stood.
LEMMA PlaceStays ==
  ASSUME TypeOK, PairedTable, Next, NEW r \in rows, NEW x \in Restated(r)
  PROVE  x.day = r.day /\ x.at = r.at /\ x.src = r.src /\ x.stamp = r.stamp
<1>1. x \in rows' /\ SameOrigin(x, r) /\ x.day = r.day /\ x.at = r.at
  BY DEF Restated, SameOrigin
<1>2. CASE x \in rows
  BY <1>1, <1>2, OneOrigin
<1>3. CASE x \notin rows
  <2>1. rows' # rows
    BY <1>1, <1>3
  <2>2. ~DoArchive(Closable)
    BY <2>1 DEF DoArchive
  <2>3. PICK d, t : KeepsTable(d, t) /\ Accepted(d)
    BY <2>2, EveryStep, Zenon DEF FitsIn
  <2>4. x \in d.add
    BY <1>1, <1>3, <2>3 DEF Accepted, After
  <2> QED
    BY <1>1, <2>3, <2>4, Zenon DEF KeepsTable, KeepsPlaces
<1> QED
  BY <1>2, <1>3

\* Rows that stay on their day stay in their order, in every journal, whoever
\* rewrites them: the edit of Update and the corrections of an import, a chain
\* of restated moves included, fold where the originals did.
THEOREM PlacesAreKept == Spec => PlaceKept
<1>1. Init => PairedTable
  BY DEF Init, PairedTable, OwnIds, AllPaired, Unique
<1>2. TypeOK /\ PairedTable /\ [Next]_vars => PairedTable'
  BY PairedStep
<1>3. ASSUME TypeOK, PairedTable, Next
      PROVE  \A r, s \in rows : r.acct = s.acct =>
               \A r2 \in Restated(r), s2 \in Restated(s) :
                 FoldsBefore(r, s) <=> FoldsBefore(r2, s2)
  <2> SUFFICES ASSUME NEW r \in rows, NEW s \in rows,
                      NEW r2 \in Restated(r), NEW s2 \in Restated(s)
               PROVE  FoldsBefore(r, s) <=> FoldsBefore(r2, s2)
    BY Zenon
  <2>1. r2.day = r.day /\ r2.at = r.at /\ r2.src = r.src /\ r2.stamp = r.stamp
    BY <1>3, PlaceStays, Zenon
  <2>2. s2.day = s.day /\ s2.at = s.at /\ s2.src = s.src /\ s2.stamp = s.stamp
    BY <1>3, PlaceStays, Zenon
  <2> QED
    BY <2>1, <2>2, Zenon DEF FoldsBefore, FoldRank, SoonerInstant
<1> QED
  BY <1>1, <1>2, <1>3, TypeCorrect, PTL DEF Spec, PlaceKept

-----------------------------------------------------------------------------
(* Every row of the table is told as columns hold it. *)

ColumnsHold == \A r \in rows : IsEntry(r)

\* A delta accepted that puts in only such rows.
TellsIn == \E d : Accepted(d) /\ \A r \in d.add : IsEntry(r)

LEMMA EntryTells ==
  ASSUME NEW STATE d, NEW t, ByHand(d, t) \/ Applied(d, t), d.ok => \A r \in d.add : IsEntry(r)
  PROVE  TellsIn
<1>1. Accepted(d)
  BY Zenon DEF ByHand, Applied
<1>2. d.ok
  BY <1>1, Zenon DEF Accepted
<1> QED BY <1>1, <1>2, Zenon DEF TellsIn

LEMMA RowsReadable ==
  ASSUME TypeOK, PairedTable, ColumnsHold
  PROVE  Readable(rows)
<1>1. /\ IsFiniteSet(rows) /\ OwnIds(rows) /\ clock \in Nat
      /\ \A r \in rows : Placed(r) /\ r.id \in 1..clock
  BY TableIs
<1>2. \A r \in rows : {r.id, r.at, r.stamp} \subseteq Int
  BY <1>1 DEF Placed
<1> QED BY <1>1, <1>2 DEF Readable, ColumnsHold

\* Create, CreateReplacing.
LEMMA CreatesTell ==
  ASSUME DoCreate(HandRows) \/ DoReplace(HandRows)
  PROVE  TellsIn
<1>1. PICK op \in HandRows, replace \in SUBSET rows :
         ByHand(CreateReplacing(rows, clock, op, replace), 1)
  <2>1. CASE DoCreate(HandRows)
    BY <2>1, Zenon DEF DoCreate, Create
  <2>2. CASE DoReplace(HandRows)
    BY <2>2, Zenon DEF DoReplace
  <2> QED BY <2>1, <2>2, Zenon
<1> DEFINE legs == <<op>>
           d == CreateReplacing(rows, clock, op, replace)
<1>2. IsEntry(op)
  BY ColumnsAssumption
<1>3. \A i \in DOMAIN legs : IsEntry(legs[i])
  BY <1>2
<1>4. d.add = Stored(clock, legs)
  BY Zenon DEF CreateReplacing, HandDelta
<1> HIDE DEF legs
<1>5. \A r \in d.add : IsEntry(r)
  BY <1>3, <1>4, StoredColumns
<1> QED BY <1>1, <1>5, EntryTells

\* CreateArrival.
LEMMA ArrivalTells ==
  ASSUME DoArrival(ArrivalsAsked)
  PROVE  TellsIn
<1>1. PICK p \in ArrivalsAsked : ByHand(CreateArrival(rows, clock, p), 1)
  BY Zenon DEF DoArrival
<1> DEFINE d == CreateArrival(rows, clock, p)
           op == [Blank EXCEPT !.acct = p.acct, !.typ = "transfer_in", !.paper = p.paper,
                    !.day = p.day, !.qty = p.qty, !.cur = p.cur, !.lots = p.pieces,
                    !.amount = LotsCost(p.pieces)]
           legs == <<op>>
<1>2. d.add = Stored(clock, legs)
  BY Zenon DEF CreateArrival, HandDelta
<1>3. IsEntry(op)
  <2>1. p.day \in Nat \ {0} /\ p.qty \in Int /\ p.cur \in Int /\ p.pieces \in Seq(PieceColumns)
    BY ColumnsAssumption
  <2> QED BY <2>1, ArrivalRowIs
<1> HIDE DEF op
<1>4. \A i \in DOMAIN legs : IsEntry(legs[i])
  BY <1>3
<1> HIDE DEF legs, d
<1>5. \A r \in d.add : IsEntry(r)
  BY <1>2, <1>4, StoredColumns
<1> QED BY <1>1, <1>5, EntryTells DEF d

\* Update.
LEMMA UpdateTells ==
  ASSUME TypeOK, PairedTable, ColumnsHold, DoUpdate(HandRows)
  PROVE  TellsIn
<1>1. PICK old \in rows, op \in HandRows : ByHand(Update(rows, old, op), 0)
  BY Zenon DEF DoUpdate, InPlace
<1> DEFINE d == Update(rows, old, op)
           x == AsEdited(old, op)
           s == [x EXCEPT !.ext = old.ext]
<1>2. d.add = {s}
  BY Zenon DEF Update, RestateDelta
<1>3. IsEntry(op) /\ IsEntry(old)
  BY ColumnsAssumption DEF ColumnsHold
<1>4. EntryColumns \subseteq DOMAIN op
  BY <1>3, EntryHasColumns DEF IsEntry
<1>5. /\ DOMAIN x = DOMAIN op /\ x.qty = op.qty /\ x.amount = op.amount /\ x.cur = op.cur
      /\ x.face = op.face /\ x.fee = op.fee /\ x.day = op.day /\ x.ratio = op.ratio
      /\ x.lots = op.lots
  BY <1>4, ZenonT(30) DEF AsEdited, EntryColumns
<1> HIDE DEF x
<1>6. /\ DOMAIN s = DOMAIN op /\ s.qty = op.qty /\ s.amount = op.amount /\ s.cur = op.cur
      /\ s.face = op.face /\ s.fee = op.fee /\ s.day = op.day /\ s.ratio = op.ratio
      /\ s.lots = op.lots /\ s.ext = old.ext
  BY <1>4, <1>5, ZenonT(30) DEF EntryColumns
<1> HIDE DEF s
<1>7. IsEntry(s)
  BY <1>3, <1>6 DEF IsEntry, IsRow
<1>8. \A r \in d.add : IsEntry(r)
  BY <1>2, <1>7
<1> QED BY <1>1, <1>8, EntryTells

\* Delete.
LEMMA DeleteTells ==
  ASSUME DoDelete
  PROVE  TellsIn
<1>1. PICK op \in rows : ByHand(Delete(rows, op), 0)
  BY Zenon DEF DoDelete, InPlace
<1>2. Delete(rows, op).add = {}
  BY Zenon DEF Delete, RestateDelta
<1>3. \A r \in Delete(rows, op).add : IsEntry(r)
  BY <1>2
<1> QED BY <1>1, <1>3, EntryTells

\* CreateTransfer.
LEMMA TransferTells ==
  ASSUME TypeOK, PairedTable, ColumnsHold, DoTransfer(Transfers)
  PROVE  TellsIn
<1>1. PICK p \in Transfers : ByHand(CreateTransfer(rows, clock, p), 2)
  BY Zenon DEF DoTransfer
<1>2. p.day \in Nat \ {0} /\ p.qty \in Int /\ p.basis \in Int
  BY ColumnsAssumption
<1> DEFINE d == CreateTransfer(rows, clock, p)
<1>3. d.ok => \A r \in d.add : IsEntry(r)
  BY <1>2, RowsReadable, TransferColumns
<1> HIDE DEF d
<1> QED BY <1>1, <1>3, EntryTells DEF d

\* CreateMoneyTransfer.
LEMMA MoneyTransferTells ==
  ASSUME DoMoneyTransfer(MoneyTransfers)
  PROVE  TellsIn
<1>1. PICK p \in MoneyTransfers : ByHand(CreateMoneyTransfer(rows, clock, p), 2)
  BY Zenon DEF DoMoneyTransfer
<1> DEFINE d == CreateMoneyTransfer(rows, clock, p)
           out == [Blank EXCEPT !.acct = p.from, !.typ = "withdrawal", !.day = p.day,
                                !.amount = -p.amount, !.cur = p.cur]
           in  == [Blank EXCEPT !.acct = p.to, !.typ = "deposit", !.day = p.day,
                                !.amount = p.received, !.cur = p.receivedCur]
<1>2. d.add = Stored(clock, Pair(clock, out, in))
  BY Zenon DEF CreateMoneyTransfer, HandDelta
<1>3. IsEntry(out) /\ IsEntry(in)
  <2>1. /\ p.day \in Nat \ {0} /\ p.amount \in Int /\ p.cur \in Int
        /\ p.received \in Int /\ p.receivedCur \in Int
    BY ColumnsAssumption
  <2> QED BY <2>1, MoneyLegsAre
<1> HIDE DEF out, in
<1>4. \A r \in d.add : IsEntry(r)
  BY <1>2, <1>3, PairColumns
<1> QED BY <1>1, <1>4, EntryTells

\* CreateExchange.
LEMMA ExchangeTells ==
  ASSUME TypeOK, PairedTable, ColumnsHold, DoExchange(Exchanges)
  PROVE  TellsIn
<1>1. PICK p \in Exchanges : Applied(CreateExchange(rows, clock, p), 2)
  BY Zenon DEF DoExchange
<1> DEFINE d == CreateExchange(rows, clock, p)
           b == BuildExchange(rows, p)
<1>2. d.add = Stored(clock, Pair(clock, b.out, b.in)) /\ (d.ok => b.ok)
  BY Zenon DEF CreateExchange, CreatePair, HandDelta
<1>3. p.day \in Nat \ {0} /\ p.qty \in Int /\ p.toQty \in Int
  BY ColumnsAssumption
<1>4. b.ok => IsEntry(b.out) /\ IsEntry(b.in)
  BY <1>3, RowsReadable, ExchangeColumns
<1> DEFINE out == b.out
           in == b.in
<1>5. d.ok => \A r \in d.add : IsEntry(r)
  <2> SUFFICES ASSUME d.ok, NEW r \in d.add PROVE IsEntry(r)
    OBVIOUS
  <2>1. IsEntry(out) /\ IsEntry(in) /\ r \in Stored(clock, Pair(clock, out, in))
    BY <1>2, <1>4
  <2> HIDE DEF out, in
  <2> QED BY <2>1, PairColumns
<1> HIDE DEF d, b
<1> QED BY <1>1, <1>5, EntryTells DEF d

\* CreateSpinoff.
LEMMA SpinoffTells ==
  ASSUME TypeOK, PairedTable, ColumnsHold, DoSpinoff(Spinoffs)
  PROVE  TellsIn
<1>1. PICK p \in Spinoffs : Applied(CreateSpinoff(rows, clock, p), 2)
  BY Zenon DEF DoSpinoff
<1> DEFINE d == CreateSpinoff(rows, clock, p)
           b == BuildSpinoff(rows, p)
<1>2. d.add = Stored(clock, Pair(clock, b.out, b.in)) /\ (d.ok => b.ok)
  BY Zenon DEF CreateSpinoff, CreatePair, HandDelta
<1>3. /\ p.day \in Nat \ {0} /\ p.ratio \in (Nat \ {0}) \X (Nat \ {0})
      /\ p.share \in 0..(DivScale - 1)
  BY ColumnsAssumption
<1>4. b.ok => IsEntry(b.out) /\ IsEntry(b.in)
  BY <1>3, RowsReadable, SpinoffColumns
<1> DEFINE out == b.out
           in == b.in
<1>5. d.ok => \A r \in d.add : IsEntry(r)
  <2> SUFFICES ASSUME d.ok, NEW r \in d.add PROVE IsEntry(r)
    OBVIOUS
  <2>1. IsEntry(out) /\ IsEntry(in) /\ r \in Stored(clock, Pair(clock, out, in))
    BY <1>2, <1>4
  <2> HIDE DEF out, in
  <2> QED BY <2>1, PairColumns
<1> HIDE DEF d, b
<1> QED BY <1>1, <1>5, EntryTells DEF d


-----------------------------------------------------------------------------
(* Moves released again, and what an importer reports. *)

\* Journals restated hold what columns hold, and stay so as one more onward
\* move is released again.
RestatingEntries(J, op, K) == Restating(J, op, K) /\ \A x \in K : IsEntry(x)

\* A departing leg of the table that moves something.
Movable(J, out) ==
  out \in J /\ out.typ = "transfer_out" /\ out.group # 0 /\ out.qty \in Nat \ {0}

LEMMA RestatedReadable ==
  ASSUME TypeOK, PairedTable, NEW J, J \subseteq rows, NEW op, NEW K, RestatingEntries(J, op, K)
  PROVE  /\ Readable(K)
         /\ \A y \in J : \E x \in K : x.id = y.id /\ x.acct = y.acct
<1>1. /\ OwnIds(rows) /\ clock \in Nat
      /\ \A y \in J : IsRow(y) /\ y.id \in 1..clock /\ y.at \in Int /\ y.stamp \in Int
  BY TableIs DEF Placed
<1>2. ASSUME NEW x \in K
      PROVE  \E y \in J : x.id = y.id /\ x.stamp = y.stamp /\ x.at = y.at /\ x.acct = y.acct
  <2>1. PICK y \in J : Redone(x, y)
    BY DEF RestatingEntries, Restating
  <2>2. x.id = y.id /\ x.stamp = y.stamp /\ Alike(x, y)
    BY <1>1, <2>1, RedoneKeeps
  <2> QED BY <2>2 DEF Alike
<1>3. IsFiniteSet(K)
  <2>1. OwnIds(K) /\ \A x \in K : x.id \in 1..clock
    BY <1>1, <1>2 DEF RestatingEntries, Restating
  <2> QED BY <1>1, <2>1, RowsAreFinite
<1>4. \A x \in K : {x.id, x.at, x.stamp} \subseteq Int
  BY <1>1, <1>2
<1>5. Readable(K)
  BY <1>3, <1>4 DEF Readable, RestatingEntries, Restating
<1>6. ASSUME NEW y \in J PROVE \E x \in K : x.id = y.id /\ x.acct = y.acct
  <2>1. PICK x \in K : x.id = y.id
    BY DEF RestatingEntries, Restating
  <2>2. PICK z \in J : x.id = z.id /\ x.acct = z.acct
    BY <1>2
  <2>3. z = y
    BY <1>1, <2>1, <2>2 DEF OwnIds
  <2> QED BY <2>1, <2>2, <2>3
<1> QED BY <1>5, <1>6

LEMMA EntriesGoOn ==
  ASSUME TypeOK, PairedTable, NEW J, J \subseteq rows, Among(rows, J), NEW op, NEW K,
         RestatingEntries(J, op, K), NEW out, Movable(J, out)
  PROVE  RestatingEntries(J, op, ReleaseAgain(K, out).pos)
<1>1. Restating(J, op, ReleaseAgain(K, out).pos)
  BY RestatingGoesOn DEF RestatingEntries, Movable
<1>2. Readable(K) /\ \E y \in K : y.id = out.id /\ y.acct = out.acct
  BY RestatedReadable DEF Movable
<1>3. \A x \in ReleaseAgain(K, out).pos : IsEntry(x)
  BY <1>2, AgainEntries DEF Movable
<1> QED BY <1>1, <1>3 DEF RestatingEntries

LEMMA EntriesRun ==
  ASSUME TypeOK, PairedTable, NEW J, J \subseteq rows, Among(rows, J), NEW op, NEW K,
         RestatingEntries(J, op, K), NEW O, NEW n \in Nat, Len(O) = n,
         \A i \in 1..n : Movable(J, O[i])
  PROVE  RestatingEntries(J, op, Run(ReleaseAgain, K, O).pos)
<1>1. PICK after : Steps("release", K, O, after) /\ RunOf("release", K, O) = after[n]
  <2>1. Len(O) \in Nat
    OBVIOUS
  <2> QED BY <2>1, RunSteps
<1>2. /\ after[0] = Provided(TRUE, K)
      /\ \A i \in 1..n : after[i] = IF after[i - 1].ok THEN StepOf("release", after[i - 1].pos, O[i])
                                    ELSE after[i - 1]
  BY <1>1, Zenon DEF Steps
<1>3. Run(ReleaseAgain, K, O) = after[n]
  <2>1. RunOf("release", K, O) = Run(ReleaseAgain, K, O)
    BY DEF RunOf
  <2> QED BY <1>1, <2>1, Zenon
<1> DEFINE Good(i) == RestatingEntries(J, op, after[i].pos)
           G == {i \in 0..n : Good(i)}
<1>4. Good(0)
  <2>1. after[0].pos = K
    BY <1>2 DEF Provided
  <2> QED BY <2>1, Zenon
<1>5. ASSUME NEW i \in 1..n, Good(i - 1) PROVE Good(i)
  <2> DEFINE P == after[i - 1].pos
             out == O[i]
  <2>1. RestatingEntries(J, op, P) /\ Movable(J, out)
    BY <1>5, Zenon
  <2>2. after[i].pos \in {ReleaseAgain(P, out).pos, P}
    <3>1. StepOf("release", P, out) = ReleaseAgain(P, out)
      BY DEF StepOf
    <3>2. after[i] = IF after[i - 1].ok THEN StepOf("release", P, out) ELSE after[i - 1]
      BY <1>2, Zenon
    <3> QED BY <3>1, <3>2, Zenon
  <2> HIDE DEF P, out
  <2>3. RestatingEntries(J, op, ReleaseAgain(P, out).pos)
    BY <2>1, EntriesGoOn, Zenon
  <2> QED BY <2>1, <2>2, <2>3, Zenon
<1> HIDE DEF Good
<1>6. 0 \in G /\ \A i \in 1..n : i - 1 \in G => i \in G
  BY <1>4, <1>5
<1>7. n \in G
  <2> HIDE DEF G
  <2>1. \A i \in 0..n : i \in G
    BY <1>6, Climbing
  <2> QED BY <2>1
<1> QED BY <1>3, <1>7, Zenon DEF Good

\* The journals an arrival's purchases are stated in hold what columns hold.
LEMMA SettledEntries ==
  ASSUME TypeOK, PairedTable, ColumnsHold, JournalsReplay, NEW op \in rows, op.group = 0,
         NEW pieces \in Seq(PieceColumns), NEW J, J \subseteq rows, op \in J
  PROVE  RestatingEntries(J, op, SettledBy(J, op, pieces))
<1>1. /\ OwnIds(rows) /\ AllPaired(rows) /\ IsFiniteSet(rows)
      /\ \A r \in rows : IsRow(r) /\ Record(r) /\ Placed(r)
  BY TableIs, Zenon
<1>2. Among(rows, J)
  BY <1>1, Zenon DEF Among
<1> DEFINE cost == LotsCost(pieces)
           stated == [op EXCEPT !.lots = pieces, !.amount = cost]
           K0 == (J \ {op}) \cup {stated}
           S == {r \in K0 : MovesOnward(r, op)}
           O == Sorted(S)
           n == Cardinality(S)
<1>3. stated.lots = pieces /\ stated.amount = cost /\ stated.group = 0
  <2>1. {"lots", "amount", "group"} \subseteq DOMAIN op
    BY <1>1, RowFields
  <2> HIDE DEF cost
  <2> QED BY <2>1, Zenon
<1>4. RestatingEntries(J, op, K0)
  <2>1. stated = [op EXCEPT !.lots = stated.lots, !.amount = stated.amount]
    <3> HIDE DEF stated
    <3> QED BY <1>3, Zenon DEF stated
  <2>2. IsEntry(stated)
    <3>1. cost \in Int
      BY PieceColumnsAre
    <3>2. IsEntry(op)
      BY DEF ColumnsHold
    <3> HIDE DEF cost
    <3> QED BY <3>1, <3>2, EntryTold
  <2> HIDE DEF stated
  <2>3. Restating(J, op, K0)
    BY <1>2, <2>1, RestatingStarts, Zenon
  <2>4. \A x \in K0 : IsEntry(x)
    BY <2>2 DEF ColumnsHold
  <2> QED BY <2>3, <2>4 DEF RestatingEntries
<1>5. SettledBy(J, op, pieces) = Run(ReleaseAgain, K0, O).pos
  BY Zenon DEF SettledBy, ReleaseOnward
<1> HIDE DEF stated, O, cost
<1>6. \A r \in S : Movable(J, r)
  <2> TAKE r \in S
  <2>1. r.typ = "transfer_out" /\ r.group # 0
    BY Zenon DEF MovesOnward
  <2>2. r \in J \/ r = stated
    OBVIOUS
  <2>3. r \in J
    BY <1>3, <2>1, <2>2
  <2> DEFINE T == RowsOf(rows, r.acct)
  <2>4. r \in T /\ T \in SUBSET rows /\ r.acct \in Accounts
    BY <2>3 DEF RowsOf, TypeOK
  <2>5. Replays(Sorted(T))
    BY <2>4 DEF JournalsReplay, AccountReplays, JournalOf
  <2> HIDE DEF T
  <2>6. Readable(T)
    BY <2>4, RowsReadable, ReadableRows
  <2>7. r.qty \in Nat \ {0}
    BY <2>1, <2>4, <2>5, <2>6, FoldedMoves DEF Departures
  <2> QED BY <2>1, <2>3, <2>7 DEF Movable
<1> HIDE DEF S, n
<1>7. IsFiniteSet(S) /\ OwnIds(S) /\ \A r \in S : Placed(r)
  <2>1. S \subseteq rows
    BY <1>6 DEF Movable
  <2>2. IsFiniteSet(S)
    BY <1>1, <2>1, FS_Subset
  <2> QED BY <1>1, <2>1, <2>2, Zenon DEF OwnIds
<1>8. n \in Nat /\ Len(O) = n /\ \A i \in 1..n : O[i] \in S
  BY <1>7, SortedHolds, Zenon DEF O, n
<1>9. \A i \in 1..n : Movable(J, O[i])
  BY <1>6, <1>8, Zenon
<1> HIDE DEF K0
<1>10. RestatingEntries(J, op, Run(ReleaseAgain, K0, O).pos)
  BY <1>2, <1>4, <1>8, <1>9, EntriesRun
<1> QED BY <1>5, <1>10, Zenon

\* StatePurchases.
LEMMA StatePurchasesTell ==
  ASSUME TypeOK, PairedTable, ColumnsHold, JournalsReplay, DoStatePurchases(Statements)
  PROVE  TellsIn
<1>1. PICK op \in rows, pieces \in Statements :
         ByHand(StatePurchases(rows, op, pieces), 0)
  BY Zenon DEF DoStatePurchases, InPlace
<1> DEFINE d == StatePurchases(rows, op, pieces)
           J == {r \in rows : r.acct \in OnwardAccounts(rows, op)}
           K == SettledBy(J, op, pieces)
<1>2. d.add = WithBreakdowns(J \ K, K) /\ (d.ok => op.group = 0)
  BY StatingIs
<1>3. J \subseteq rows /\ op \in J
  BY OwnAccountIsRead
<1>4. pieces \in Seq(PieceColumns)
  BY ColumnsAssumption
<1> HIDE DEF J, d
<1>5. ASSUME d.ok, NEW r \in d.add PROVE IsEntry(r)
  <2>1. RestatingEntries(J, op, K)
    BY <1>2, <1>3, <1>4, <1>5, SettledEntries
  <2> HIDE DEF K
  <2>2. PICK leg \in J \ K : r = WithBreakdown(leg, K)
    BY <1>2, <1>5 DEF WithBreakdowns
  <2>3. IsEntry(leg) /\ \A x \in K : IsEntry(x)
    BY <1>3, <2>1, <2>2 DEF ColumnsHold, RestatingEntries
  <2>4. \E x \in K : x.id = leg.id
    BY <2>1, <2>2 DEF RestatingEntries, Restating
  <2> QED BY <2>2, <2>3, <2>4, BreakdownColumns
<1> QED BY <1>1, <1>5, EntryTells DEF d

-----------------------------------------------------------------------------

\* A corrected leg is told as it was reported.
LEMMA InheritedEntry ==
  ASSUME NEW leg, IsEntry(leg), NEW remove
  PROVE  IsEntry(InheritsPlace(leg, remove))
<1>1. \E stamp : InheritsPlace(leg, remove) \in {leg, [leg EXCEPT !.stamp = stamp]}
  BY Zenon DEF InheritsPlace
<1>2. \A stamp : IsEntry([leg EXCEPT !.stamp = stamp])
  <2> TAKE stamp
  <2> QED BY EntryPlaced
<1> QED BY <1>1, <1>2, Zenon

LEMMA AskedTyped ==
  ASSUME TypeOK, NEW events \in AtMostTwo(Events), NEW remove \in SUBSET rows
  PROVE  Typed(Asked(events, remove), Len(events))
<1> DEFINE add == Asked(events, remove)
           n == Len(events)
<1>1. /\ n \in Nat /\ DOMAIN events = 1..n /\ \A i \in 1..n : events[i] \in Events
      /\ \A i \in 1..n : add[i] = Corrected(events[i], remove)
      /\ Eventful(add, n) /\ FromEvents(add, n)
  BY AskedIs, Zenon
<1>2. Presentable(add, rows, clock) /\ Len(add) = n
  BY <1>1, AskedPresentable
<1> HIDE DEF add, n
<1>3. ASSUME NEW i \in 1..n, NEW k \in DOMAIN add[i]
      PROVE  IsEntry(add[i][k]) /\ {add[i][k].at, add[i][k].stamp} \subseteq Int
  <2>1. events[i] \in Events /\ add[i] = [l \in DOMAIN events[i] |-> InheritsPlace(events[i][l], remove)]
    BY <1>1 DEF Corrected
  <2>2. k \in DOMAIN events[i] /\ add[i][k] = InheritsPlace(events[i][k], remove)
    BY <2>1
  <2> DEFINE leg == events[i][k]
  <2>3. IsEntry(leg)
    BY <2>1, <2>2, ColumnsAssumption
  <2> HIDE DEF leg
  <2>4. IsEntry(InheritsPlace(leg, remove))
    BY <2>3, InheritedEntry
  <2>5. IsEntry(add[i][k])
    BY <2>2, <2>4 DEF leg
  <2>6. add[i][k].stamp \in 0..(clock + AppAhead)
    BY <1>2 DEF Presentable
  <2>7. add[i][k].stamp \in Int
    BY <2>6
  <2>8. add[i][k].at \in Int
    <3>1. PICK e \in Events : Restates(add[i], e)
      BY <1>1 DEF FromEvents
    <3>2. k \in DOMAIN e /\ Alike(add[i][k], e[k])
      BY <3>1 DEF Restates
    <3>3. Dated(e[k])
      BY <3>1, <3>2, RequestsAssumption
    <3> QED BY <3>2, <3>3 DEF Alike, Dated
  <2> QED BY <2>5, <2>7, <2>8
<1>4. Typed(add, n)
  BY <1>1, <1>3, Zenon DEF Typed
<1> QED BY <1>4 DEF add, n

\* ApplyImportDelta.
LEMMA ImportsTell ==
  ASSUME TypeOK, PairedTable, ColumnsHold, DoImport(Events)
  PROVE  TellsIn
<1>1. PICK events \in AtMostTwo(Events), remove \in SUBSET {r \in rows : r.src # "manual"} :
         Accepted(ApplyImportDelta(rows, clock, Asked(events, remove), remove))
  BY Zenon DEF DoImport
<1> DEFINE add == Asked(events, remove)
           n == Len(events)
           d == ApplyImportDelta(rows, clock, add, remove)
<1>2. remove \in SUBSET rows
  BY <1>1
<1>3. Typed(add, n)
  BY <1>2, AskedTyped
<1>4. Presentable(add, rows, clock)
  <2>1. n \in Nat /\ DOMAIN events = 1..n /\ \A i \in 1..n : events[i] \in Events
    BY AskedIs, Zenon
  <2> QED BY <1>2, <2>1, AskedPresentable
<1> HIDE DEF add, n
<1>5. d.ok
  BY <1>1, Zenon DEF Accepted, add
<1>6. ASSUME NEW r \in d.add PROVE IsEntry(r)
  <2>1. Recorded(rows, clock) /\ Readable(rows)
    BY RowsRecorded, RowsReadable
  <2> QED BY <1>3, <1>4, <1>5, <1>6, <2>1, ImportColumns
<1>7. Accepted(d)
  BY <1>1, Zenon DEF add
<1> HIDE DEF d
<1> QED BY <1>6, <1>7, Zenon DEF TellsIn

LEMMA ColumnsStep ==
  ASSUME TypeOK, PairedTable, JournalsReplay, ColumnsHold, [Next]_vars
  PROVE  ColumnsHold'
<1>1. CASE TellsIn
  <2>1. PICK d : Accepted(d) /\ \A r \in d.add : IsEntry(r)
    BY <1>1, Zenon DEF TellsIn
  <2>2. rows' = (rows \ d.remove) \cup d.add
    BY <2>1 DEF Accepted, After
  <2> QED BY <2>1, <2>2 DEF ColumnsHold
<1>2. CASE DoArchive(Closable)
  BY <1>2, Zenon DEF DoArchive, ColumnsHold
<1>3. CASE UNCHANGED vars
  BY <1>3, Zenon DEF vars, ColumnsHold
<1> QED
  BY <1>1, <1>2, <1>3, CreatesTell, UpdateTells, DeleteTells, TransferTells, MoneyTransferTells,
     ArrivalTells, StatePurchasesTell, ExchangeTells, SpinoffTells, ImportsTell DEF Next

LEMMA ColumnsAlwaysHold ==
  ASSUME AppAhead = 0
  PROVE  Spec => [](TypeOK /\ PairedTable /\ JournalsReplay /\ ColumnsHold)
<1>1. Init => PairedTable /\ ColumnsHold
  BY DEF Init, PairedTable, OwnIds, AllPaired, Unique, ColumnsHold
<1>2. TypeOK /\ PairedTable /\ [Next]_vars => PairedTable'
  BY PairedStep
<1>3. TypeOK /\ PairedTable /\ JournalsReplay /\ ColumnsHold /\ [Next]_vars => ColumnsHold'
  BY ColumnsStep
<1> QED BY <1>1, <1>2, <1>3, TypeCorrect, JournalsAlwaysReplay, PTL DEF Spec


-----------------------------------------------------------------------------
(* The lots an account holds. *)

\* An account's journal, folded step by step.
Folding(a, O, b) ==
  /\ O = JournalOf(rows, a) /\ Daily(O) /\ BookChain(O, b) /\ Book(a) = b[Len(O)]

LEMMA AccountFolds ==
  ASSUME TypeOK, PairedTable, JournalsReplay, ColumnsHold, NEW a \in Accounts
  PROVE  \E O, b : Folding(a, O, b)
<1> DEFINE S == RowsOf(rows, a)
           O == JournalOf(rows, a)
<1>1. Readable(S)
  <2>1. S \in SUBSET rows
    BY DEF RowsOf
  <2> QED BY <2>1, RowsReadable, ReadableRows
<1>2. Daily(O) /\ Replays(O)
  BY <1>1, ReadsDaily DEF JournalsReplay, AccountReplays, JournalOf
<1>3. Book(a) = Compute(O).pos
  BY DEF Book
<1> HIDE DEF O
<1>4. PICK b : BookChain(O, b) /\ Compute(O).pos = b[Len(O)]
  BY <1>2, JournalFolds
<1> QED BY <1>2, <1>3, <1>4 DEF Folding, O

LEMMA HeldAre ==
  ASSUME NEW a, NEW O, NEW b, Folding(a, O, b), NEW pos \in Positions(a)
  PROVE  \E x \in DOMAIN Book(a), d \in Nat : pos = <<x, Book(a)[x]>> /\ IsPosition(Book(a)[x], d)
<1>1. PICK x \in DOMAIN Book(a) : pos = <<x, Book(a)[x]>>
  BY Zenon DEF Positions
<1>2. Len(O) \in 0..Len(O) /\ Len(O) \in Nat
  BY DEF Folding, Daily
<1>3. DayAt(O, Len(O)) \in Nat
  BY <1>2, DaysAre DEF Folding
<1>4. IsBook(Book(a), DayAt(O, Len(O)))
  BY <1>2 DEF Folding, BookChain
<1> QED BY <1>1, <1>3, <1>4 DEF IsBook

LEMMA QueuesAreSound ==
  ASSUME TypeOK, PairedTable, JournalsReplay, ColumnsHold
  PROVE  QueueSound
<1> SUFFICES ASSUME NEW a \in Accounts, NEW pos \in Positions(a)
             PROVE  LET p == pos[2]
                    IN /\ LotsUnits(p.lots) = p.qty /\ LotsCost(p.lots) = p.cost
                       /\ \A i \in DOMAIN p.lots :
                            /\ p.lots[i].qty >= 0 /\ p.lots[i].cost >= 0
                            /\ i > 1 => p.lots[i - 1].day <= p.lots[i].day
  BY Zenon DEF QueueSound
<1>1. PICK O, b : Folding(a, O, b)
  BY AccountFolds
<1>2. PICK d \in Nat : IsPosition(pos[2], d)
  BY <1>1, HeldAre
<1> DEFINE p == pos[2]
<1> HIDE DEF p
<1>3. /\ LotsUnits(p.lots) = p.qty /\ LotsCost(p.lots) = p.cost /\ InOrder(p.lots)
      /\ DOMAIN p.lots = 1..Len(p.lots) /\ Len(p.lots) \in Nat
      /\ \A i \in 1..Len(p.lots) : p.lots[i].qty \in Nat /\ p.lots[i].cost \in Nat
  BY <1>2, SoundIs DEF p
<1>4. ASSUME NEW i \in DOMAIN p.lots
      PROVE  /\ p.lots[i].qty >= 0 /\ p.lots[i].cost >= 0
             /\ i > 1 => p.lots[i - 1].day <= p.lots[i].day
  <2>1. i \in 1..Len(p.lots) /\ (i > 1 => i \in 2..Len(p.lots))
    BY <1>3
  <2>2. i > 1 => p.lots[i - 1].day <= p.lots[i].day
    BY <1>3, <2>1 DEF InOrder
  <2>3. p.lots[i].qty \in Nat /\ p.lots[i].cost \in Nat
    BY <1>3, <2>1
  <2> QED BY <2>2, <2>3
<1> QED BY <1>3, <1>4 DEF p

\* No two rows of an account number their lots alike.
LEMMA OriginsAreOwn ==
  ASSUME TypeOK, PairedTable, ColumnsHold, NEW a
  PROVE  /\ OwnOrigins(JournalOf(rows, a))
         /\ \A i \in 1..Len(JournalOf(rows, a)) : JournalOf(rows, a)[i] \in RowsOf(rows, a)
<1> DEFINE S == RowsOf(rows, a)
           O == JournalOf(rows, a)
<1>1. Readable(S)
  <2>1. S \in SUBSET rows
    BY DEF RowsOf
  <2> QED BY <2>1, RowsReadable, ReadableRows
<1>2. /\ \A i \in 1..Len(O) : O[i] \in S
      /\ \A i, j \in 1..Len(O) : O[i] = O[j] => i = j
  BY <1>1, ReadsDaily DEF JournalOf
<1> HIDE DEF O
<1>3. \A r \in S : r \in rows /\ r.acct = a
  BY DEF RowsOf
<1> HIDE DEF S
<1>4. ASSUME NEW r \in rows PROVE LotOrigin(r) # 0
  <2>1. r.id \in 1..clock /\ clock \in Nat
    BY TableIs
  <2>2. r.ext \in Nat
    BY RecordsAre DEF PairedTable, Regular
  <2> QED BY <2>1, <2>2 DEF LotOrigin
<1>5. ASSUME NEW i \in 1..Len(O), NEW j \in 1..Len(O), LotOrigin(O[i]) = LotOrigin(O[j])
      PROVE  i = j
  <2>1. O[i] \in rows /\ O[j] \in rows /\ SameOrigin(O[i], O[j])
    BY <1>2, <1>3, <1>5 DEF SameOrigin
  <2> QED BY <1>2, <2>1, OneOrigin
<1>6. OwnOrigins(O)
  BY <1>2, <1>3, <1>4, <1>5 DEF OwnOrigins
<1> QED BY <1>2, <1>6 DEF O, S

LEMMA LotsAreTraced ==
  ASSUME TypeOK, PairedTable, JournalsReplay, ColumnsHold
  PROVE  LotsTraced
<1>1. ASSUME NEW a \in Accounts
      PROVE  LET OwnNumbers(held) == \A x, y \in held : x.lot = y.lot => x = y
                 Brought(x) ==
                   \E r \in RowsOf(rows, a) :
                     /\ LotOrigin(r) = x.lot[1] /\ r.paper = x.paper
                     /\ r.typ \in Arrivals \cup {"buy"}
                     /\ x.lot[2] \in 0..Len(r.lots)
                 Places(pos) == {[paper |-> pos[1], at |-> i, lot |-> pos[2].lots[i].lot] :
                                   i \in DOMAIN pos[2].lots}
                 held == UNION {Places(pos) : pos \in Positions(a)}
             IN OwnNumbers(held) /\ \A x \in held : Brought(x)
  <2>1. PICK O, b : Folding(a, O, b)
    BY AccountFolds
  <2>2. /\ OwnOrigins(O) /\ \A i \in 1..Len(O) : O[i] \in RowsOf(rows, a)
    BY <2>1, OriginsAreOwn DEF Folding
  <2> DEFINE n == Len(O)
             bk == Book(a)
             Places(pos) == {[paper |-> pos[1], at |-> i, lot |-> pos[2].lots[i].lot] :
                               i \in DOMAIN pos[2].lots}
             held == UNION {Places(pos) : pos \in Positions(a)}
             Stands(x, z, i) == /\ z \in DOMAIN bk /\ i \in DOMAIN bk[z].lots
                                /\ x = [paper |-> z, at |-> i, lot |-> bk[z].lots[i].lot]
  <2>3. \A z \in DOMAIN bk : NumberedBy(bk[z].lots, GivenTo(O, n, z))
    BY <2>1, <2>2, LotsNumbered DEF Folding
  <2>4. \A x \in held : \E z, i : Stands(x, z, i)
    <3> TAKE x \in held
    <3>1. PICK pos \in Positions(a) : x \in Places(pos)
      OBVIOUS
    <3>2. PICK z \in DOMAIN bk : pos = <<z, bk[z]>>
      BY Zenon DEF Positions
    <3>3. pos[1] = z /\ pos[2] = bk[z]
      BY <3>2
    <3> HIDE DEF bk
    <3>4. PICK i \in DOMAIN bk[z].lots : x = [paper |-> z, at |-> i, lot |-> bk[z].lots[i].lot]
      BY <3>1, <3>3
    <3> QED BY <3>2, <3>4
  <2> HIDE DEF bk, n, held
  <2>5. ASSUME NEW x, NEW z, NEW i, Stands(x, z, i)
        PROVE  \E k \in 1..n : /\ O[k].paper = z /\ LotOrigin(O[k]) = x.lot[1] /\ x.paper = z
                               /\ O[k].typ \in Arrivals \cup {"buy"}
                               /\ x.lot[2] \in 0..Len(O[k].lots)
    <3> DEFINE m == bk[z].lots[i].lot
    <3>1. x.lot = m /\ x.paper = z
      BY <2>5
    <3>2. m \in GivenTo(O, n, z)
      BY <2>3, <2>5 DEF NumberedBy
    <3> HIDE DEF m
    <3>3. PICK k \in 1..n : O[k].paper = z /\ m \in NumbersOf(O[k])
      BY <3>2 DEF GivenTo
    <3>4. LotOrigin(O[k]) # 0
      BY <2>2, <3>3 DEF OwnOrigins, n
    <3>5. /\ O[k].typ \in Arrivals \cup {"buy"} /\ m[1] = LotOrigin(O[k])
          /\ m[2] \in 0..Len(O[k].lots)
      BY <3>3, <3>4, NumberGiven
    <3> QED BY <3>1, <3>3, <3>5
  <2>6. ASSUME NEW x \in held, NEW y \in held, x.lot = y.lot PROVE x = y
    <3>1. PICK z, i : Stands(x, z, i)
      BY <2>4
    <3>2. PICK w, j : Stands(y, w, j)
      BY <2>4
    <3>3. PICK k \in 1..n : O[k].paper = z /\ LotOrigin(O[k]) = x.lot[1]
      BY <2>5, <3>1
    <3>4. PICK l \in 1..n : O[l].paper = w /\ LotOrigin(O[l]) = y.lot[1]
      BY <2>5, <3>2
    <3>5. k = l
      BY <2>2, <2>6, <3>3, <3>4 DEF OwnOrigins, n
    <3>6. z = w
      BY <3>3, <3>4, <3>5
    <3>7. bk[z].lots[i].lot = bk[z].lots[j].lot
      BY <2>6, <3>1, <3>2, <3>6
    <3>8. i = j
      BY <2>3, <3>1, <3>2, <3>6, <3>7 DEF NumberedBy
    <3> QED BY <3>1, <3>2, <3>6, <3>8
  <2>7. ASSUME NEW x \in held
        PROVE  \E r \in RowsOf(rows, a) : /\ LotOrigin(r) = x.lot[1] /\ r.paper = x.paper
                                          /\ r.typ \in Arrivals \cup {"buy"}
                                          /\ x.lot[2] \in 0..Len(r.lots)
    <3>1. PICK z, i : Stands(x, z, i)
      BY <2>4
    <3> HIDE DEF Stands
    <3>2. PICK k \in 1..n : /\ O[k].paper = z /\ LotOrigin(O[k]) = x.lot[1] /\ x.paper = z
                            /\ O[k].typ \in Arrivals \cup {"buy"}
                            /\ x.lot[2] \in 0..Len(O[k].lots)
      BY <2>5, <3>1
    <3>3. O[k] \in RowsOf(rows, a)
      BY <2>2, <3>2 DEF n
    <3> QED BY <3>2, <3>3
  <2> QED BY <2>6, <2>7 DEF held
<1> QED BY <1>1, Zenon DEF LotsTraced

\* Every position an account holds is a queue of lots that add up to it, oldest
\* first, each under a number of its own that names the row it came by.
THEOREM LotsAlwaysSound ==
  ASSUME AppAhead = 0
  PROVE  Spec => []LotsSound
<1>1. TypeOK /\ PairedTable /\ JournalsReplay /\ ColumnsHold => LotsSound
  BY QueuesAreSound, LotsAreTraced DEF LotsSound
<1> QED BY <1>1, ColumnsAlwaysHold, PTL

-----------------------------------------------------------------------------
(* Legs of a pair, and rows that stand alone. *)

\* Every row of the table is part of a move or an event of its own kind, or says
\* what leaves.
PartsHold == \A r \in rows : Parted(r)

\* A delta accepted that puts in only such rows.
PartsIn == \E d : Accepted(d) /\ \A r \in d.add : Parted(r)

LEMMA EntryParts ==
  ASSUME NEW STATE d, NEW t, ByHand(d, t) \/ Applied(d, t), d.ok => \A r \in d.add : Parted(r)
  PROVE  PartsIn
<1>1. Accepted(d)
  BY Zenon DEF ByHand, Applied
<1>2. d.ok
  BY <1>1, Zenon DEF Accepted
<1> QED BY <1>1, <1>2, Zenon DEF PartsIn

\* What carries no basis is no part of anything.
LEMMA PlainParted ==
  ASSUME NEW op, ~CarriesBasis(op), NEW r, r.typ = op.typ
  PROVE  Parted(r)
BY DEF CarriesBasis, TransferLeg, CorporateLeg, Parted

\* A row stored is told as it was asked for.
LEMMA StoredKeeps ==
  ASSUME NEW legs, \A i \in DOMAIN legs : IsRow(legs[i]), NEW c, NEW r \in Stored(c, legs)
  PROVE  \E i \in DOMAIN legs : r.typ = legs[i].typ /\ r.group = legs[i].group
<1>1. PICK i \in DOMAIN legs : r = [legs[i] EXCEPT !.id = c + i, !.stamp = c + i]
  BY DEF Stored
<1> DEFINE y == legs[i]
           k == c + i
<1>2. IsRow(y) /\ r = [y EXCEPT !.id = k, !.stamp = k]
  BY <1>1
<1> HIDE DEF y, k
<1>3. {"typ", "group", "id", "stamp"} \subseteq DOMAIN y
  BY <1>2, RowHasColumns DEF RowColumns
<1>4. r.typ = y.typ /\ r.group = y.group
  BY <1>2, <1>3, ZenonT(30)
<1> QED BY <1>4 DEF y

\* The legs of a pair are of its group.
LEMMA PairGrouped ==
  ASSUME NEW c \in Nat, NEW out, IsRow(out), NEW in, IsRow(in), NEW r \in Stored(c, Pair(c, out, in))
  PROVE  Parted(r)
<1> DEFINE k == c + 1
           o == [out EXCEPT !.group = k]
           i == [in EXCEPT !.group = k]
           legs == <<o, i>>
<1>1. Pair(c, out, in) = legs
  BY DEF Pair
<1>2. k # 0
  OBVIOUS
<1> HIDE DEF k
<1>3. IsRow(o) /\ o.group = k
  <2>1. "group" \in DOMAIN out
    BY RowHasColumns DEF RowColumns
  <2> QED BY <2>1, Zenon DEF IsRow
<1>4. IsRow(i) /\ i.group = k
  <2>1. "group" \in DOMAIN in
    BY RowHasColumns DEF RowColumns
  <2> QED BY <2>1, Zenon DEF IsRow
<1> HIDE DEF o, i
<1>5. \A j \in DOMAIN legs : IsRow(legs[j]) /\ legs[j].group = k
  BY <1>3, <1>4
<1> HIDE DEF legs
<1>6. \E j \in DOMAIN legs : r.typ = legs[j].typ /\ r.group = legs[j].group
  BY <1>1, <1>5, StoredKeeps
<1> QED BY <1>2, <1>5, <1>6 DEF Parted

\* Create, CreateReplacing.
LEMMA CreatesPart ==
  ASSUME DoCreate(HandRows) \/ DoReplace(HandRows)
  PROVE  PartsIn
<1>1. PICK op \in HandRows, replace \in SUBSET rows :
         ByHand(CreateReplacing(rows, clock, op, replace), 1)
  <2>1. CASE DoCreate(HandRows)
    BY <2>1, Zenon DEF DoCreate, Create
  <2>2. CASE DoReplace(HandRows)
    BY <2>2, Zenon DEF DoReplace
  <2> QED BY <2>1, <2>2, Zenon
<1> DEFINE legs == <<op>>
           d == CreateReplacing(rows, clock, op, replace)
<1>2. IsRow(op)
  BY RequestsAssumption
<1>3. \A i \in DOMAIN legs : IsRow(legs[i]) /\ legs[i] = op
  BY <1>2
<1>4. d.add = Stored(clock, legs) /\ (d.ok => ValidHand(op))
  BY Zenon DEF CreateReplacing, HandDelta
<1> HIDE DEF legs, d
<1>5. ASSUME d.ok, NEW r \in d.add PROVE Parted(r)
  <2>1. \E i \in DOMAIN legs : r.typ = legs[i].typ /\ r.group = legs[i].group
    BY <1>3, <1>4, StoredKeeps
  <2>2. r.typ = op.typ
    BY <1>3, <2>1
  <2>3. ~CarriesBasis(op)
    BY <1>4, <1>5 DEF ValidHand
  <2> QED BY <2>2, <2>3, PlainParted
<1> QED BY <1>1, <1>5, EntryParts DEF d

\* CreateArrival.
LEMMA ArrivalParts ==
  ASSUME DoArrival(ArrivalsAsked)
  PROVE  PartsIn
<1>1. PICK p \in ArrivalsAsked : ByHand(CreateArrival(rows, clock, p), 1)
  BY Zenon DEF DoArrival
<1> DEFINE d == CreateArrival(rows, clock, p)
           cost == LotsCost(p.pieces)
           op == [Blank EXCEPT !.acct = p.acct, !.typ = "transfer_in", !.paper = p.paper,
                    !.day = p.day, !.qty = p.qty, !.cur = p.cur, !.lots = p.pieces,
                    !.amount = cost]
           legs == <<op>>
<1>2. d.add = Stored(clock, legs)
  BY Zenon DEF CreateArrival, HandDelta
<1> HIDE DEF cost
<1>3. IsRow(op) /\ op.typ = "transfer_in"
  BY BlankIs, ZenonT(30) DEF IsRow, RowColumns
<1> HIDE DEF op
<1>4. \A i \in DOMAIN legs : IsRow(legs[i]) /\ legs[i].typ = "transfer_in"
  BY <1>3
<1> HIDE DEF legs, d
<1>5. ASSUME NEW r \in d.add PROVE Parted(r)
  <2>1. \E i \in DOMAIN legs : r.typ = legs[i].typ /\ r.group = legs[i].group
    BY <1>2, <1>4, <1>5, StoredKeeps
  <2> QED BY <1>4, <2>1 DEF Parted, CorporateLeg
<1> QED BY <1>1, <1>5, EntryParts DEF d

\* Update.
LEMMA UpdateParts ==
  ASSUME DoUpdate(HandRows)
  PROVE  PartsIn
<1>1. PICK old \in rows, op \in HandRows : ByHand(Update(rows, old, op), 0)
  BY Zenon DEF DoUpdate, InPlace
<1> DEFINE d == Update(rows, old, op)
           x == AsEdited(old, op)
           s == [x EXCEPT !.ext = old.ext]
<1>2. d.add = {s} /\ (d.ok => ValidHand(op))
  BY Zenon DEF Update, RestateDelta
<1>3. IsRow(op)
  BY RequestsAssumption
<1>4. RowColumns \subseteq DOMAIN op
  BY <1>3, RowHasColumns
<1>5. DOMAIN x = DOMAIN op /\ x.typ = op.typ
  BY <1>4, ZenonT(30) DEF AsEdited, RowColumns
<1> HIDE DEF x
<1>6. s.typ = op.typ
  BY <1>4, <1>5, ZenonT(30) DEF RowColumns
<1> HIDE DEF s, d
<1>7. ASSUME d.ok, NEW r \in d.add PROVE Parted(r)
  <2>1. ~CarriesBasis(op) /\ r.typ = op.typ
    BY <1>2, <1>6, <1>7 DEF ValidHand
  <2> QED BY <2>1, PlainParted
<1> QED BY <1>1, <1>7, EntryParts DEF d

\* Delete.
LEMMA DeleteParts ==
  ASSUME DoDelete
  PROVE  PartsIn
<1>1. PICK op \in rows : ByHand(Delete(rows, op), 0)
  BY Zenon DEF DoDelete, InPlace
<1>2. Delete(rows, op).add = {}
  BY Zenon DEF Delete, RestateDelta
<1>3. \A r \in Delete(rows, op).add : Parted(r)
  BY <1>2
<1> QED BY <1>1, <1>3, EntryParts

\* CreateTransfer.
LEMMA TransferParts ==
  ASSUME clock \in Nat, DoTransfer(Transfers)
  PROVE  PartsIn
<1>1. PICK p \in Transfers : ByHand(CreateTransfer(rows, clock, p), 2)
  BY Zenon DEF DoTransfer
<1> DEFINE d == CreateTransfer(rows, clock, p)
<1>2. \E cur, lots, amount, cond :
         LET legs == TransferLegs(p, cur, lots, amount)
         IN d = HandDelta(rows, clock, Pair(clock, legs.out, legs.in), {}, cond)
  BY Zenon DEF CreateTransfer
<1>3. PICK cur, lots, amount, cond :
         LET legs == TransferLegs(p, cur, lots, amount)
         IN d = HandDelta(rows, clock, Pair(clock, legs.out, legs.in), {}, cond)
  BY <1>2, Zenon
<1> DEFINE legs == TransferLegs(p, cur, lots, amount)
           o == legs.out
           i == legs.in
<1>4. IsRow(o)
  BY BlankIs, ZenonT(30) DEF TransferLegs, IsRow, RowColumns
<1>5. i = [o EXCEPT !.acct = p.to, !.typ = "transfer_in"]
  BY Zenon DEF TransferLegs
<1>6. d = HandDelta(rows, clock, Pair(clock, o, i), {}, cond)
  BY <1>3, Zenon
<1> HIDE DEF o, i, d
<1>9. d.add = Stored(clock, Pair(clock, o, i))
  BY <1>6, Zenon DEF HandDelta
<1>7. IsRow(i)
  BY <1>4, <1>5, Zenon DEF IsRow
<1>8. \A r \in d.add : Parted(r)
  BY <1>4, <1>7, <1>9, PairGrouped
<1> QED BY <1>1, <1>8, EntryParts DEF d

\* CreateMoneyTransfer.
LEMMA MoneyTransferParts ==
  ASSUME clock \in Nat, DoMoneyTransfer(MoneyTransfers)
  PROVE  PartsIn
<1>1. PICK p \in MoneyTransfers : ByHand(CreateMoneyTransfer(rows, clock, p), 2)
  BY Zenon DEF DoMoneyTransfer
<1> DEFINE d == CreateMoneyTransfer(rows, clock, p)
           out == [Blank EXCEPT !.acct = p.from, !.typ = "withdrawal", !.day = p.day,
                                !.amount = -p.amount, !.cur = p.cur]
           in  == [Blank EXCEPT !.acct = p.to, !.typ = "deposit", !.day = p.day,
                                !.amount = p.received, !.cur = p.receivedCur]
<1>2. d.add = Stored(clock, Pair(clock, out, in))
  BY Zenon DEF CreateMoneyTransfer, HandDelta
<1>3. IsRow(out) /\ IsRow(in)
  BY BlankIs, ZenonT(30) DEF IsRow, RowColumns
<1> HIDE DEF out, in, d
<1>4. \A r \in d.add : Parted(r)
  BY <1>2, <1>3, PairGrouped
<1> QED BY <1>1, <1>4, EntryParts DEF d

\* CreateExchange, CreateSpinoff.
LEMMA BuiltParts ==
  ASSUME clock \in Nat, NEW STATE b, b.ok => IsEntry(b.out) /\ IsEntry(b.in),
         Applied(CreatePair(rows, clock, b), 2)
  PROVE  PartsIn
<1> DEFINE d == CreatePair(rows, clock, b)
           out == b.out
           in == b.in
<1>1. d.add = Stored(clock, Pair(clock, out, in)) /\ (d.ok => b.ok)
  BY Zenon DEF CreatePair, HandDelta
<1> HIDE DEF d
<1>2. ASSUME d.ok, NEW r \in d.add PROVE Parted(r)
  <2>1. IsRow(out) /\ IsRow(in)
    BY <1>1, <1>2 DEF IsEntry
  <2> HIDE DEF out, in
  <2> QED BY <1>1, <1>2, <2>1, PairGrouped
<1> QED BY <1>2, EntryParts DEF d

LEMMA ExchangeParts ==
  ASSUME TypeOK, PairedTable, ColumnsHold, DoExchange(Exchanges)
  PROVE  PartsIn
<1>1. PICK p \in Exchanges : Applied(CreateExchange(rows, clock, p), 2)
  BY Zenon DEF DoExchange
<1> DEFINE b == BuildExchange(rows, p)
<1>2. Applied(CreatePair(rows, clock, b), 2)
  BY <1>1, Zenon DEF CreateExchange
<1>3. p.day \in Nat \ {0} /\ p.qty \in Int /\ p.toQty \in Int
  BY ColumnsAssumption
<1>4. b.ok => IsEntry(b.out) /\ IsEntry(b.in)
  BY <1>3, RowsReadable, ExchangeColumns
<1>5. clock \in Nat
  BY TableIs
<1> HIDE DEF b
<1> QED BY <1>2, <1>4, <1>5, BuiltParts

LEMMA SpinoffParts ==
  ASSUME TypeOK, PairedTable, ColumnsHold, DoSpinoff(Spinoffs)
  PROVE  PartsIn
<1>1. PICK p \in Spinoffs : Applied(CreateSpinoff(rows, clock, p), 2)
  BY Zenon DEF DoSpinoff
<1> DEFINE b == BuildSpinoff(rows, p)
<1>2. Applied(CreatePair(rows, clock, b), 2)
  BY <1>1, Zenon DEF CreateSpinoff
<1>3. /\ p.day \in Nat \ {0} /\ p.ratio \in (Nat \ {0}) \X (Nat \ {0})
      /\ p.share \in 0..(DivScale - 1)
  BY ColumnsAssumption
<1>4. b.ok => IsEntry(b.out) /\ IsEntry(b.in)
  BY <1>3, RowsReadable, SpinoffColumns
<1>5. clock \in Nat
  BY TableIs
<1> HIDE DEF b
<1> QED BY <1>2, <1>4, <1>5, BuiltParts

\* StatePurchases.
LEMMA StatePurchasesPart ==
  ASSUME TypeOK, PairedTable, ColumnsHold, JournalsReplay, DoStatePurchases(Statements)
  PROVE  PartsIn
<1>1. PICK op \in rows, pieces \in Statements :
         op.typ = "transfer_in" /\ ByHand(StatePurchases(rows, op, pieces), 0)
  BY Zenon DEF DoStatePurchases, InPlace
<1> DEFINE d == StatePurchases(rows, op, pieces)
           J == {r \in rows : r.acct \in OnwardAccounts(rows, op)}
           K == SettledBy(J, op, pieces)
<1>2. d.add = WithBreakdowns(J \ K, K) /\ (d.ok => op.group = 0)
  BY StatingIs
<1>3. J \subseteq rows /\ op \in J
  BY OwnAccountIsRead
<1>4. pieces \in Seq(PieceColumns)
  BY ColumnsAssumption
<1> HIDE DEF J, d
<1>5. ASSUME d.ok, NEW r \in d.add PROVE Parted(r)
  <2>1. RestatingEntries(J, op, K)
    BY <1>2, <1>3, <1>4, <1>5, SettledEntries
  <2> HIDE DEF K
  <2>2. PICK leg \in J \ K : r = WithBreakdown(leg, K)
    BY <1>2, <1>5 DEF WithBreakdowns
  <2>3. IsRow(leg) /\ \E x \in K : x.id = leg.id
    BY <1>3, <2>1, <2>2 DEF ColumnsHold, IsEntry, RestatingEntries, Restating
  <2>4. r.typ = leg.typ /\ r.group = leg.group
    <3> DEFINE w == WithBreakdown(leg, K)
    <3>1. IsRow(w) /\ Alike(w, leg) /\ w.id = leg.id /\ w.stamp = leg.stamp
          /\ \E x \in K : x.id = leg.id /\ w.lots = x.lots /\ w.amount = x.amount
      BY <2>3, BreakdownIs
    <3> QED BY <2>2, <3>1 DEF Alike
  <2>5. CASE leg = op
    BY <1>1, <2>4, <2>5 DEF Parted, CorporateLeg
  <2>6. CASE leg # op
    <3>1. MovedLeg(J, leg)
      BY <2>1, <2>2, <2>6 DEF RestatingEntries, Restating
    <3> QED BY <2>4, <3>1 DEF MovedLeg, Parted
  <2> QED BY <2>5, <2>6
<1> QED BY <1>1, <1>5, EntryParts DEF d

\* ApplyImportDelta.
LEMMA ImportsPart ==
  ASSUME TypeOK, PairedTable, ColumnsHold, DoImport(Events)
  PROVE  PartsIn
<1>1. PICK events \in AtMostTwo(Events), remove \in SUBSET {r \in rows : r.src # "manual"} :
         Accepted(ApplyImportDelta(rows, clock, Asked(events, remove), remove))
  BY Zenon DEF DoImport
<1> DEFINE add == Asked(events, remove)
           n == Len(events)
           d == ApplyImportDelta(rows, clock, add, remove)
<1>2. remove \in SUBSET rows
  BY <1>1
<1>3. Typed(add, n)
  BY <1>2, AskedTyped
<1>4. Presentable(add, rows, clock)
  <2>1. n \in Nat /\ DOMAIN events = 1..n /\ \A i \in 1..n : events[i] \in Events
    BY AskedIs, Zenon
  <2> QED BY <1>2, <2>1, AskedPresentable
<1> HIDE DEF add, n
<1>5. d.ok
  BY <1>1, Zenon DEF Accepted, add
<1>6. ASSUME NEW r \in d.add PROVE Parted(r)
  <2>1. Recorded(rows, clock) /\ Readable(rows)
    BY RowsRecorded, RowsReadable
  <2> QED BY <1>3, <1>4, <1>5, <1>6, <2>1, ImportParted
<1>7. Accepted(d)
  BY <1>1, Zenon DEF add
<1> HIDE DEF d
<1> QED BY <1>6, <1>7, Zenon DEF PartsIn

LEMMA PartsStep ==
  ASSUME TypeOK, PairedTable, JournalsReplay, ColumnsHold, PartsHold, [Next]_vars
  PROVE  PartsHold'
<1>1. CASE PartsIn
  <2>1. PICK d : Accepted(d) /\ \A r \in d.add : Parted(r)
    BY <1>1, Zenon DEF PartsIn
  <2>2. rows' = (rows \ d.remove) \cup d.add
    BY <2>1 DEF Accepted, After
  <2> QED BY <2>1, <2>2 DEF PartsHold
<1>2. CASE DoArchive(Closable)
  BY <1>2, Zenon DEF DoArchive, PartsHold
<1>3. CASE UNCHANGED vars
  BY <1>3, Zenon DEF vars, PartsHold
<1>4. clock \in Nat
  BY TableIs
<1> QED
  BY <1>1, <1>2, <1>3, <1>4, CreatesPart, UpdateParts, DeleteParts, TransferParts,
     MoneyTransferParts, ArrivalParts, StatePurchasesPart, ExchangeParts, SpinoffParts,
     ImportsPart DEF Next

-----------------------------------------------------------------------------
(* The cost of what the family holds. *)

\* A sum over a finite set, folded.
LEMMA SummedIs ==
  ASSUME NEW w, IsFiniteSet(DOMAIN w)
  PROVE  Summed(w) = SumOver(w, DOMAIN w)
<1> DEFINE S == DOMAIN w
           P(h) == h = [s \in SUBSET S |->
                     IF s = {} THEN 0
                     ELSE LET x == CHOOSE x \in s : TRUE IN w[x] + h[s \ {x}]]
           g == CHOOSE h : P(h)
<1>1. Summed(w) = g[S]
  BY Zenon DEF Summed, MapThenSumSet, MapThenFoldSet
<1>2. \A h : Sums(h, w, S) <=> P(h)
  BY Zenon DEF Sums, Chosen
<1>3. \E h : Sums(h, w, S)
  <2>1. Sums(CHOOSE h : Sums(h, w, S), w, S)
    BY SumsExist
  <2> QED BY <2>1, Zenon
<1> HIDE DEF P
<1>4. P(g)
  BY <1>2, <1>3, Zenon
<1>5. Sums(g, w, S)
  BY <1>2, <1>4, Zenon
<1> HIDE DEF g
<1>6. g[S] = SumOver(w, S)
  BY <1>5, SumOverIs
<1> QED BY <1>1, <1>6

\* What each row brings into the basis of its account less what it takes out.
Moved == [r \in rows |-> BasisBrought(r) - BasisSent(r)]

\* A move told with its pieces, whoever told it.
MovesTold == \A r \in rows : r.typ = "transfer_out" => r.lots # <<>>

LEMMA RowsMove ==
  ASSUME ColumnsHold
  PROVE  \A r \in rows : BasisBrought(r) \in Int /\ BasisSent(r) \in Int /\ Moved[r] \in Int
<1> SUFFICES ASSUME NEW r \in rows
             PROVE  BasisBrought(r) \in Int /\ BasisSent(r) \in Int /\ Moved[r] \in Int
  OBVIOUS
<1>1. r.amount \in Int /\ r.fee \in Int
  BY DEF ColumnsHold, IsEntry
<1>2. BasisBrought(r) \in Int /\ BasisSent(r) \in Int
  BY <1>1 DEF BasisBrought, BasisSent
<1> QED BY <1>2 DEF Moved

\* What an account holds and gave up is what its rows brought less what they
\* took away.
LEMMA AccountBalances ==
  ASSUME TypeOK, PairedTable, JournalsReplay, ColumnsHold, MovesTold, NEW a \in Accounts
  PROVE  Accounted(a) = SumOver(Moved, RowsOf(rows, a))
<1> DEFINE S == RowsOf(rows, a)
           n == Cardinality(S)
<1>1. PICK O, b : Folding(a, O, b)
  BY AccountFolds
<1>2. O = Sorted(S) /\ Daily(O) /\ BookChain(O, b) /\ Book(a) = b[Len(O)]
  BY <1>1 DEF Folding, JournalOf
<1>3. S \subseteq rows
  BY DEF RowsOf
<1> HIDE DEF S
<1>4. IsFiniteSet(S) /\ OwnIds(S) /\ \A r \in S : Placed(r)
  <2>1. OwnIds(rows) /\ IsFiniteSet(rows) /\ \A r \in rows : Placed(r)
    BY TableIs
  <2>2. IsFiniteSet(S)
    BY <1>3, <2>1, FS_Subset
  <2> QED BY <1>3, <2>1, <2>2 DEF OwnIds
<1>5. /\ Len(O) = n /\ n \in Nat
      /\ \A i \in 1..n : O[i] \in S
      /\ \A i, j \in 1..n : O[i] = O[j] => i = j
      /\ \A r \in S : \E i \in 1..n : O[i] = r
  BY <1>2, <1>4, SortedIs
<1> HIDE DEF n
<1> DEFINE w == [i \in 1..n |-> BasisBrought(O[i]) - BasisSent(O[i])]
<1>6. BookBasis(Book(a)) = SumOver(w, 1..n) /\ IsFiniteSet(DOMAIN Book(a))
  <2>1. \A i \in 1..Len(O) : O[i].typ = "transfer_out" => O[i].lots # <<>>
    BY <1>3, <1>5 DEF MovesTold
  <2>2. \A i \in 1..Len(O) : w[i] = BasisBrought(O[i]) - BasisSent(O[i])
    BY <1>5
  <2> HIDE DEF w
  <2>3. BookBasis(b[Len(O)]) = SumOver(w, 1..Len(O)) /\ IsFiniteSet(DOMAIN b[Len(O)])
    BY <1>2, <2>1, <2>2, ChainBasis
  <2> QED BY <1>2, <1>5, <2>3
<1>7. SumOver(w, 1..n) = SumOver(Moved, S)
  <2>1. \A i \in 1..n : w[i] = Moved[O[i]]
    BY <1>3, <1>5 DEF Moved
  <2>2. \A r \in S : Moved[r] \in Int
    BY <1>3, RowsMove
  <2>3. IsFiniteSet(1..n)
    BY <1>5, FS_Interval
  <2> DEFINE K == 1..n
  <2>4. /\ IsFiniteSet(K) /\ \A i \in K : w[i] = Moved[O[i]] /\ O[i] \in S
        /\ \A i, j \in K : O[i] = O[j] => i = j
        /\ \A r \in S : \E i \in K : O[i] = r
    BY <1>5, <2>1, <2>3
  <2> HIDE DEF w, K
  <2>5. SumOver(w, K) = SumOver(Moved, S)
    BY <1>4, <2>2, <2>4, SumCarried
  <2> QED BY <2>5 DEF K
<1>8. Accounted(a) = BookBasis(Book(a))
  <2> DEFINE book == Book(a)
             f == [paper \in DOMAIN book |-> book[paper].cost + Released(book[paper])]
  <2>1. Accounted(a) = Summed(f)
    BY Zenon DEF Accounted
  <2>2. f = KeptIn(book)
    BY Zenon DEF KeptIn, KeptBasis, Released, GivenUp
  <2>3. DOMAIN f = DOMAIN book
    OBVIOUS
  <2>4. IsFiniteSet(DOMAIN f)
    BY <1>6, <2>3
  <2> HIDE DEF f, book
  <2>5. Summed(f) = SumOver(f, DOMAIN f)
    BY <2>4, SummedIs
  <2>6. BookBasis(book) = SumOver(f, DOMAIN f)
    BY <2>2, <2>3 DEF BookBasis
  <2> QED BY <2>1, <2>5, <2>6 DEF book
<1> QED BY <1>6, <1>7, <1>8 DEF S

\* All accounts together.
LEMMA AccountsBalance ==
  ASSUME TypeOK, PairedTable, JournalsReplay, ColumnsHold, MovesTold
  PROVE  Summed([a \in Accounts |-> Accounted(a)]) = SumOver(Moved, rows)
<1> DEFINE t == [a \in Accounts |-> Accounted(a)]
           k == [r \in rows |-> r.acct]
<1>1. IsFiniteSet(rows) /\ IsFiniteSet(Accounts)
  BY TableIs, AccountsAssumption
<1>2. \A r \in rows : Moved[r] \in Int /\ k[r] \in Accounts
  BY RowsMove DEF TypeOK
<1>3. ASSUME NEW a \in Accounts PROVE t[a] = SumOver(Moved, {r \in rows : k[r] = a})
  <2>1. RowsOf(rows, a) = {r \in rows : k[r] = a}
    BY DEF RowsOf
  <2>2. t[a] = Accounted(a)
    BY <1>3
  <2> HIDE DEF t, k
  <2> QED BY <2>1, <2>2, AccountBalances
<1>4. DOMAIN t = Accounts
  OBVIOUS
<1> HIDE DEF t, k
<1>5. Classed(rows, Accounts, Moved, k, t)
  BY <1>1, <1>2, <1>3, Zenon DEF Classed
<1>6. SumOver(Moved, rows) = SumOver(t, Accounts)
  BY <1>5, SumClasses
<1>7. Summed(t) = SumOver(t, Accounts)
  BY <1>1, <1>4, SummedIs
<1> QED BY <1>6, <1>7 DEF t

-----------------------------------------------------------------------------
(* What is moved or converted is brought in as it was taken away. *)

\* What a leg of a pair adds to the basis of its account.
Shifted(r) ==
  IF r.group = 0 THEN 0
  ELSE IF r.typ \in Arrivals THEN r.amount
  ELSE IF r.typ \in Departures \cup {"spinoff_out"} THEN -r.amount ELSE 0

Shifts == [r \in rows |-> Shifted(r)]

\* The other leg of a row's pair; a row of no group stands for itself.
Mate(r) ==
  IF r.group = 0 THEN r ELSE CHOOSE s \in rows : s # r /\ s.group = r.group

LEMMA LegsCancel ==
  ASSUME NEW r, NEW s, OneParcel(r, s), OneParcel(s, r), r.group # 0, s.group # 0, r.amount \in Int,
         s.amount \in Int
  PROVE  Shifted(s) = -Shifted(r)
<1>1. CASE TransferLeg(r)
  <2>1. r.amount = s.amount /\ r.typ # s.typ /\ TransferLeg(s)
    BY <1>1 DEF OneParcel
  <2>2. \/ r.typ = "transfer_out" /\ s.typ = "transfer_in"
        \/ r.typ = "transfer_in" /\ s.typ = "transfer_out"
    BY <1>1, <2>1 DEF TransferLeg
  <2> QED BY <2>1, <2>2 DEF Shifted, Arrivals, Departures
<1>2. CASE CorporateLeg(r)
  <2>1. /\ r.amount = s.amount
        /\ {r.typ, s.typ} \in {{"exchange_out", "exchange_in"}, {"spinoff_out", "spinoff_in"}}
    BY <1>2 DEF OneParcel
  <2>2. \/ r.typ = "exchange_out" /\ s.typ = "exchange_in"
        \/ r.typ = "exchange_in" /\ s.typ = "exchange_out"
        \/ r.typ = "spinoff_out" /\ s.typ = "spinoff_in"
        \/ r.typ = "spinoff_in" /\ s.typ = "spinoff_out"
    BY <2>1
  <2> QED BY <2>1, <2>2 DEF Shifted, Arrivals, Departures
<1>3. CASE ~TransferLeg(r) /\ ~CorporateLeg(r)
  <2>1. ~TransferLeg(s)
    BY <1>3 DEF OneParcel
  <2>2. ~CorporateLeg(s)
    <3>1. SUFFICES ASSUME CorporateLeg(s) PROVE FALSE
      OBVIOUS
    <3>2. {s.typ, r.typ} \in {{"exchange_out", "exchange_in"}, {"spinoff_out", "spinoff_in"}}
      BY <3>1 DEF OneParcel
    <3>3. r.typ \in {s.typ, r.typ}
      OBVIOUS
    <3>4. CorporateLeg(r)
      BY <3>2, <3>3 DEF CorporateLeg
    <3> QED BY <1>3, <3>4
  <2>3. Shifted(r) = 0 /\ Shifted(s) = 0
    BY <1>3, <2>1, <2>2 DEF Shifted, Arrivals, Departures, TransferLeg, CorporateLeg
  <2>4. \A x \in Int : -x = 0 - x
    OBVIOUS
  <2>5. Shifted(r) \in Int /\ Shifted(s) = 0 - Shifted(r)
    BY <2>3
  <2> QED BY <2>4, <2>5, Zenon
<1> QED BY <1>1, <1>2, <1>3

LEMMA ShiftsCancel ==
  ASSUME TypeOK, PairedTable, ColumnsHold
  PROVE  SumOver(Shifts, rows) = 0
<1> DEFINE p == [r \in rows |-> Mate(r)]
<1>1. IsFiniteSet(rows) /\ AllPaired(rows)
  BY TableIs
<1>2. \A r \in rows : r.amount \in Int
  BY DEF ColumnsHold, IsEntry
<1>3. \A r \in rows : Shifts[r] \in Int
  BY <1>2 DEF Shifts, Shifted
<1>4. ASSUME NEW r \in rows
      PROVE  p[r] \in rows /\ p[p[r]] = r /\ Shifts[p[r]] = -Shifts[r]
  <2>1. CASE r.group = 0
    <3>1. p[r] = r
      BY <2>1 DEF Mate
    <3>2. Shifts[r] = 0
      BY <2>1 DEF Shifts, Shifted
    <3>3. \A x \in Int : -x = 0 - x
      OBVIOUS
    <3>4. Shifts[r] \in Int /\ Shifts[r] = 0 - Shifts[r]
      BY <3>2
    <3>5. Shifts[r] = -Shifts[r]
      BY <3>3, <3>4, Zenon
    <3> HIDE DEF p
    <3> QED BY <3>1, <3>5, Zenon
  <2>2. CASE r.group # 0
    <3>1. PICK s \in rows : /\ s # r /\ Legs(rows, r.group) = {r, s}
                            /\ OneParcel(r, s) /\ OneParcel(s, r)
      BY <1>1, <2>2, Zenon DEF AllPaired, Paired
    <3>2. s.group = r.group
      BY <3>1 DEF Legs
    <3>3. \A x \in rows : x.group = r.group => x \in {r, s}
      BY <2>2, <3>1 DEF Legs
    <3>4. Mate(r) = s
      <4>1. \A x \in rows : x # r /\ x.group = r.group <=> x = s
        BY <3>1, <3>2, <3>3
      <4> QED BY <2>2, <4>1 DEF Mate
    <3>5. Mate(s) = r
      <4>1. \A x \in rows : x # s /\ x.group = s.group <=> x = r
        BY <3>1, <3>2, <3>3
      <4> QED BY <2>2, <3>2, <4>1 DEF Mate
    <3>6. p[r] = s /\ p[s] = r
      BY <3>4, <3>5
    <3>7. Shifted(s) = -Shifted(r)
      BY <1>2, <2>2, <3>1, <3>2, LegsCancel
    <3>8. Shifts[s] = -Shifts[r]
      BY <3>7 DEF Shifts
    <3> HIDE DEF p
    <3> QED BY <3>6, <3>8
  <2> QED BY <2>1, <2>2
<1> HIDE DEF p
<1> QED BY <1>1, <1>3, <1>4, SumOfPairs

\* Rows of the table: what is brought less what is taken away is what was paid
\* less what left the family, and what a pair shifts.
LEMMA RowsWeigh ==
  ASSUME ColumnsHold, PartsHold, NEW r \in rows
  PROVE  /\ PaidFor(r) \in Int /\ SentAway(r) \in Int /\ Shifts[r] \in Int
         /\ Moved[r] = (PaidFor(r) - SentAway(r)) + Shifts[r]
<1>1. r.amount \in Int /\ r.fee \in Int /\ Parted(r)
  BY DEF ColumnsHold, IsEntry, PartsHold
<1>2. Shifts[r] = Shifted(r) /\ Moved[r] = BasisBrought(r) - BasisSent(r)
  BY DEF Shifts, Moved
<1>3. CASE r.group # 0
  <2>1. SentAway(r) = 0 /\ PaidFor(r) = IF r.typ = "buy" THEN r.fee - r.amount ELSE 0
    BY <1>3 DEF SentAway, PaidFor
  <2>2. Shifted(r) = IF r.typ \in Arrivals THEN r.amount
                     ELSE IF r.typ \in Departures \cup {"spinoff_out"} THEN -r.amount ELSE 0
    BY <1>3 DEF Shifted
  <2>3. CASE r.typ = "buy"
    <3>1. Shifted(r) = 0 /\ BasisSent(r) = 0 /\ BasisBrought(r) = r.fee - r.amount
      BY <2>2, <2>3 DEF BasisSent, BasisBrought, Arrivals, Departures
    <3> QED BY <1>1, <1>2, <2>1, <2>3, <3>1
  <2>4. CASE r.typ \in Arrivals
    <3>1. r.typ # "buy" /\ r.typ \notin Departures \cup {"spinoff_out"}
      BY <2>4 DEF Arrivals, Departures
    <3>2. BasisSent(r) = 0 /\ BasisBrought(r) = r.amount
      BY <2>4, <3>1 DEF BasisSent, BasisBrought
    <3> QED BY <1>1, <1>2, <2>1, <2>2, <2>4, <3>1, <3>2
  <2>5. CASE r.typ \in Departures \cup {"spinoff_out"}
    <3>1. r.typ # "buy" /\ r.typ \notin Arrivals
      BY <2>5 DEF Arrivals, Departures
    <3>2. BasisSent(r) = r.amount /\ BasisBrought(r) = 0
      BY <2>5, <3>1 DEF BasisSent, BasisBrought
    <3> QED BY <1>1, <1>2, <2>1, <2>2, <2>5, <3>1, <3>2
  <2>6. CASE r.typ # "buy" /\ r.typ \notin Arrivals /\ r.typ \notin Departures \cup {"spinoff_out"}
    <3>1. BasisSent(r) = 0 /\ BasisBrought(r) = 0
      BY <2>6 DEF BasisSent, BasisBrought
    <3> QED BY <1>1, <1>2, <2>1, <2>2, <2>6, <3>1
  <2> QED BY <2>3, <2>4, <2>5, <2>6
<1>4. CASE r.group = 0
  <2>1. ~CorporateLeg(r)
    BY <1>1, <1>4 DEF Parted
  <2> QED
    BY <1>1, <1>2, <1>4, <2>1
       DEF CorporateLeg, Shifted, PaidFor, SentAway, BasisBrought, BasisSent, Arrivals, Departures
<1> QED BY <1>3, <1>4

LEMMA TableBalances ==
  ASSUME TypeOK, PairedTable, ColumnsHold, PartsHold
  PROVE  SumOver(Moved, rows)
           = Summed([r \in rows |-> PaidFor(r)]) - Summed([r \in rows |-> SentAway(r)])
<1> DEFINE paid == [r \in rows |-> PaidFor(r)]
           sent == [r \in rows |-> SentAway(r)]
           net == [r \in rows |-> PaidFor(r) - SentAway(r)]
<1>1. IsFiniteSet(rows)
  BY TableIs
<1>2. \A r \in rows : /\ paid[r] \in Int /\ sent[r] \in Int /\ net[r] \in Int /\ Shifts[r] \in Int
                      /\ paid[r] = net[r] + sent[r] /\ Moved[r] = net[r] + Shifts[r]
  BY RowsWeigh
<1>3. DOMAIN paid = rows /\ DOMAIN sent = rows
  OBVIOUS
<1> HIDE DEF paid, sent, net
<1>4. SumOver(paid, rows) = SumOver(net, rows) + SumOver(sent, rows)
  BY <1>1, <1>2, SumAdds
<1>5. SumOver(Moved, rows) = SumOver(net, rows) + SumOver(Shifts, rows)
  BY <1>1, <1>2, SumAdds
<1>6. SumOver(Shifts, rows) = 0
  BY ShiftsCancel
<1>7. Summed(paid) = SumOver(paid, rows) /\ Summed(sent) = SumOver(sent, rows)
  BY <1>1, <1>3, SummedIs
<1>8. SumOver(net, rows) \in Int /\ SumOver(sent, rows) \in Int
  BY <1>1, <1>2, SumTaken
<1>9. SumOver(Moved, rows) = SumOver(paid, rows) - SumOver(sent, rows)
  BY <1>4, <1>5, <1>6, <1>8
<1>10. SumOver(Moved, rows) = Summed(paid) - Summed(sent)
  BY <1>7, <1>9
<1> QED BY <1>10 DEF paid, sent

LEMMA BasisIsConserved ==
  ASSUME TypeOK, PairedTable, JournalsReplay, ColumnsHold, PartsHold
  PROVE  BasisConserved
<1> SUFFICES ASSUME \A r \in rows : r.typ = "transfer_out" /\ r.group # 0 => r.lots # <<>>
             PROVE  Summed([a \in Accounts |-> Accounted(a)])
                      = Summed([r \in rows |-> PaidFor(r)]) - Summed([r \in rows |-> SentAway(r)])
  BY Zenon DEF BasisConserved
<1>1. MovesTold
  BY DEF MovesTold, PartsHold, Parted
<1> QED BY <1>1, AccountsBalance, TableBalances

\* While the database clock reads no earlier than the process's, what the
\* family paid for its papers is held, was given up by a disposal, or left the
\* family, whatever is entered, imported, restated or deleted, in whatever
\* order, as long as every move between its accounts carries its breakdown
\* (BasisConserved; #60).
THEOREM BasisAlwaysConserved ==
  ASSUME AppAhead = 0
  PROVE  Spec => []BasisConserved
<1>1. Init => PartsHold
  BY DEF Init, PartsHold
<1>2. TypeOK /\ PairedTable /\ JournalsReplay /\ ColumnsHold /\ PartsHold /\ [Next]_vars => PartsHold'
  BY PartsStep
<1>3. TypeOK /\ PairedTable /\ JournalsReplay /\ ColumnsHold /\ PartsHold => BasisConserved
  BY BasisIsConserved
<1> QED BY <1>1, <1>2, <1>3, ColumnsAlwaysHold, PTL DEF Spec

-----------------------------------------------------------------------------
(* What a delta may do to rows others are reading. *)

\* A row of the table restated in place, or a new one of no group there was.
Continues(some, c, x) ==
  \/ \E y \in some : InPlaceOf(x, y) /\ x.group = y.group
  \/ x.id > c /\ x.group \notin 1..c

\* The pairs of hand rows are named by the database.
HandGroups(some, c) == \A r \in some : OwnedByHand(r) => r.group \in 0..c

\* A delta of t new rows on some accounts of the table.
Lawful(d, t, accts) ==
  /\ AcctsOf(d.remove \cup d.add) \subseteq accts
  /\ d.remove \subseteq rows
  /\ Recorded(d.add, clock + t)
  /\ HandGroups(d.add, clock + t)
  /\ OwnIds(d.add)
  /\ \A x \in d.add : Continues(rows, clock, x)
  /\ \A x \in d.add, y \in rows \ d.remove : x.id # y.id

Numbered == TypeOK /\ HandGroups(rows, clock) /\ OwnIds(rows)

LEMMA ClockIsNat ==
  ASSUME TypeOK
  PROVE  /\ clock \in Nat /\ 1..clock \subseteq 1..MaxClock
         /\ Recorded(rows, clock)
BY RequestsAssumption DEF TypeOK, Recorded

\* The rows of a hand entry: new ones, of no group or of their own.
LEMMA HandIsLawful ==
  ASSUME Numbered, NEW some, NEW legs, NEW n, Legible(legs, n), NEW cond, NEW accts,
         \A i \in 1..n : /\ legs[i].acct \in accts
                         /\ legs[i].group \in {0, clock + 1}
  PROVE  Lawful(HandDelta(some, clock, legs, {}, cond), n, accts)
<1> DEFINE At(i) == [legs[i] EXCEPT !.id = clock + i, !.stamp = clock + i]
           new == Stored(clock, legs)
           d == HandDelta(some, clock, legs, {}, cond)
<1>1. d.remove = {} /\ d.add = new
  BY DEF HandDelta
<1>2. clock \in Nat /\ n \in Nat /\ \A r \in rows : r.id \in 1..clock
  BY ClockIsNat, Zenon DEF Numbered, TypeOK, Legible
<1>3. \A i \in 1..n : /\ At(i).id = clock + i /\ At(i).acct = legs[i].acct
                      /\ At(i).group = legs[i].group
  <2> TAKE i \in 1..n
  <2>1. {"id", "stamp", "acct", "group"} \subseteq DOMAIN legs[i]
    BY RowFields, Zenon DEF Legible
  <2> QED BY <2>1, Zenon
<1>4. new = {At(i) : i \in 1..n}
  BY Zenon DEF Stored, Legible
<1>5. Recorded(new, clock + n)
  BY <1>2, HandRecorded, Zenon
<1> HIDE DEF At, new
<1>6. \A x \in new : /\ x.id > clock /\ x.acct \in accts
                     /\ x.group \in {0, clock + 1} /\ n # 0
  BY <1>2, <1>3, <1>4
<1>7. \A x \in new : Continues(rows, clock, x)
  BY <1>2, <1>6 DEF Continues
<1>8. HandGroups(new, clock + n)
  BY <1>2, <1>6 DEF HandGroups
<1>9. OwnIds(new)
  BY <1>2, <1>3, <1>4 DEF OwnIds
<1>10. \A x \in new, y \in rows : x.id # y.id
  BY <1>2, <1>6
<1>11. AcctsOf({} \cup new) \subseteq accts
  BY <1>6, Zenon DEF AcctsOf
<1> HIDE DEF d
<1>12. Lawful(d, n, accts)
  BY <1>1, <1>5, <1>7, <1>8, <1>9, <1>10, <1>11, Zenon DEF Lawful
<1> QED BY <1>12 DEF d

\* Rows rewritten in place keep their account, their number and their group.
LEMMA RestatedIsLawful ==
  ASSUME Numbered, NEW some, NEW old, old \subseteq rows, NEW settled, NEW cond,
         NEW accts, AcctsOf(old) \subseteq accts
  PROVE  Lawful(RestateDelta(some, old, WithBreakdowns(old, settled), cond), 0, accts)
<1> DEFINE new == WithBreakdowns(old, settled)
           d == RestateDelta(some, old, new, cond)
<1>1. d.remove = old /\ d.add = new
  BY DEF RestateDelta
<1>2. clock \in Nat /\ Recorded(old, clock) /\ clock + 0 = clock
  BY ClockIsNat DEF Numbered, Recorded
<1>3. \A r \in old : /\ WithBreakdown(r, settled).id = r.id
                     /\ WithBreakdown(r, settled).acct = r.acct
                     /\ WithBreakdown(r, settled).group = r.group
                     /\ WithBreakdown(r, settled).src = r.src
                     /\ InPlaceOf(WithBreakdown(r, settled), r)
  <2> TAKE r \in old
  <2>1. {"id", "acct", "group", "src", "ext", "stamp", "amount", "lots"} \subseteq DOMAIN r
    BY <1>2, RowHasColumns, Zenon DEF Recorded, RowColumns
  <2> QED BY <2>1, Zenon DEF WithBreakdown, InPlaceOf
<1>4. \A x \in new : \E r \in old : x = WithBreakdown(r, settled)
  BY Zenon DEF WithBreakdowns
<1>5. Recorded(new, clock)
  BY <1>2, BreakdownsRecorded, Zenon
<1> HIDE DEF new
<1>6. HandGroups(new, clock)
  BY <1>3, <1>4, ZenonT(90) DEF HandGroups, Numbered, OwnedByHand
<1>7. OwnIds(new)
  BY <1>3, <1>4 DEF OwnIds, Numbered
<1>8. \A x \in new : Continues(rows, clock, x)
  BY <1>3, <1>4, ZenonT(30) DEF Continues
<1>9. \A x \in new, y \in rows \ old : x.id # y.id
  BY <1>3, <1>4 DEF OwnIds, Numbered
<1>10. AcctsOf(old \cup new) \subseteq accts
  BY <1>3, <1>4 DEF AcctsOf
<1> HIDE DEF d
<1>11. Lawful(d, 0, accts)
  BY <1>1, <1>2, <1>5, <1>6, <1>7, <1>8, <1>9, <1>10, Zenon DEF Lawful
<1> QED BY <1>11, Zenon DEF d, new

LEMMA RemovalIsLawful ==
  ASSUME Numbered, NEW some, NEW old, old \subseteq rows, NEW cond,
         NEW accts, AcctsOf(old) \subseteq accts
  PROVE  Lawful(RestateDelta(some, old, {}, cond), 0, accts)
<1> DEFINE d == RestateDelta(some, old, {}, cond)
<1>1. d.remove = old /\ d.add = {}
  BY DEF RestateDelta
<1>2. clock \in Nat /\ clock + 0 = clock
  BY ClockIsNat DEF Numbered
<1>3. old \cup {} = old
  OBVIOUS
<1> HIDE DEF d
<1>4. Lawful(d, 0, accts)
  BY <1>1, <1>2, <1>3, Zenon DEF Lawful, Recorded, HandGroups, OwnIds
<1> QED BY <1>4, Zenon DEF d

\* What an importer may hand over: rows of the accounts it names, in groups of
\* its own naming.
Reportable(add, accts) ==
  /\ Len(add) \in {0, 1}
  /\ \A i \in DOMAIN add : \A k \in DOMAIN add[i] :
       /\ add[i][k].acct \in accts
       /\ add[i][k].group \notin 1..MaxClock
       /\ OwnedByHand(add[i][k]) => add[i][k].group = 0

LEMMA OnePlace ==
  ASSUME NEW add, DOMAIN add = {1}
  PROVE  Place(add, 1) = 1
<1> DEFINE Sooner(j) == add[j][1].day < add[1][1].day \/ ( /\ add[j][1].day = add[1][1].day
                          /\ (SoonerInstant(add[j][1], add[1][1]) \/ (add[j][1].at = add[1][1].at /\ j < 1)))
           S == {j \in DOMAIN add : j = 1 \/ Sooner(j)}
<1>1. Place(add, 1) = Cardinality(S)
  BY DEF Place
<1>2. S = {1} 
  <2> HIDE DEF Sooner
  <2> QED OBVIOUS
<1> QED BY <1>1, <1>2, FS_Singleton

\* What is inserted are the candidates' legs, stamped, with the breakdowns the
\* offer settled.
LEMMA ImportAdds ==
  ASSUME NEW some, NEW c, NEW add, NEW remove
  PROVE  \E base, legs, settled :
           /\ legs \subseteq LegsOf(Stamped(add, c, base))
           /\ ApplyImportDelta(some, c, add, remove).add = WithBreakdowns(legs, settled)
<1> DEFINE accts == AcctsOf(remove \cup LegsOf(add))
           kept == {r \in some \ remove : r.acct \in accts}
           base == Base(kept, c, LegsOf(add))
           T == Stamped(add, c, base)
           offer == Offered(kept, Ordered(add, T), accts)
           legs == {leg \in LegsOf(T) : \E x \in offer.pos : x.id = leg.id}
<1>1. ApplyImportDelta(some, c, add, remove).add = WithBreakdowns(legs, offer.pos)
  BY DEF ApplyImportDelta, ImportIn, ImportOver, ImportAsked, WrittenOf, Written, Inserted
<1>2. legs \subseteq LegsOf(T)
  OBVIOUS
<1> QED
  <2> HIDE DEF legs, offer, base
  <2> QED BY <1>1, <1>2, Zenon

LEMMA ImportIsLawful ==
  ASSUME Numbered, NEW some, Recorded(some, clock), NEW add, Presentable(add, some, clock),
         NEW accts, Reportable(add, accts),
         NEW remove, remove \subseteq rows, AcctsOf(remove) \subseteq accts
  PROVE  Lawful(ApplyImportDelta(some, clock, add, remove), 2 * Len(add), accts)
<1> DEFINE d == ApplyImportDelta(some, clock, add, remove)
           n == Len(add)
<1>1. d.remove = remove
  BY DEF ApplyImportDelta, ImportIn, ImportOver, ImportAsked, WrittenOf, Written
<1>2. Recorded(d.add, clock + 2 * n)
  BY ImportRecorded
<1> HIDE DEF d
<1>3. PICK base, legs, settled :
           /\ legs \subseteq LegsOf(Stamped(add, clock, base))
           /\ d.add = WithBreakdowns(legs, settled)
  <2>1. \E base, legs, settled :
           /\ legs \subseteq LegsOf(Stamped(add, clock, base))
           /\ ApplyImportDelta(some, clock, add, remove).add = WithBreakdowns(legs, settled)
    BY ImportAdds
  <2> QED BY <2>1, Zenon DEF d
<1>4. clock \in Nat /\ 1..clock \subseteq 1..MaxClock /\ \A r \in rows : r.id \in 1..clock
  BY ClockIsNat, Zenon DEF Numbered, TypeOK
<1>5. n \in {0, 1} /\ DOMAIN add = 1..n
  BY DEF Presentable, Reportable
<1>6. \A leg \in legs : \E k \in DOMAIN add[1] : /\ 1 \in DOMAIN add
        /\ leg = StampedLeg(add[1][k], 2 * Place(add, 1) + k - 2, clock, base)
  <2>1. ASSUME NEW leg \in legs
        PROVE  \E i \in DOMAIN add : \E k \in DOMAIN add[i] :
                 leg = StampedLeg(add[i][k], 2 * Place(add, i) + k - 2, clock, base)
    <3> DEFINE T == Stamped(add, clock, base)
    <3>1. /\ DOMAIN T = DOMAIN add
          /\ \A i \in DOMAIN add :
               /\ DOMAIN T[i] = DOMAIN add[i]
               /\ \A k \in DOMAIN add[i] :
                    T[i][k] = StampedLeg(add[i][k], 2 * Place(add, i) + k - 2, clock, base)
      BY Zenon DEF Stamped
    <3>2. leg \in LegsOf(T)
      BY <1>3, Zenon
    <3> HIDE DEF T
    <3>3. PICK i \in DOMAIN T : leg \in LegSet(T[i])
      BY <3>2, Zenon DEF LegsOf
    <3>4. PICK k \in DOMAIN T[i] : leg = T[i][k]
      BY <3>3, Zenon DEF LegSet
    <3>5. i \in DOMAIN add
      BY <3>1, <3>3, Zenon
    <3>6. k \in DOMAIN add[i] /\ leg = StampedLeg(add[i][k], 2 * Place(add, i) + k - 2, clock, base)
      BY <3>1, <3>4, <3>5, Zenon
    <3> QED BY <3>5, <3>6, Zenon
  <2>2. \A i \in DOMAIN add : i = 1
    BY <1>5
  <2> QED BY <2>1, <2>2, Zenon
<1>7. CASE n = 0
  <2>1. DOMAIN add = {}
    BY <1>5, <1>7
  <2>2. legs = {} 
    BY <1>6, <2>1, Zenon
  <2>3. d.add = {}
    BY <1>3, <2>2, Zenon DEF WithBreakdowns
  <2>4. AcctsOf(remove \cup {}) \subseteq accts
    BY Zenon DEF AcctsOf
  <2>5. Lawful(d, 2 * n, accts)
    BY <1>1, <1>2, <2>3, <2>4, Zenon DEF Lawful, HandGroups, OwnIds
  <2> QED BY <2>5, Zenon DEF d, n
<1>8. CASE n = 1
  <2>1. DOMAIN add = {1} /\ Place(add, 1) = 1
    BY <1>5, <1>8, OnePlace
  <2>2. DOMAIN add[1] \subseteq {1, 2} /\ \A k \in DOMAIN add[1] : IsRow(add[1][k])
    BY <1>5, <1>8, <2>1 DEF Presentable
  <2> DEFINE Leg(k) == WithBreakdown(StampedLeg(add[1][k], 2 * 1 + k - 2, clock, base), settled)
  <2>3. ASSUME NEW k \in DOMAIN add[1]
        PROVE  /\ Leg(k).id = clock + k /\ Leg(k).acct = add[1][k].acct
               /\ Leg(k).group = add[1][k].group /\ Leg(k).src = add[1][k].src
    <3>1. 2 * 1 + k - 2 = k
      BY <2>2
    <3>2. {"id", "acct", "group", "src", "stamp", "amount", "lots"} \subseteq DOMAIN add[1][k]
      BY <2>2, RowFields, Zenon
    <3> DEFINE new == StampedLeg(add[1][k], k, clock, base)
    <3>3. /\ new.id = clock + k /\ new.acct = add[1][k].acct /\ new.group = add[1][k].group
          /\ new.src = add[1][k].src /\ DOMAIN new = DOMAIN add[1][k]
      BY <3>2, Zenon DEF StampedLeg
    <3> HIDE DEF new
    <3>4. LET w == WithBreakdown(new, settled)
          IN w.id = new.id /\ w.acct = new.acct /\ w.group = new.group /\ w.src = new.src
      BY <3>2, <3>3, Zenon DEF WithBreakdown
    <3> QED BY <3>1, <3>3, <3>4, Zenon DEF new
  <2>4. \A x \in d.add : \E k \in DOMAIN add[1] : x = Leg(k)
    <3>1. ASSUME NEW x \in d.add
          PROVE  \E k \in DOMAIN add[1] : x = Leg(k)
      <4>1. PICK leg \in legs : x = WithBreakdown(leg, settled)
        BY <1>3, Zenon DEF WithBreakdowns
      <4>2. PICK k \in DOMAIN add[1] : leg = StampedLeg(add[1][k], 2 * Place(add, 1) + k - 2, clock, base)
        BY <1>6, Zenon
      <4> QED BY <2>1, <4>1, <4>2, Zenon
    <3> QED BY <3>1, Zenon
  <2> HIDE DEF Leg
  <2>5. \A x \in d.add : \E k \in DOMAIN add[1] :
          /\ x = Leg(k) /\ k \in {1, 2} /\ x.id = clock + k /\ x.acct \in accts
          /\ x.group \notin 1..MaxClock
          /\ OwnedByHand(x) => x.group = 0
    <3>1. 1 \in DOMAIN add
      BY <2>1
    <3>2. ASSUME NEW k \in DOMAIN add[1]
          PROVE  /\ add[1][k].acct \in accts
                 /\ add[1][k].group \notin 1..MaxClock
                 /\ OwnedByHand(add[1][k]) => add[1][k].group = 0
      BY <3>1, <3>2, Zenon DEF Reportable
    <3>3. ASSUME NEW x \in d.add, NEW k \in DOMAIN add[1], x = Leg(k)
          PROVE  /\ k \in {1, 2} /\ x.id = clock + k /\ x.acct \in accts
                 /\ x.group \notin 1..MaxClock
                 /\ OwnedByHand(x) => x.group = 0
      <4>1. /\ x.id = clock + k /\ x.acct = add[1][k].acct
            /\ x.group = add[1][k].group /\ x.src = add[1][k].src
        BY <2>3, <3>3, Zenon
      <4>2. OwnedByHand(x) = OwnedByHand(add[1][k])
        BY <4>1, Zenon DEF OwnedByHand
      <4> QED BY <2>2, <3>2, <4>1, <4>2, Zenon
    <3> QED BY <2>4, <3>3, Zenon
  <2>6. OwnIds(d.add)
    BY <1>4, <2>5 DEF OwnIds
  <2>7. \A x \in d.add : Continues(rows, clock, x)
    BY <1>4, <2>5 DEF Continues
  <2>8. HandGroups(d.add, clock + 2 * n)
    BY <1>4, <1>5, <2>5 DEF HandGroups
  <2>9. \A x \in d.add, y \in rows : x.id # y.id
    BY <1>4, <2>5
  <2>10. AcctsOf(remove \cup d.add) \subseteq accts
    BY <2>5, Zenon DEF AcctsOf
  <2>11. Lawful(d, 2 * n, accts)
    BY <1>1, <1>2, <2>6, <2>7, <2>8, <2>9, <2>10, Zenon DEF Lawful
  <2> QED BY <2>11, Zenon DEF d, n
<1> QED BY <1>5, <1>7, <1>8

-----------------------------------------------------------------------------
(* What a transaction knows of the table. *)

IsTx(t) ==
  t = [step |-> t.step, req |-> t.req, want |-> t.want, held |-> t.held, seen |-> t.seen]

\* Whoever's row it is, the accounts of its group are among accts.
Covers(some, id, accts) ==
  \A r \in some : r.id = id /\ OwnedByHand(r)
                    => AcctsOf({r} \cup Legs(some, r.group)) \subseteq accts

Located(some, ids, accts) == \A r \in some : r.id \in ids => r.acct \in accts

\* A request names rows there have been, and wants the account of every row of
\* some that it will touch.
Wanted(t, some, c) ==
  /\ t.req[1] \in {"create", "transfer", "delete", "state", "import"}
  /\ t.req[1] = "create" => t.req[2] \in HandRows /\ t.req[2].acct \in t.want
  /\ t.req[1] = "transfer" => t.req[2].from \in t.want /\ t.req[2].to \in t.want
  /\ t.req[1] = "delete" => t.req[2] \in 1..c /\ Covers(some, t.req[2], t.want)
  /\ t.req[1] = "import" =>
       /\ Presentable(t.req[2], {}, c) /\ Reportable(t.req[2], t.want)
       /\ t.req[3] \subseteq 1..c /\ Located(some, t.req[3], t.want)

Agrees(some, accts, table) ==
  \A r : r.acct \in accts => (r \in some <=> r \in table)

\* What a transaction that judges has read is still so.
Judging(t, table, c) ==
  /\ t.held = t.want
  /\ Wanted(t, t.seen, c) /\ Recorded(t.seen, c) /\ Agrees(t.seen, t.held, table)

Knows(t, table, c) ==
  /\ IsTx(t) /\ t.step \in {"idle", "locking", "judging"}
  /\ t.step = "idle" => t.held = {}
  /\ t.step # "idle" => Wanted(t, table, c)
  /\ t.step = "judging" => Judging(t, table, c)

OneHolder(txs) == \A v, w \in Writers : v # w => txs[v].held \cap txs[w].held = {}

IsTable(txs) == txs = [w \in Writers |-> txs[w]]

\* The inductive invariant.
Isolated ==
  Numbered /\ IsTable(tx) /\ (\A w \in Writers : Knows(tx[w], rows, clock)) /\ OneHolder(tx)

-----------------------------------------------------------------------------
(* The delta of a judged request is lawful. *)

LEMMA CreateLawful ==
  ASSUME Numbered, NEW t, Judging(t, rows, clock), t.req[1] = "create"
  PROVE  Lawful(DeltaOf(t.req, t.seen, t.held), TicksOf(t.req), t.held)
<1> DEFINE op == t.req[2]
<1>1. op \in HandRows /\ op.acct \in t.held
  BY Zenon DEF Judging, Wanted
<1>2. DeltaOf(t.req, t.seen, t.held) = HandDelta(t.seen, clock, <<op>>, {}, ValidHand(op) /\ Replaceable(t.seen, {}))
  BY DEF DeltaOf, Create, CreateReplacing
<1>3. TicksOf(t.req) = 1
  BY DEF TicksOf
<1>4. IsRow(op) /\ op.group = 0
  BY <1>1, RequestsAssumption, Zenon
<1> HIDE DEF op
<1>5. Legible(<<op>>, 1)
  BY <1>4, OneLeg
<1>6. \A i \in 1..1 : <<op>>[i] = op
  OBVIOUS
<1>7. \A i \in 1..1 : /\ <<op>>[i].acct \in t.held
                       /\ <<op>>[i].group \in {0, clock + 1}
  BY <1>1, <1>4, <1>6, Zenon DEF op
<1> QED BY <1>2, <1>3, <1>5, <1>7, HandIsLawful, Zenon

LEMMA TransferLawful ==
  ASSUME Numbered, NEW t, Judging(t, rows, clock), t.req[1] = "transfer"
  PROVE  Lawful(DeltaOf(t.req, t.seen, t.held), TicksOf(t.req), t.held)
<1> DEFINE p == t.req[2]
<1>1. p.from \in t.held /\ p.to \in t.held
  BY Zenon DEF Judging, Wanted
<1>2. DeltaOf(t.req, t.seen, t.held) = CreateTransfer(t.seen, clock, p)
  BY DEF DeltaOf
<1>3. TicksOf(t.req) = 2
  BY DEF TicksOf
<1> HIDE DEF p
<1>4. \E out, in, cond :
        /\ IsRow(out) /\ IsRow(in) /\ out.acct = p.from /\ in.acct = p.to
        /\ CreateTransfer(t.seen, clock, p) = HandDelta(t.seen, clock, Pair(clock, out, in), {}, cond)
  <2>1. \A cur, lots, amount :
          LET legs == TransferLegs(p, cur, lots, amount)
          IN IsRow(legs.out) /\ IsRow(legs.in) /\ legs.out.acct = p.from /\ legs.in.acct = p.to
    <3>1. ASSUME NEW cur, NEW lots, NEW amount
          PROVE  LET legs == TransferLegs(p, cur, lots, amount)
                 IN IsRow(legs.out) /\ IsRow(legs.in) /\ legs.out.acct = p.from /\ legs.in.acct = p.to
      BY DEF TransferLegs, IsRow, Blank
    <3> QED BY <3>1, Zenon
  <2>2. \E cur, lots, amount, cond :
          LET legs == TransferLegs(p, cur, lots, amount)
          IN CreateTransfer(t.seen, clock, p)
               = HandDelta(t.seen, clock, Pair(clock, legs.out, legs.in), {}, cond)
    BY ZenonT(90) DEF CreateTransfer
  <2> QED BY <2>1, <2>2, Zenon
<1>5. PICK out, in, cond :
        /\ IsRow(out) /\ IsRow(in) /\ out.acct = p.from /\ in.acct = p.to
        /\ CreateTransfer(t.seen, clock, p) = HandDelta(t.seen, clock, Pair(clock, out, in), {}, cond)
  BY <1>4, Zenon
<1> DEFINE legs == Pair(clock, out, in)
<1>6. Legible(legs, 2)
  BY <1>5, TwoLegs, Zenon
<1>7. \A i \in 1..2 : /\ legs[i].acct \in t.held
                       /\ legs[i].group \in {0, clock + 1}
  <2> DEFINE a == [out EXCEPT !.group = clock + 1]
             b == [in EXCEPT !.group = clock + 1]
  <2>1. {"acct", "group"} \subseteq DOMAIN out /\ {"acct", "group"} \subseteq DOMAIN in
    BY <1>5, RowFields, Zenon
  <2>2. a.group = clock + 1 /\ b.group = clock + 1 /\ a.acct \in t.held /\ b.acct \in t.held
    BY <1>1, <1>5, <2>1, Zenon
  <2>3. legs = <<a, b>>
    BY Zenon DEF Pair
  <2> HIDE DEF a, b, legs
  <2> QED BY <2>2, <2>3
<1> HIDE DEF legs
<1>8. Lawful(HandDelta(t.seen, clock, legs, {}, cond), 2, t.held)
  BY <1>6, <1>7, HandIsLawful, Zenon
<1> QED BY <1>2, <1>3, <1>5, <1>8, Zenon DEF legs

\* The rows of accounts whose locks are held stand in the table.
LEMMA SeenStands ==
  ASSUME NEW some, NEW accts, Agrees(some, accts, rows), NEW old, old \subseteq some,
         AcctsOf(old) \subseteq accts
  PROVE  old \subseteq rows
BY Zenon DEF Agrees, AcctsOf

LEMMA RowFound ==
  ASSUME NEW some, NEW id, RowsNamed(some, {id}) # {}
  PROVE  (CHOOSE r \in some : r.id = id) \in some /\ (CHOOSE r \in some : r.id = id).id = id
<1>1. \E r \in some : r.id = id
  BY DEF RowsNamed
<1> QED BY <1>1, Zenon

LEMMA DeleteLawful ==
  ASSUME Numbered, NEW t, Judging(t, rows, clock), t.req[1] = "delete", DeltaOf(t.req, t.seen, t.held).ok
  PROVE  Lawful(DeltaOf(t.req, t.seen, t.held), TicksOf(t.req), t.held)
<1> DEFINE id == t.req[2]
           r == CHOOSE x \in t.seen : x.id = id
           gone == {r} \cup Legs(t.seen, r.group)
<1>1. DeltaOf(t.req, t.seen, t.held) = IF RowsNamed(t.seen, {id}) = {} THEN Refusal ELSE Delete(t.seen, r)
  BY DEF DeltaOf, OnRow
<1>2. RowsNamed(t.seen, {id}) # {} /\ DeltaOf(t.req, t.seen, t.held) = Delete(t.seen, r)
  <2> HIDE DEF r, id
  <2> QED BY <1>1 DEF Refusal
<1>3. r \in t.seen /\ r.id = id
  <2> HIDE DEF id
  <2> QED BY <1>2, RowFound, Zenon
<1>4. Delete(t.seen, r) = RestateDelta(t.seen, gone, {}, r \in t.seen /\ OwnedByHand(r))
  BY Zenon DEF Delete
<1>5. OwnedByHand(r)
  <2> HIDE DEF r, gone
  <2>1. RestateDelta(t.seen, gone, {}, r \in t.seen /\ OwnedByHand(r)).ok
    BY <1>2, <1>4, Zenon
  <2> QED BY <2>1 DEF RestateDelta
<1>6. TicksOf(t.req) = 0
  BY DEF TicksOf
<1>7. gone \subseteq t.seen
  <2> HIDE DEF r
  <2> QED BY <1>3, Zenon DEF Legs
<1>8. AcctsOf(gone) \subseteq t.held
  <2> HIDE DEF r
  <2> QED BY <1>3, <1>5, Zenon DEF Judging, Wanted, Covers
<1> HIDE DEF gone, r
<1>9. gone \subseteq rows
  <2>1. Agrees(t.seen, t.held, rows)
    BY Zenon DEF Judging
  <2> QED BY <1>7, <1>8, <2>1, SeenStands
<1>10. Lawful(RestateDelta(t.seen, gone, {}, r \in t.seen /\ OwnedByHand(r)), 0, t.held)
  BY <1>8, <1>9, RemovalIsLawful, Zenon
<1> QED BY <1>2, <1>4, <1>6, <1>10, Zenon

LEMMA StateLawful ==
  ASSUME Numbered, NEW t, Judging(t, rows, clock), t.req[1] = "state", DeltaOf(t.req, t.seen, t.held).ok
  PROVE  Lawful(DeltaOf(t.req, t.seen, t.held), TicksOf(t.req), t.held)
<1> DEFINE id == t.req[2]
           r == CHOOSE x \in t.seen : x.id = id
           accts == OnwardAccounts(t.seen, r)
<1>1. DeltaOf(t.req, t.seen, t.held) = IF RowsNamed(t.seen, {id}) = {} THEN Refusal
        ELSE IF accts \subseteq t.held THEN StatePurchases(t.seen, r, t.req[3]) ELSE Refusal
  BY DEF DeltaOf, StatedUnderLocks, OnRow
<1> HIDE DEF r, id, accts
<1>2. accts \subseteq t.held /\ DeltaOf(t.req, t.seen, t.held) = StatePurchases(t.seen, r, t.req[3])
  BY <1>1 DEF Refusal
<1>3. TicksOf(t.req) = 0
  BY DEF TicksOf
<1>4. PICK old, settled, cond :
        /\ old \subseteq {x \in t.seen : x.acct \in accts}
        /\ StatePurchases(t.seen, r, t.req[3])
             = RestateDelta(t.seen, old, WithBreakdowns(old, settled), cond)
  BY ZenonT(60) DEF StatePurchases, accts
<1>5. old \subseteq t.seen /\ AcctsOf(old) \subseteq t.held
  BY <1>2, <1>4, Zenon DEF AcctsOf
<1>6. old \subseteq rows
  <2>1. Agrees(t.seen, t.held, rows)
    BY Zenon DEF Judging
  <2> QED BY <1>5, <2>1, SeenStands
<1>7. Lawful(RestateDelta(t.seen, old, WithBreakdowns(old, settled), cond), 0, t.held)
  BY <1>5, <1>6, RestatedIsLawful, Zenon
<1> QED BY <1>2, <1>3, <1>4, <1>7, Zenon

LEMMA ImportLawful ==
  ASSUME Numbered, NEW t, Judging(t, rows, clock), t.req[1] = "import", DeltaOf(t.req, t.seen, t.held).ok
  PROVE  Lawful(DeltaOf(t.req, t.seen, t.held), TicksOf(t.req), t.held)
<1> DEFINE add == t.req[2]
           remove == RowsNamed(t.seen, t.req[3])
<1>1. DeltaOf(t.req, t.seen, t.held) = IF Cardinality(remove) = Cardinality(t.req[3])
        THEN ApplyImportDelta(t.seen, clock, add, remove) ELSE Refusal
  BY DEF DeltaOf, ImportedUnderLocks
<1>2. DeltaOf(t.req, t.seen, t.held) = ApplyImportDelta(t.seen, clock, add, remove)
  <2> HIDE DEF add, remove
  <2> QED BY <1>1 DEF Refusal
<1>3. TicksOf(t.req) = 2 * Len(add)
  BY DEF TicksOf
<1>4. remove \subseteq t.seen /\ AcctsOf(remove) \subseteq t.held
  BY Zenon DEF RowsNamed, AcctsOf, Judging, Wanted, Located
<1>5. Presentable(add, t.seen, clock) /\ Reportable(add, t.held)
  BY Zenon DEF Judging, Wanted, Presentable
<1> HIDE DEF add, remove
<1>6. remove \subseteq rows
  <2>1. Agrees(t.seen, t.held, rows)
    BY Zenon DEF Judging
  <2> QED BY <1>4, <2>1, SeenStands
<1>7. Recorded(t.seen, clock)
  BY Zenon DEF Judging
<1>8. Lawful(ApplyImportDelta(t.seen, clock, add, remove), 2 * Len(add), t.held)
  BY <1>4, <1>5, <1>6, <1>7, ImportIsLawful, Zenon
<1> QED BY <1>2, <1>3, <1>8, Zenon

LEMMA JudgedIsLawful ==
  ASSUME Numbered, NEW t, Judging(t, rows, clock), DeltaOf(t.req, t.seen, t.held).ok
  PROVE  Lawful(DeltaOf(t.req, t.seen, t.held), TicksOf(t.req), t.held)
<1>1. t.req[1] \in {"create", "transfer", "delete", "state", "import"}
  BY Zenon DEF Judging, Wanted
<1> QED BY <1>1, CreateLawful, TransferLawful, DeleteLawful, StateLawful, ImportLawful, Zenon

-----------------------------------------------------------------------------
(* What a write leaves of what others know. *)

\* A write of k rows on accts: every row of the table after it goes on from one
\* before it.
Writes(d, k, accts) ==
  k \in Nat /\ Accepted(d) /\ Taking(k) /\ Lawful(d, k, accts)

LEMMA RowsGoOn ==
  ASSUME Numbered, NEW d, NEW k, NEW accts, Writes(d, k, accts)
  PROVE  /\ clock \in Nat /\ clock' = clock + k /\ archived' = archived
         /\ \A x \in rows' : Continues(rows, clock, x)
         /\ \A r : r.acct \notin accts => (r \in rows <=> r \in rows')
<1>1. clock \in Nat /\ clock' = clock + k /\ archived' = archived
  BY ClockIsNat DEF Numbered, Writes, Taking, Accepted
<1>2. rows' = (rows \ d.remove) \cup d.add
  BY Zenon DEF Writes, Accepted, After
<1>3. \A x \in rows' : Continues(rows, clock, x)
  BY <1>2, Zenon DEF Writes, Lawful, Continues, InPlaceOf
<1>4. AcctsOf(d.remove \cup d.add) \subseteq accts
  BY Zenon DEF Writes, Lawful
<1>5. \A r : r.acct \notin accts => (r \in rows <=> r \in rows')
  BY <1>2, <1>4, Zenon DEF AcctsOf
<1> QED BY <1>1, <1>3, <1>5, Zenon

LEMMA NumberedAfter ==
  ASSUME Numbered, NEW d, NEW k, NEW accts, Writes(d, k, accts)
  PROVE  Numbered'
<1>1. clock \in Nat /\ k \in Nat /\ clock' = clock + k
  BY RowsGoOn, Zenon DEF Writes
<1>2. rows' = (rows \ d.remove) \cup d.add
  BY Zenon DEF Writes, Accepted, After
<1>3. TypeOK'
  BY TypedAfter, Zenon DEF Numbered, Writes, Lawful
<1>4. HandGroups(rows', clock')
  <2>1. 0..clock \subseteq 0..clock'
    BY <1>1
  <2>2. HandGroups(rows, clock) /\ HandGroups(d.add, clock')
    BY <1>1, Zenon DEF Numbered, Writes, Lawful
  <2> QED BY <1>2, <2>1, <2>2, Zenon DEF HandGroups
<1>5. OwnIds(rows')
  <2>1. OwnIds(rows) /\ OwnIds(d.add) /\ \A x \in d.add, y \in rows \ d.remove : x.id # y.id
    BY Zenon DEF Numbered, Writes, Lawful
  <2> QED BY <1>2, <2>1, Zenon DEF OwnIds
<1> QED BY <1>3, <1>4, <1>5, Zenon DEF Numbered

LEMMA PresentableLater ==
  ASSUME NEW add, NEW c \in Nat, NEW k \in Nat, Presentable(add, {}, c)
  PROVE  Presentable(add, {}, c + k)
<1>1. 0..(c + AppAhead) \subseteq 0..(c + k + AppAhead)
  BY AppAheadAssumption
<1> QED BY <1>1, Zenon DEF Presentable

\* A request asked of old still names what there has been, in any table that
\* goes on from old.
LEMMA WantedLater ==
  ASSUME NEW old, NEW new, NEW c \in Nat, NEW k \in Nat, NEW t,
         HandGroups(old, c), \A x \in new : Continues(old, c, x),
         Wanted(t, old, c)
  PROVE  Wanted(t, new, c + k)
<1>1. 1..c \subseteq 1..(c + k)
  OBVIOUS
<1>2. ASSUME NEW id \in 1..c, Covers(old, id, t.want)
      PROVE  Covers(new, id, t.want)
  <2> SUFFICES ASSUME NEW r \in new, r.id = id, OwnedByHand(r),
                      NEW x \in {r} \cup Legs(new, r.group)
               PROVE  x.acct \in t.want
    BY Zenon DEF Covers, AcctsOf
  <2>1. PICK y \in old : y.id = id /\ r.acct = y.acct /\ r.group = y.group /\ r.src = y.src
    <3>1. Continues(old, c, r)
      OBVIOUS
    <3>2. ~(r.id > c)
      OBVIOUS
    <3> QED BY <3>1, <3>2, Zenon DEF Continues, InPlaceOf
  <2>2. OwnedByHand(y)
    BY <2>1, Zenon DEF OwnedByHand
  <2>3. \A z \in {y} \cup Legs(old, y.group) : z.acct \in t.want
    BY <1>2, <2>1, <2>2, Zenon DEF Covers, AcctsOf
  <2>4. CASE x = r
    BY <2>1, <2>3, <2>4, Zenon
  <2>5. CASE x \in Legs(new, r.group)
    <3>1. x \in new /\ x.group = y.group /\ y.group # 0
      BY <2>1, <2>5, Zenon DEF Legs
    <3>2. y.group \in 1..c
      BY <2>2, <3>1 DEF HandGroups
    <3>3. PICK z \in old : x.acct = z.acct /\ x.group = z.group
      BY <3>1, <3>2, Zenon DEF Continues, InPlaceOf
    <3>4. z \in Legs(old, y.group)
      BY <3>1, <3>3, Zenon DEF Legs
    <3> QED BY <2>3, <3>3, <3>4, Zenon
  <2> QED BY <2>4, <2>5, Zenon
<1>3. ASSUME NEW ids, ids \subseteq 1..c, Located(old, ids, t.want)
      PROVE  Located(new, ids, t.want)
  <2> SUFFICES ASSUME NEW r \in new, r.id \in ids
               PROVE  r.acct \in t.want
    BY Zenon DEF Located
  <2>1. Continues(old, c, r) /\ ~(r.id > c)
    <3>1. r.id \in 1..c
      BY <1>3, Zenon
    <3> QED BY <3>1
  <2>2. PICK y \in old : r.id = y.id /\ r.acct = y.acct
    BY <2>1, Zenon DEF Continues, InPlaceOf
  <2> QED BY <1>3, <2>2, Zenon DEF Located
<1>4. Presentable(t.req[2], {}, c) => Presentable(t.req[2], {}, c + k)
  BY PresentableLater, Zenon
<1> QED BY <1>1, <1>2, <1>3, <1>4, Zenon DEF Wanted

LEMMA WantedStill ==
  ASSUME NEW some, NEW c \in Nat, NEW k \in Nat, NEW t, Wanted(t, some, c)
  PROVE  Wanted(t, some, c + k)
<1>1. 1..c \subseteq 1..(c + k)
  OBVIOUS
<1>2. Presentable(t.req[2], {}, c) => Presentable(t.req[2], {}, c + k)
  BY PresentableLater, Zenon
<1> QED BY <1>1, <1>2, Zenon DEF Wanted

\* A transaction that holds none of the accounts written knows what it knew.
LEMMA KnowsLater ==
  ASSUME Numbered, NEW d, NEW k, NEW accts, Writes(d, k, accts),
         NEW t, Knows(t, rows, clock), t.held \cap accts = {}
  PROVE  Knows(t, rows', clock')
<1>1. /\ clock \in Nat /\ clock' = clock + k
      /\ \A x \in rows' : Continues(rows, clock, x)
      /\ \A r : r.acct \notin accts => (r \in rows <=> r \in rows')
  BY RowsGoOn, Zenon
<1>2. k \in Nat /\ HandGroups(rows, clock)
  BY Zenon DEF Writes, Numbered
<1>3. t.step # "idle" => Wanted(t, rows', clock')
  BY <1>1, <1>2, WantedLater, Zenon DEF Knows
<1>4. ASSUME t.step = "judging"
      PROVE  Judging(t, rows', clock')
  <2>1. Judging(t, rows, clock)
    BY <1>4, Zenon DEF Knows
  <2>2. Wanted(t, t.seen, clock') /\ Recorded(t.seen, clock')
    <3>1. Wanted(t, t.seen, clock) /\ Recorded(t.seen, clock)
      BY <2>1, Zenon DEF Judging
    <3> QED BY <1>1, <1>2, <3>1, WantedStill, RecordedLater, Zenon
  <2>3. Agrees(t.seen, t.held, rows')
    <3>1. Agrees(t.seen, t.held, rows)
      BY <2>1, Zenon DEF Judging
    <3>2. \A a \in t.held : a \notin accts
      OBVIOUS
    <3> QED BY <1>1, <3>1, <3>2, Zenon DEF Agrees
  <2> QED BY <2>1, <2>2, <2>3, Zenon DEF Judging
<1> QED BY <1>3, <1>4, Zenon DEF Knows

-----------------------------------------------------------------------------
(* The steps of a transaction. *)

LEMMA IdleKnows ==
  ASSUME NEW table, NEW c
  PROVE  Knows(Idle, table, c) /\ Idle.held = {}
BY DEF Knows, IsTx, Idle

LEMMA TxFields ==
  ASSUME NEW s, NEW r, NEW q, NEW h, NEW e
  PROVE  LET t == [step |-> s, req |-> r, want |-> q, held |-> h, seen |-> e]
         IN /\ t.step = s /\ t.req = r /\ t.want = q /\ t.held = h /\ t.seen = e
            /\ IsTx(t)
<1> DEFINE t == [step |-> s, req |-> r, want |-> q, held |-> h, seen |-> e]
<1>1. t.step = s /\ t.req = r /\ t.want = q /\ t.held = h /\ t.seen = e
  OBVIOUS
<1>2. t = [step |-> t.step, req |-> t.req, want |-> t.want, held |-> t.held, seen |-> t.seen]
  BY <1>1
<1> HIDE DEF t
<1>3. IsTx(t)
  BY <1>2, Zenon DEF IsTx
<1> QED BY <1>1, <1>3, Zenon DEF t

LEMMA WithStep ==
  ASSUME NEW t, IsTx(t), NEW x
  PROVE  LET u == [t EXCEPT !.step = x]
         IN /\ u = [step |-> x, req |-> t.req, want |-> t.want, held |-> t.held, seen |-> t.seen]
            /\ IsTx(u)
<1> DEFINE u == [t EXCEPT !.step = x]
<1>1. u = [step |-> x, req |-> t.req, want |-> t.want, held |-> t.held, seen |-> t.seen]
  BY DEF IsTx
<1> HIDE DEF u
<1>2. IsTx(u)
  BY <1>1, TxFields
<1> QED BY <1>1, <1>2, Zenon DEF u

LEMMA WithReq ==
  ASSUME NEW t, IsTx(t), NEW x
  PROVE  LET u == [t EXCEPT !.req = x]
         IN /\ u = [step |-> t.step, req |-> x, want |-> t.want, held |-> t.held, seen |-> t.seen]
            /\ IsTx(u)
<1> DEFINE u == [t EXCEPT !.req = x]
<1>1. u = [step |-> t.step, req |-> x, want |-> t.want, held |-> t.held, seen |-> t.seen]
  BY DEF IsTx
<1> HIDE DEF u
<1>2. IsTx(u)
  BY <1>1, TxFields
<1> QED BY <1>1, <1>2, Zenon DEF u

LEMMA WithWant ==
  ASSUME NEW t, IsTx(t), NEW x
  PROVE  LET u == [t EXCEPT !.want = x]
         IN /\ u = [step |-> t.step, req |-> t.req, want |-> x, held |-> t.held, seen |-> t.seen]
            /\ IsTx(u)
<1> DEFINE u == [t EXCEPT !.want = x]
<1>1. u = [step |-> t.step, req |-> t.req, want |-> x, held |-> t.held, seen |-> t.seen]
  BY DEF IsTx
<1> HIDE DEF u
<1>2. IsTx(u)
  BY <1>1, TxFields
<1> QED BY <1>1, <1>2, Zenon DEF u

LEMMA WithHeld ==
  ASSUME NEW t, IsTx(t), NEW x
  PROVE  LET u == [t EXCEPT !.held = x]
         IN /\ u = [step |-> t.step, req |-> t.req, want |-> t.want, held |-> x, seen |-> t.seen]
            /\ IsTx(u)
<1> DEFINE u == [t EXCEPT !.held = x]
<1>1. u = [step |-> t.step, req |-> t.req, want |-> t.want, held |-> x, seen |-> t.seen]
  BY DEF IsTx
<1> HIDE DEF u
<1>2. IsTx(u)
  BY <1>1, TxFields
<1> QED BY <1>1, <1>2, Zenon DEF u

LEMMA WithSeen ==
  ASSUME NEW t, IsTx(t), NEW x
  PROVE  LET u == [t EXCEPT !.seen = x]
         IN /\ u = [step |-> t.step, req |-> t.req, want |-> t.want, held |-> t.held, seen |-> x]
            /\ IsTx(u)
<1> DEFINE u == [t EXCEPT !.seen = x]
<1>1. u = [step |-> t.step, req |-> t.req, want |-> t.want, held |-> t.held, seen |-> x]
  BY DEF IsTx
<1> HIDE DEF u
<1>2. IsTx(u)
  BY <1>1, TxFields
<1> QED BY <1>1, <1>2, Zenon DEF u

LEMMA Asking ==
  ASSUME NEW r, NEW q
  PROVE  [Idle EXCEPT !.step = "locking", !.req = r, !.want = q]
           = [step |-> "locking", req |-> r, want |-> q, held |-> {}, seen |-> {}]
<1> DEFINE t == [Idle EXCEPT !.step = "locking"]
           u == [t EXCEPT !.req = r]
           v == [u EXCEPT !.want = q]
<1>1. [Idle EXCEPT !.step = "locking", !.req = r, !.want = q] = v
  OBVIOUS
<1>2. IsTx(Idle) /\ Idle.held = {} /\ Idle.seen = {}
  BY DEF IsTx, Idle
<1> HIDE DEF v
<1>3. IsTx(t) /\ t.step = "locking" /\ t.held = {} /\ t.seen = {}
  <2>1. IsTx(t) /\ t = [step |-> "locking", req |-> Idle.req, want |-> Idle.want,
                        held |-> Idle.held, seen |-> Idle.seen]
    BY <1>2, WithStep, Zenon
  <2> HIDE DEF t
  <2> QED BY <1>2, <2>1, TxFields
<1> HIDE DEF t
<1>4. IsTx(u) /\ u.step = "locking" /\ u.req = r /\ u.held = {} /\ u.seen = {}
  <2>1. IsTx(u) /\ u = [step |-> t.step, req |-> r, want |-> t.want, held |-> t.held, seen |-> t.seen]
    BY <1>3, WithReq, Zenon
  <2> HIDE DEF u
  <2> QED BY <1>3, <2>1, TxFields
<1> HIDE DEF u
<1>5. v = [step |-> u.step, req |-> u.req, want |-> q, held |-> u.held, seen |-> u.seen]
  BY <1>4, WithWant, Zenon DEF v
<1> QED BY <1>1, <1>4, <1>5, Zenon

LEMMA Reading ==
  ASSUME NEW t, IsTx(t), NEW x
  PROVE  [t EXCEPT !.step = "judging", !.seen = x]
           = [step |-> "judging", req |-> t.req, want |-> t.want, held |-> t.held, seen |-> x]
<1> DEFINE u == [t EXCEPT !.step = "judging"]
           v == [u EXCEPT !.seen = x]
<1>1. [t EXCEPT !.step = "judging", !.seen = x] = v
  OBVIOUS
<1> HIDE DEF v
<1>2. IsTx(u) /\ u.step = "judging" /\ u.req = t.req /\ u.want = t.want /\ u.held = t.held
  <2>1. IsTx(u) /\ u = [step |-> "judging", req |-> t.req, want |-> t.want,
                        held |-> t.held, seen |-> t.seen]
    BY WithStep, Zenon
  <2> HIDE DEF u
  <2> QED BY <2>1, TxFields
<1> HIDE DEF u
<1>3. v = [step |-> u.step, req |-> u.req, want |-> u.want, held |-> u.held, seen |-> x]
  BY <1>2, WithSeen, Zenon DEF v
<1> QED BY <1>1, <1>2, <1>3, Zenon

LEMMA LegIn ==
  ASSUME NEW add, NEW i \in DOMAIN add, NEW k \in DOMAIN add[i]
  PROVE  add[i][k] \in LegsOf(add)
<1>1. add[i][k] \in LegSet(add[i])
  BY Zenon DEF LegSet
<1>2. LegSet(add[i]) \in {LegSet(add[c]) : c \in DOMAIN add}
  BY Zenon
<1> QED BY <1>1, <1>2, Zenon DEF LegsOf

\* A transaction that goes back to idle, or whose step keeps all but itself.
LEMMA OneMoves ==
  ASSUME Isolated, NEW w \in Writers, NEW t, tx' = [tx EXCEPT ![w] = t],
         Numbered', Knows(t, rows', clock'),
         \A v \in Writers : v # w => Knows(tx[v], rows', clock'),
         \A v \in Writers : v # w => tx[v].held \cap t.held = {}
  PROVE  Isolated'
<1>1. tx = [v \in Writers |-> tx[v]] /\ OneHolder(tx)
  BY Zenon DEF Isolated, IsTable
<1>2. tx' = [v \in Writers |-> IF v = w THEN t ELSE tx[v]]
  BY <1>1
<1>3. \A v \in Writers : tx'[v] = IF v = w THEN t ELSE tx[v]
  BY <1>2, Zenon
<1>4. IsTable(tx')
  BY <1>2, <1>3 DEF IsTable
<1>5. \A v \in Writers : Knows(tx'[v], rows', clock')
  BY <1>3, Zenon
<1>6. OneHolder(tx')
  <2> SUFFICES ASSUME NEW u \in Writers, NEW v \in Writers, u # v
               PROVE  tx'[u].held \cap tx'[v].held = {}
    BY Zenon DEF OneHolder
  <2>1. CASE u = w
    <3>1. tx'[u] = t /\ tx'[v] = tx[v] /\ tx[v].held \cap t.held = {}
      BY <1>3, <2>1, Zenon
    <3> QED BY <3>1
  <2>2. CASE v = w
    BY <1>3, <2>2, Zenon
  <2>3. CASE u # w /\ v # w
    BY <1>1, <1>3, <2>3, Zenon DEF OneHolder
  <2> QED BY <2>1, <2>2, <2>3, Zenon
<1> QED BY <1>4, <1>5, <1>6, Zenon DEF Isolated

\* The rows of a request are found in the table it is asked over.
LEMMA AskedKnows ==
  ASSUME Numbered, NEW req \in Requests
  PROVE  Wanted([Idle EXCEPT !.step = "locking", !.req = req, !.want = WantedBy(req)],
                rows, clock)
<1> DEFINE t == [Idle EXCEPT !.step = "locking", !.req = req, !.want = WantedBy(req)]
<1>1. t.req = req /\ t.want = WantedBy(req)
  BY DEF Idle
<1> HIDE DEF t
<1>2. CASE \E op \in HandRows : req = <<"create", op>>
  <2>1. PICK op \in HandRows : req = <<"create", op>>
    BY <1>2
  <2>2. WantedBy(req) = {op.acct}
    BY <2>1 DEF WantedBy
  <2>3. req[1] = "create" /\ req[2] = op
    BY <2>1
  <2> QED BY <1>1, <2>2, <2>3 DEF Wanted, t
<1>3. CASE \E p \in Transfers : req = <<"transfer", p>>
  <2>1. PICK p \in Transfers : req = <<"transfer", p>>
    BY <1>3
  <2>2. WantedBy(req) = {p.from, p.to}
    BY <2>1 DEF WantedBy
  <2>3. req[1] = "transfer" /\ req[2] = p
    BY <2>1
  <2> QED BY <1>1, <2>2, <2>3 DEF Wanted, t
<1>4. CASE \E r \in rows : req = <<"delete", r.id>>
  <2>1. PICK r \in rows : req = <<"delete", r.id>>
    BY <1>4
  <2>2. req[1] = "delete" /\ req[2] = r.id
    BY <2>1
  <2> DEFINE found == CHOOSE x \in rows : x.id = r.id
  <2>3. found = r
    BY Zenon DEF Numbered, OwnIds
  <2>4. RowsNamed(rows, {r.id}) # {}
    BY DEF RowsNamed
  <2>5. WantedBy(req) = AcctsOf({found} \cup Legs(rows, found.group))
    BY <2>1, <2>4 DEF WantedBy, OnRow
  <2> HIDE DEF found
  <2>6. WantedBy(req) = AcctsOf({r} \cup Legs(rows, r.group))
    BY <2>3, <2>5, Zenon
  <2>7. Covers(rows, r.id, WantedBy(req))
    <3>1. \A x \in rows : x.id = r.id => x = r
      BY Zenon DEF Numbered, OwnIds
    <3> QED BY <2>6, <3>1, Zenon DEF Covers
  <2>8. r.id \in 1..clock
    BY Zenon DEF Numbered, TypeOK
  <2> QED BY <1>1, <2>2, <2>7, <2>8 DEF Wanted, t
<1>5. CASE \E r \in rows, pieces \in Statements : req = <<"state", r.id, pieces>>
  <2>1. req[1] = "state"
    BY <1>5
  <2> QED BY <1>1, <2>1 DEF Wanted, t
<1>6. CASE req \in ImportsAsked
  <2>1. \E events, remove :
          /\ events \in {<<>>} \cup {<<e>> : e \in Events}
          /\ remove \in SUBSET rows
          /\ req = <<"import", Asked(events, remove), {r.id : r \in remove}>>
    BY <1>6 DEF ImportsAsked
  <2>2. PICK events, remove :
          /\ events \in {<<>>} \cup {<<e>> : e \in Events}
          /\ remove \in SUBSET rows
          /\ req = <<"import", Asked(events, remove), {r.id : r \in remove}>>
    BY <2>1, Zenon
  <2> DEFINE add == Asked(events, remove)
             ids == {r.id : r \in remove}
             n == Len(events)
  <2>3. n \in {0, 1} /\ DOMAIN events = 1..n /\ \A i \in 1..n : events[i] \in Events
    BY <2>2
  <2>4. Presentable(add, rows, clock) /\ Len(add) = n
    <3>1. n \in Nat /\ TypeOK
      BY <2>3 DEF Numbered
    <3> HIDE DEF n
    <3> QED BY <2>2, <2>3, <3>1, AskedPresentable, Zenon
  <2>5. req[1] = "import" /\ req[2] = add /\ req[3] = ids
    <3> HIDE DEF add, ids
    <3>1. req = <<"import", add, ids>>
      BY <2>2 DEF add, ids
    <3> QED BY <3>1
  <2> HIDE DEF n
  <2>6. WantedBy(req) = AcctsOf(LegsOf(add) \cup RowsNamed(rows, ids))
    <3> HIDE DEF add, ids
    <3> QED BY <2>5 DEF WantedBy
  <2>7. Located(rows, ids, WantedBy(req))
    BY <2>6, Zenon DEF Located, AcctsOf, RowsNamed
  <2>8. ids \subseteq 1..clock
    BY <2>2, Zenon DEF Numbered, TypeOK
  <2>9. Reportable(add, WantedBy(req))
    <3>1. DOMAIN add = DOMAIN events /\ \A i \in DOMAIN events : add[i] = Corrected(events[i], remove)
      BY Zenon DEF Asked
    <3>2. ASSUME NEW i \in DOMAIN add, NEW k \in DOMAIN add[i]
          PROVE  /\ add[i][k].acct \in WantedBy(req)
                 /\ add[i][k].group \notin 1..MaxClock
                 /\ OwnedByHand(add[i][k]) => add[i][k].group = 0
      <4> DEFINE e == events[i]
      <4>1. e \in Events /\ add[i] = Corrected(e, remove)
        BY <2>3, <3>1, Zenon
      <4>2. k \in DOMAIN e /\ add[i][k] = InheritsPlace(e[k], remove)
        BY <4>1, Zenon DEF Corrected
      <4>3. /\ IsRow(e[k]) /\ e[k].group \notin 1..MaxClock
            /\ OwnedByHand(e[k]) => e[k].group = 0
        BY <4>1, <4>2, RequestsAssumption, Zenon
      <4>4. add[i][k].group = e[k].group /\ add[i][k].src = e[k].src
        <5>1. {"stamp", "group", "src"} \subseteq DOMAIN e[k]
          BY <4>3, RowFields, Zenon
        <5> QED BY <4>2, <5>1, Zenon DEF InheritsPlace
      <4>5. add[i][k] \in LegsOf(add)
        BY <3>2, LegIn, Zenon
      <4>6. add[i][k].acct \in WantedBy(req)
        BY <2>6, <4>5, Zenon DEF AcctsOf
      <4> QED BY <4>3, <4>4, <4>6, Zenon DEF OwnedByHand
    <3>3. Len(add) \in {0, 1}
      BY <2>3, <2>4, Zenon
    <3> QED BY <3>2, <3>3, Zenon DEF Reportable
  <2>10. Presentable(add, {}, clock)
    BY <2>4, Zenon DEF Presentable
  <2> HIDE DEF add, ids
  <2> QED BY <1>1, <2>5, <2>7, <2>8, <2>9, <2>10 DEF Wanted, t
<1>7. \/ \E op \in HandRows : req = <<"create", op>>
      \/ \E p \in Transfers : req = <<"transfer", p>>
      \/ \E r \in rows : req = <<"delete", r.id>>
      \/ \E r \in rows, pieces \in Statements : req = <<"state", r.id, pieces>>
      \/ req \in ImportsAsked
  BY DEF Requests
<1> QED BY <1>2, <1>3, <1>4, <1>5, <1>6, <1>7, Zenon

LEMMA OthersStill ==
  ASSUME Isolated, UNCHANGED vars
  PROVE  /\ Numbered' /\ rows' = rows /\ clock' = clock
         /\ \A v \in Writers : Knows(tx[v], rows', clock')
<1>1. rows' = rows /\ clock' = clock /\ archived' = archived
  BY Zenon DEF vars
<1>2. Numbered'
  BY <1>1, Zenon DEF Isolated, Numbered, TypeOK
<1> QED BY <1>1, <1>2, Zenon DEF Isolated

LEMMA AskStep ==
  ASSUME Isolated, NEW w \in Writers, Ask(w, Requests)
  PROVE  Isolated'
<1>1. PICK req \in Requests :
        tx' = [tx EXCEPT ![w] = [Idle EXCEPT !.step = "locking", !.req = req,
                                             !.want = WantedBy(req)]]
  BY Zenon DEF Ask
<1> DEFINE t == [Idle EXCEPT !.step = "locking", !.req = req, !.want = WantedBy(req)]
<1>2. /\ Numbered' /\ rows' = rows /\ clock' = clock
      /\ \A v \in Writers : Knows(tx[v], rows', clock')
  BY OthersStill, Zenon DEF Ask
<1>3. IsTx(t) /\ t.step = "locking" /\ t.held = {}
  <2>1. t = [step |-> "locking", req |-> req, want |-> WantedBy(req), held |-> {}, seen |-> {}]
    BY Asking, Zenon
  <2> HIDE DEF t
  <2> QED BY <2>1, TxFields
<1>4. Wanted(t, rows', clock')
  BY <1>2, AskedKnows, Zenon DEF Isolated
<1> HIDE DEF t
<1>5. Knows(t, rows', clock')
  BY <1>3, <1>4 DEF Knows
<1> QED BY <1>1, <1>2, <1>3, <1>5, OneMoves DEF t

LEMMA LockStep ==
  ASSUME Isolated, NEW w \in Writers, Lock(w)
  PROVE  Isolated'
<1> DEFINE a == NextLock(tx[w])
           more == [tx[w] EXCEPT !.held = @ \cup {a}]
           t == IF ClosedTo(tx[w], a) THEN Idle ELSE more
<1>1. /\ tx[w].step = "locking" /\ \A v \in Writers : a \notin tx[v].held
      /\ tx' = [tx EXCEPT ![w] = t]
  BY Zenon DEF Lock
<1>2. /\ Numbered' /\ rows' = rows /\ clock' = clock
      /\ \A v \in Writers : Knows(tx[v], rows', clock')
  BY OthersStill, Zenon DEF Lock
<1>3. Knows(tx[w], rows', clock')
  BY <1>2, Zenon
<1> HIDE DEF a
<1>4. /\ IsTx(more) /\ more.step = "locking" /\ more.req = tx[w].req
      /\ more.want = tx[w].want /\ more.held = tx[w].held \cup {a}
  <2>1. IsTx(tx[w])
    BY <1>3, Zenon DEF Knows
  <2>2. more = [step |-> tx[w].step, req |-> tx[w].req, want |-> tx[w].want,
                held |-> tx[w].held \cup {a}, seen |-> tx[w].seen]
    BY <2>1, WithHeld, Zenon
  <2> HIDE DEF more
  <2> QED BY <1>1, <2>2, TxFields
<1> HIDE DEF more
<1>5. Wanted(more, rows', clock')
  <2>1. Wanted(tx[w], rows', clock')
    BY <1>1, <1>3 DEF Knows
  <2> QED BY <1>4, <2>1, Zenon DEF Wanted
<1>6. Knows(more, rows', clock')
  BY <1>4, <1>5 DEF Knows
<1>7. Knows(t, rows', clock') /\ t.held \subseteq tx[w].held \cup {a}
  BY <1>4, <1>6, IdleKnows
<1> HIDE DEF t
<1>8. \A v \in Writers : v # w => tx[v].held \cap t.held = {}
  <2>1. \A v \in Writers : v # w => tx[v].held \cap tx[w].held = {}
    BY Zenon DEF Isolated, OneHolder
  <2> QED BY <1>1, <1>7, <2>1
<1> QED BY <1>1, <1>2, <1>7, <1>8, OneMoves

LEMMA ReadStep ==
  ASSUME Isolated, NEW w \in Writers, Read(w)
  PROVE  Isolated'
<1> DEFINE t == [tx[w] EXCEPT !.step = "judging", !.seen = rows]
<1>1. tx[w].step = "locking" /\ tx[w].held = tx[w].want
  BY Zenon DEF Read, ReadyToRead
<1>2. /\ Numbered' /\ rows' = rows /\ clock' = clock
      /\ \A v \in Writers : Knows(tx[v], rows', clock')
  BY OthersStill, Zenon DEF Read
<1>3. Knows(tx[w], rows', clock')
  BY <1>2, Zenon
<1>4. tx' = [tx EXCEPT ![w] = t]
  BY Zenon DEF Read
<1>5. /\ IsTx(t) /\ t.step = "judging" /\ t.req = tx[w].req
      /\ t.want = tx[w].want /\ t.held = tx[w].held /\ t.seen = rows'
  <2>1. IsTx(tx[w])
    BY <1>3, Zenon DEF Knows
  <2>2. t = [step |-> "judging", req |-> tx[w].req, want |-> tx[w].want,
             held |-> tx[w].held, seen |-> rows]
    BY <2>1, Reading, Zenon
  <2> HIDE DEF t
  <2> QED BY <1>2, <2>2, TxFields
<1> HIDE DEF t
<1>6. Wanted(t, rows', clock')
  <2>1. Wanted(tx[w], rows', clock')
    BY <1>1, <1>3 DEF Knows
  <2> QED BY <1>5, <2>1, Zenon DEF Wanted
<1>7. Recorded(rows', clock')
  BY <1>2, ClockIsNat, Zenon DEF Isolated, Numbered
<1>8. Judging(t, rows', clock')
  BY <1>1, <1>5, <1>6, <1>7, Zenon DEF Judging, Agrees
<1>9. Knows(t, rows', clock')
  BY <1>5, <1>6, <1>8 DEF Knows
<1>10. \A v \in Writers : v # w => tx[v].held \cap t.held = {}
  BY <1>5, Zenon DEF Isolated, OneHolder
<1> QED BY <1>2, <1>4, <1>9, <1>10, OneMoves

\* What a commit does to the table: nothing, or the write it judged.
LEMMA CommitWrites ==
  ASSUME Isolated, NEW w \in Writers, Commit(w)
  PROVE  \/ UNCHANGED vars
         \/ \E d, k : Writes(d, k, tx[w].held)
<1> DEFINE d == DeltaOf(tx[w].req, tx[w].seen, tx[w].held)
           k == TicksOf(tx[w].req)
<1>1. tx[w].step = "judging"
  BY Zenon DEF Commit, Leave
<1>2. IF Fits(d, k) THEN Accepted(d) /\ Taking(k) ELSE UNCHANGED vars
  BY Zenon DEF Commit
<1>3. Judging(tx[w], rows, clock)
  BY <1>1, Zenon DEF Isolated, Knows
<1>4. CASE Fits(d, k)
  <2>1. d.ok
    BY <1>4, Zenon DEF Fits
  <2>2. Lawful(d, k, tx[w].held)
    BY <1>3, <2>1, JudgedIsLawful, Zenon DEF Isolated
  <2>3. k \in Nat
    <3>1. tx[w].req[1] = "import" => Len(tx[w].req[2]) \in {0, 1}
      BY <1>3, Zenon DEF Judging, Wanted, Reportable
    <3>2. tx[w].req[1] \in {"create", "transfer", "delete", "state", "import"}
      BY <1>3, Zenon DEF Judging, Wanted
    <3> QED BY <3>1, <3>2 DEF TicksOf
  <2> HIDE DEF d, k
  <2>4. Writes(d, k, tx[w].held)
    BY <1>2, <1>4, <2>2, <2>3, Zenon DEF Writes
  <2> QED BY <2>4, Zenon
<1>5. CASE ~Fits(d, k)
  BY <1>2, <1>5, Zenon
<1> QED BY <1>4, <1>5, Zenon

LEMMA CommitStep ==
  ASSUME Isolated, NEW w \in Writers, Commit(w)
  PROVE  Isolated'
<1>1. tx' = [tx EXCEPT ![w] = Idle]
  BY Zenon DEF Commit, Leave
<1>2. CASE UNCHANGED vars
  <2>1. /\ Numbered' /\ \A v \in Writers : Knows(tx[v], rows', clock')
    BY <1>2, OthersStill, Zenon
  <2> QED BY <1>1, <2>1, IdleKnows, OneMoves
<1>3. CASE \E d, k : Writes(d, k, tx[w].held)
  <2>1. PICK d, k : Writes(d, k, tx[w].held)
    BY <1>3, Zenon
  <2>2. Numbered'
    BY <2>1, NumberedAfter, Zenon DEF Isolated
  <2>3. \A v \in Writers : v # w => Knows(tx[v], rows', clock')
    <3>1. ASSUME NEW v \in Writers, v # w
          PROVE  Knows(tx[v], rows', clock')
      <4>1. Knows(tx[v], rows, clock) /\ tx[v].held \cap tx[w].held = {} /\ Numbered
        BY <3>1, Zenon DEF Isolated, OneHolder
      <4> QED BY <2>1, <4>1, KnowsLater, Zenon
    <3> QED BY <3>1, Zenon
  <2> QED BY <1>1, <2>2, <2>3, IdleKnows, OneMoves
<1> QED BY <1>2, <1>3, CommitWrites, Zenon

LEMMA AbortStep ==
  ASSUME Isolated, NEW w \in Writers, Abort(w)
  PROVE  Isolated'
<1>1. tx' = [tx EXCEPT ![w] = Idle] /\ UNCHANGED vars
  BY Zenon DEF Abort
<1>2. /\ Numbered' /\ \A v \in Writers : Knows(tx[v], rows', clock')
  BY <1>1, OthersStill, Zenon
<1> QED BY <1>1, <1>2, IdleKnows, OneMoves

LEMMA ArchiveStep ==
  ASSUME Isolated, ArchiveRow
  PROVE  Isolated'
<1>1. rows' = rows /\ clock' = clock /\ tx' = tx /\ archived' \subseteq Accounts
  BY RequestsAssumption, Zenon DEF ArchiveRow, Isolated, Numbered, TypeOK
<1>2. Numbered'
  BY <1>1, Zenon DEF Isolated, Numbered, TypeOK
<1> QED BY <1>1, <1>2, Zenon DEF Isolated

-----------------------------------------------------------------------------
(* The theorem. *)

LEMMA IsolatedStarts ==
  ASSUME TxInit
  PROVE  Isolated
<1>1. rows = {} /\ clock = 0 /\ archived = {} /\ tx = [w \in Writers |-> Idle]
  BY Zenon DEF TxInit, Init
<1>2. Numbered
  BY <1>1, RequestsAssumption DEF Numbered, TypeOK, HandGroups, OwnIds
<1>3. \A w \in Writers : tx[w] = Idle
  BY <1>1, Zenon
<1>4. IsTable(tx)
  BY <1>1 DEF IsTable
<1>5. OneHolder(tx)
  BY <1>3, IdleKnows DEF OneHolder
<1> QED BY <1>2, <1>3, <1>4, <1>5, IdleKnows, Zenon DEF Isolated

LEMMA IsolatedStep ==
  ASSUME Isolated, [TxNext]_txvars
  PROVE  Isolated'
<1>1. CASE UNCHANGED txvars
  <2>1. rows' = rows /\ clock' = clock /\ archived' = archived /\ tx' = tx
    BY <1>1, Zenon DEF txvars
  <2> QED BY <2>1, Zenon DEF Isolated, Numbered, TypeOK
<1>2. CASE ArchiveRow
  BY <1>2, ArchiveStep, Zenon
<1>3. CASE \E w \in Writers : Ask(w, Requests) \/ Lock(w) \/ Read(w) \/ Commit(w) \/ Abort(w)
  BY <1>3, AskStep, LockStep, ReadStep, CommitStep, AbortStep, Zenon
<1> QED BY <1>1, <1>2, <1>3, Zenon DEF TxNext

LEMMA IsolatedAlways == TxSpec => []Isolated
<1>1. TxInit => Isolated
  BY IsolatedStarts
<1>2. Isolated /\ [TxNext]_txvars => Isolated'
  BY IsolatedStep
<1> QED BY <1>1, <1>2, PTL DEF TxSpec

\* What a transaction is judging is what the table holds on every account it has
\* locked, whoever writes, imports or archives meanwhile (WithAccountsLocked):
\* no write is judged from a journal another has changed since.
THEOREM WhatIsJudgedStands == TxSpec => []JudgesWhatStands
<1>1. Isolated => JudgesWhatStands
  <2> SUFFICES ASSUME Isolated, NEW w \in Writers, tx[w].step = "judging"
               PROVE  {r \in tx[w].seen : r.acct \in tx[w].want}
                        = {r \in rows : r.acct \in tx[w].want}
    BY Zenon DEF JudgesWhatStands
  <2>1. tx[w].held = tx[w].want /\ Agrees(tx[w].seen, tx[w].held, rows)
    BY Zenon DEF Isolated, Knows, Judging
  <2> QED BY <2>1 DEF Agrees
<1> QED BY <1>1, IsolatedAlways, PTL

\* The rows the transactions leave are typed, each of its own number, and no row
\* of a hand entry is of a group an importer named.
THEOREM RowsAreNumbered == TxSpec => []Numbered
<1>1. Isolated => Numbered
  BY Zenon DEF Isolated
<1> QED BY <1>1, IsolatedAlways, PTL


-----------------------------------------------------------------------------
(* A request judged over what was read is judged over the table. *)

\* Accepted, d over what was read writes what e over the table writes.
SameWrite(d, e) == (d.ok => e.ok) /\ e.remove = d.remove /\ e.add = d.add

LEMMA SameAccepted ==
  ASSUME NEW d, NEW e, SameWrite(d, e), Accepted(d)
  PROVE  Accepted(e)
BY Zenon DEF SameWrite, Accepted, After

\* The journal of an account both hold alike is the same journal.
LEMMA SameJournal ==
  ASSUME NEW some, NEW accts, Agrees(some, accts, rows), NEW a \in accts
  PROVE  RowsOf(some, a) = RowsOf(rows, a)
BY DEF Agrees, RowsOf

LEMMA CheckedAlike ==
  ASSUME NEW some, NEW accts, Agrees(some, accts, rows), NEW gone, NEW new,
         NEW on, on \subseteq accts, Checked(some, gone, new, on)
  PROVE  Checked(rows, gone, new, on)
<1> SUFFICES ASSUME NEW a \in on
             PROVE  AccountReplays((rows \ gone) \cup new, a)
  BY Zenon DEF Checked
<1>1. AccountReplays((some \ gone) \cup new, a)
  BY Zenon DEF Checked
<1>2. RowsOf((some \ gone) \cup new, a) = RowsOf((rows \ gone) \cup new, a)
  BY DEF Agrees, RowsOf
<1> QED BY <1>1, <1>2, Zenon DEF AccountReplays, JournalOf

LEMMA StampedAlike ==
  ASSUME NEW some, NEW accts, Agrees(some, accts, rows), NEW new,
         AcctsOf(new) \subseteq accts
  PROVE  AsChecked(some \ {}, clock, new) = AsChecked(rows \ {}, clock, new)
<1>1. some \ {} = some /\ rows \ {} = rows
  OBVIOUS
<1>2. \A n \in new : RowsOf(some, n.acct) = RowsOf(rows, n.acct)
  BY SameJournal, Zenon DEF AcctsOf
<1> DEFINE At(X, n) == [n EXCEPT !.stamp = CheckStamp(RowsOf(X, n.acct), clock) + (n.id - clock)]
<1>3. \A n \in new : At(some, n) = At(rows, n)
  BY <1>2, Zenon
<1>4. /\ AsChecked(some, clock, new) = {At(some, n) : n \in new}
      /\ AsChecked(rows, clock, new) = {At(rows, n) : n \in new}
  BY Zenon DEF AsChecked
<1> HIDE DEF At
<1>5. {At(some, n) : n \in new} = {At(rows, n) : n \in new}
  BY <1>3, Zenon
<1> QED BY <1>1, <1>4, <1>5, Zenon

LEMMA HandAlike ==
  ASSUME NEW some, NEW accts, Agrees(some, accts, rows), NEW legs,
         NEW cond, NEW holds, cond => holds,
         AcctsOf(Stored(clock, legs)) \subseteq accts
  PROVE  SameWrite(HandDelta(some, clock, legs, {}, cond),
                   HandDelta(rows, clock, legs, {}, holds))
<1> DEFINE new == Stored(clock, legs)
           d == HandDelta(some, clock, legs, {}, cond)
           e == HandDelta(rows, clock, legs, {}, holds)
           asked == AsChecked(some \ {}, clock, new)
<1>1. AsChecked(rows \ {}, clock, new) = asked
  BY StampedAlike, Zenon
<1>2. d.remove = {} /\ d.add = new /\ (d.ok => cond /\ Checked(some, {}, asked, AcctsOf(new \cup {})))
  BY DEF HandDelta
<1>3. e.remove = {} /\ e.add = new
      /\ e.ok = (holds /\ Checked(rows, {}, AsChecked(rows \ {}, clock, new), AcctsOf(new \cup {})))
  BY DEF HandDelta
<1>4. AcctsOf(new \cup {}) \subseteq accts
  <2>1. new \cup {} = new
    OBVIOUS
  <2> QED BY <2>1
<1> HIDE DEF d, e, new, asked
<1>5. d.ok => e.ok
  BY <1>1, <1>2, <1>3, <1>4, CheckedAlike, Zenon
<1> QED BY <1>2, <1>3, <1>5, Zenon DEF SameWrite, d, e

LEMMA RestateAlike ==
  ASSUME NEW some, NEW accts, Agrees(some, accts, rows), NEW old, NEW new,
         NEW cond, NEW holds, cond => holds, AcctsOf(old \cup new) \subseteq accts
  PROVE  SameWrite(RestateDelta(some, old, new, cond), RestateDelta(rows, old, new, holds))
<1> DEFINE d == RestateDelta(some, old, new, cond)
           e == RestateDelta(rows, old, new, holds)
<1>1. d.remove = old /\ d.add = new /\ (d.ok => cond /\ Checked(some, old, new, AcctsOf(old \cup new)))
  BY DEF RestateDelta
<1>2. e.remove = old /\ e.add = new
      /\ e.ok = (holds /\ Checked(rows, old, new, AcctsOf(old \cup new)))
  BY DEF RestateDelta
<1> HIDE DEF d, e
<1>3. d.ok => e.ok
  BY <1>1, <1>2, CheckedAlike, Zenon
<1> QED BY <1>1, <1>2, <1>3, Zenon DEF SameWrite, d, e

\* A create.
LEMMA CreateAlike ==
  ASSUME Numbered, NEW t, Judging(t, rows, clock), t.req[1] = "create",
         DeltaOf(t.req, t.seen, t.held).ok
  PROVE  SameWrite(DeltaOf(t.req, t.seen, t.held), Create(rows, clock, t.req[2]))
<1> DEFINE op == t.req[2]
           d == DeltaOf(t.req, t.seen, t.held)
<1>1. Agrees(t.seen, t.held, rows)
  BY Zenon DEF Judging
<1>2. d = HandDelta(t.seen, clock, <<op>>, {}, ValidHand(op) /\ Replaceable(t.seen, {}))
  BY DEF DeltaOf, Create, CreateReplacing
<1>3. Lawful(d, TicksOf(t.req), t.held)
  BY JudgedIsLawful, Zenon
<1>4. d.remove = {} /\ d.add = Stored(clock, <<op>>)
  BY <1>2 DEF HandDelta
<1> HIDE DEF d
<1>5. AcctsOf(Stored(clock, <<op>>)) \subseteq t.held
  <2>1. {} \cup d.add = d.add
    OBVIOUS
  <2> QED BY <1>3, <1>4, <2>1, Zenon DEF Lawful
<1>6. Replaceable(rows, {})
  BY Zenon DEF Replaceable, Whole
<1>7. ValidHand(op) /\ Replaceable(t.seen, {}) => ValidHand(op) /\ Replaceable(rows, {})
  BY <1>6, Zenon
<1> HIDE DEF op
<1>8. SameWrite(HandDelta(t.seen, clock, <<op>>, {}, ValidHand(op) /\ Replaceable(t.seen, {})),
                HandDelta(rows, clock, <<op>>, {}, ValidHand(op) /\ Replaceable(rows, {})))
  BY <1>1, <1>5, <1>7, HandAlike, Zenon
<1> QED BY <1>2, <1>8, Zenon DEF Create, CreateReplacing, op, d

\* A transfer is worked out from the journal it leaves.
LEMMA TransferOf ==
  ASSUME NEW some, NEW other, NEW c, NEW p, RowsOf(some, p.from) = RowsOf(other, p.from)
  PROVE  \E legs, cond : /\ CreateTransfer(some, c, p) = HandDelta(some, c, legs, {}, cond)
                         /\ CreateTransfer(other, c, p) = HandDelta(other, c, legs, {}, cond)
<1> DEFINE source == RowsOf(some, p.from)
           byHand == p.basis >= 0
           cur == CurrencyOf(source, p.paper)
           r == IF byHand THEN [ok |-> TRUE, lots |-> <<>>]
                ELSE Release(UpToDay(source, p.day), p.paper, p.qty)
           two == TransferLegs(p, cur, r.lots, IF byHand THEN p.basis ELSE LotsCost(r.lots))
           legs == Pair(c, two.out, two.in)
           cond == p.from # p.to /\ p.qty > 0 /\ cur # 0 /\ r.ok
<1>1. CreateTransfer(some, c, p) = HandDelta(some, c, legs, {}, cond)
  BY Zenon DEF CreateTransfer
<1>2. CreateTransfer(other, c, p) = HandDelta(other, c, legs, {}, cond)
  BY Zenon DEF CreateTransfer
<1> HIDE DEF legs, cond
<1> QED BY <1>1, <1>2, Zenon

LEMMA TransferAlike ==
  ASSUME Numbered, NEW t, Judging(t, rows, clock), t.req[1] = "transfer",
         DeltaOf(t.req, t.seen, t.held).ok
  PROVE  SameWrite(DeltaOf(t.req, t.seen, t.held), CreateTransfer(rows, clock, t.req[2]))
<1> DEFINE p == t.req[2]
           d == DeltaOf(t.req, t.seen, t.held)
<1>1. Agrees(t.seen, t.held, rows) /\ p.from \in t.held
  BY Zenon DEF Judging, Wanted
<1>2. d = CreateTransfer(t.seen, clock, p)
  BY DEF DeltaOf
<1>3. RowsOf(t.seen, p.from) = RowsOf(rows, p.from)
  BY <1>1, SameJournal, Zenon
<1>4. Lawful(d, TicksOf(t.req), t.held)
  BY JudgedIsLawful, Zenon
<1> HIDE DEF p, d
<1>5. PICK legs, cond : /\ CreateTransfer(t.seen, clock, p) = HandDelta(t.seen, clock, legs, {}, cond)
                        /\ CreateTransfer(rows, clock, p) = HandDelta(rows, clock, legs, {}, cond)
  BY <1>3, TransferOf, SMT
<1>6. d.remove = {} /\ d.add = Stored(clock, legs)
  BY <1>2, <1>5 DEF HandDelta
<1>7. AcctsOf(Stored(clock, legs)) \subseteq t.held
  <2>1. {} \cup d.add = d.add
    OBVIOUS
  <2>2. AcctsOf(d.remove \cup d.add) \subseteq t.held
    BY <1>4, Zenon DEF Lawful
  <2> QED BY <1>6, <2>1, <2>2
<1>8. SameWrite(HandDelta(t.seen, clock, legs, {}, cond), HandDelta(rows, clock, legs, {}, cond))
  BY <1>1, <1>7, HandAlike, Zenon
<1> QED BY <1>2, <1>5, <1>8, Zenon DEF p, d

\* Two tables of pairs that share a pair's legs share the pair.
LEMMA SamePair ==
  ASSUME NEW some, NEW table, AllPaired(some), AllPaired(table),
         NEW r \in some, r \in table, Legs(some, r.group) \subseteq table
  PROVE  Legs(some, r.group) = Legs(table, r.group)
<1>1. CASE r.group = 0
  BY <1>1 DEF Legs
<1>2. CASE r.group # 0
  <2>1. PICK s \in some : s # r /\ Legs(some, r.group) = {r, s}
    BY <1>2, Zenon DEF AllPaired, Paired
  <2>2. s \in table /\ s.group = r.group
    BY <2>1 DEF Legs
  <2>3. Legs(table, r.group) = {r, s}
    BY <1>2, <2>1, <2>2, Mates, Zenon
  <2> QED BY <2>1, <2>3
<1> QED BY <1>1, <1>2

\* A deletion takes the pair the table holds.
LEMMA DeleteAlike ==
  ASSUME Numbered, AllPaired(rows), NEW t, Judging(t, rows, clock), AllPaired(t.seen),
         t.req[1] = "delete", DeltaOf(t.req, t.seen, t.held).ok
  PROVE  \E op \in rows : SameWrite(DeltaOf(t.req, t.seen, t.held), Delete(rows, op))
<1> DEFINE id == t.req[2]
           r == CHOOSE x \in t.seen : x.id = id
           gone == {r} \cup Legs(t.seen, r.group)
           d == DeltaOf(t.req, t.seen, t.held)
<1>1. d = IF RowsNamed(t.seen, {id}) = {} THEN Refusal ELSE Delete(t.seen, r)
  BY DEF DeltaOf, OnRow
<1>2. RowsNamed(t.seen, {id}) # {} /\ d = Delete(t.seen, r)
  <2> HIDE DEF r, id
  <2>1. d.ok
    OBVIOUS
  <2> HIDE DEF d
  <2> QED BY <1>1, <2>1 DEF Refusal
<1>3. r \in t.seen
  <2> HIDE DEF id
  <2> QED BY <1>2, RowFound, Zenon
<1>4. Agrees(t.seen, t.held, rows) /\ Lawful(d, TicksOf(t.req), t.held)
  BY JudgedIsLawful, Zenon DEF Judging
<1> HIDE DEF r, d
<1>5. d = RestateDelta(t.seen, gone, {}, r \in t.seen /\ OwnedByHand(r))
  BY <1>2, Zenon DEF Delete
<1>6. d.remove = gone /\ d.add = {}
  <2> HIDE DEF gone
  <2> QED BY <1>5 DEF RestateDelta
<1>7. gone \subseteq rows /\ AcctsOf(gone \cup {}) \subseteq t.held
  BY <1>4, <1>6, Zenon DEF Lawful
<1>8. r \in rows /\ Legs(t.seen, r.group) \subseteq rows
  BY <1>7
<1>9. gone = {r} \cup Legs(rows, r.group)
  <2>1. Legs(t.seen, r.group) = Legs(rows, r.group)
    BY <1>3, <1>8, SamePair, Zenon
  <2> QED BY <2>1, Zenon
<1>10. Delete(rows, r) = RestateDelta(rows, gone, {}, r \in rows /\ OwnedByHand(r))
  BY <1>9, Zenon DEF Delete
<1> HIDE DEF gone
<1>11. SameWrite(RestateDelta(t.seen, gone, {}, r \in t.seen /\ OwnedByHand(r)),
                 RestateDelta(rows, gone, {}, r \in rows /\ OwnedByHand(r)))
  BY <1>4, <1>7, <1>8, RestateAlike, Zenon
<1> QED BY <1>5, <1>8, <1>10, <1>11, Zenon DEF d

-----------------------------------------------------------------------------
(* Where an arrival's shares have gone. *)

\* The accounts hold the arrival and every move on of its shares from one of them.
Follows(some, arrival, accts) ==
  /\ arrival.acct \in accts
  /\ \A o \in some : o.acct \in accts /\ MovesOnward(o, arrival)
                       => AcctsOf(ArrivingLeg(some, o)) \subseteq accts

LEMMA OnwardIs ==
  ASSUME NEW some, NEW arrival
  PROVE  OnwardAccounts(some, arrival)
           = {a \in AcctsOf(some) :
                \A accts \in SUBSET AcctsOf(some) : Follows(some, arrival, accts) => a \in accts}
<1> DEFINE On(accts) == {r \in some : r.acct \in accts /\ MovesOnward(r, arrival)}
           Onto(accts) == AcctsOf(UNION {ArrivingLeg(some, o) : o \in On(accts)})
           Followed(accts) == arrival.acct \in accts /\ Onto(accts) \subseteq accts
           N == {a \in AcctsOf(some) : \A accts \in SUBSET AcctsOf(some) : Followed(accts) => a \in accts}
<1>1. OnwardAccounts(some, arrival) = N
  BY Zenon DEF OnwardAccounts
<1>2. \A accts : Followed(accts) <=> Follows(some, arrival, accts)
  <2> TAKE accts
  <2>1. Onto(accts) \subseteq accts
          <=> \A o \in On(accts) : AcctsOf(ArrivingLeg(some, o)) \subseteq accts
    BY DEF AcctsOf
  <2> QED BY <2>1, Zenon DEF Follows
<1> HIDE DEF Followed
<1> QED BY <1>1, <1>2

\* They follow the shares wherever these go.
LEMMA OnwardFollows ==
  ASSUME NEW some, NEW arrival \in some
  PROVE  /\ OnwardAccounts(some, arrival) \subseteq AcctsOf(some)
         /\ Follows(some, arrival, OnwardAccounts(some, arrival))
<1> DEFINE N == OnwardAccounts(some, arrival)
<1>1. N = {a \in AcctsOf(some) :
             \A accts \in SUBSET AcctsOf(some) : Follows(some, arrival, accts) => a \in accts}
  BY OnwardIs, Zenon
<1> HIDE DEF N
<1>2. arrival.acct \in N
  BY <1>1, Zenon DEF Follows, AcctsOf
<1>3. ASSUME NEW o \in some, o.acct \in N, MovesOnward(o, arrival), NEW s \in ArrivingLeg(some, o)
      PROVE  s.acct \in N
  <2>1. s.acct \in AcctsOf(some)
    BY <1>3, Zenon DEF ArrivingLeg, Legs, AcctsOf
  <2>2. ASSUME NEW accts \in SUBSET AcctsOf(some), Follows(some, arrival, accts)
        PROVE  s.acct \in accts
    <3>1. o.acct \in accts
      BY <1>1, <1>3, <2>2, Zenon
    <3>2. AcctsOf(ArrivingLeg(some, o)) \subseteq accts
      BY <1>3, <2>2, <3>1, Zenon DEF Follows
    <3> QED BY <1>3, <3>2, Zenon DEF AcctsOf
  <2> QED BY <1>1, <2>1, <2>2, Zenon
<1>4. Follows(some, arrival, N)
  BY <1>2, <1>3, Zenon DEF Follows, AcctsOf
<1>5. N \subseteq AcctsOf(some)
  BY <1>1
<1> QED BY <1>4, <1>5 DEF N

LEMMA OnwardLeast ==
  ASSUME NEW some, NEW arrival, NEW accts, accts \subseteq AcctsOf(some),
         Follows(some, arrival, accts)
  PROVE  OnwardAccounts(some, arrival) \subseteq accts
BY OnwardIs, Zenon

\* A move leaves one leg here and the other where it arrives.
LEMMA ArrivingAlike ==
  ASSUME NEW some, NEW table, AllPaired(some), AllPaired(table),
         NEW o \in some, o \in table, o.typ = "transfer_out", o.group # 0,
         ArrivingLeg(some, o) \subseteq table
  PROVE  ArrivingLeg(some, o) = ArrivingLeg(table, o)
<1>1. PICK s \in some : s # o /\ Legs(some, o.group) = {o, s} /\ OneParcel(o, s)
  BY Zenon DEF AllPaired, Paired
<1>2. s.typ = "transfer_in"
  BY <1>1 DEF OneParcel, TransferLeg
<1>3. s \in ArrivingLeg(some, o)
  BY <1>1, <1>2 DEF ArrivingLeg
<1>4. Legs(some, o.group) \subseteq table
  BY <1>1, <1>3
<1>5. Legs(some, o.group) = Legs(table, o.group)
  BY <1>4, SamePair, Zenon
<1> QED BY <1>5, Zenon DEF ArrivingLeg

\* Accounts that hold everywhere the shares went, as read, are where the table
\* says they went.
LEMMA OnwardAlike ==
  ASSUME AllPaired(rows), NEW some, AllPaired(some),
         NEW accts, Agrees(some, accts, rows), NEW op \in some,
         OnwardAccounts(some, op) \subseteq accts
  PROVE  /\ op \in rows
         /\ OnwardAccounts(rows, op) = OnwardAccounts(some, op)
<1> DEFINE N == OnwardAccounts(some, op)
           M == OnwardAccounts(rows, op)
<1>1. N \subseteq AcctsOf(some) /\ Follows(some, op, N)
  BY OnwardFollows, Zenon
<1> HIDE DEF N
<1>2. N \subseteq accts
  BY DEF N
<1>3. op \in rows
  BY <1>1, <1>2, Zenon DEF Follows, Agrees
<1>4. M \subseteq AcctsOf(rows) /\ Follows(rows, op, M)
  BY <1>3, OnwardFollows, Zenon
<1> HIDE DEF M
<1>5. ASSUME NEW o, o.acct \in N, o \in some \/ o \in rows, MovesOnward(o, op)
      PROVE  /\ o \in some /\ o \in rows
             /\ ArrivingLeg(some, o) = ArrivingLeg(rows, o)
             /\ AcctsOf(ArrivingLeg(some, o)) \subseteq N
  <2>1. o \in some /\ o \in rows
    BY <1>2, <1>5, Zenon DEF Agrees
  <2>2. AcctsOf(ArrivingLeg(some, o)) \subseteq N
    BY <1>1, <1>5, <2>1, Zenon DEF Follows
  <2>3. ArrivingLeg(some, o) \subseteq rows
    BY <1>2, <2>2, Zenon DEF AcctsOf, Agrees, ArrivingLeg, Legs
  <2>4. ArrivingLeg(some, o) = ArrivingLeg(rows, o)
    BY <1>5, <2>1, <2>3, ArrivingAlike, Zenon DEF MovesOnward
  <2> QED BY <2>1, <2>2, <2>4
<1>6. M \subseteq N
  <2>1. N \subseteq AcctsOf(rows)
    BY <1>1, <1>2, Zenon DEF AcctsOf, Agrees
  <2>2. Follows(rows, op, N)
    <3>1. op.acct \in N
      BY <1>1, Zenon DEF Follows
    <3> QED BY <1>5, <3>1, Zenon DEF Follows
  <2> QED BY <2>1, <2>2, OnwardLeast, Zenon DEF M
<1>7. N \subseteq M
  <2>1. M \subseteq AcctsOf(some)
    BY <1>1, <1>6, Zenon
  <2>2. Follows(some, op, M)
    <3>1. op.acct \in M
      BY <1>4, Zenon DEF Follows
    <3>2. ASSUME NEW o \in some, o.acct \in M, MovesOnward(o, op)
          PROVE  AcctsOf(ArrivingLeg(some, o)) \subseteq M
      <4>1. o \in rows /\ ArrivingLeg(some, o) = ArrivingLeg(rows, o)
        BY <1>5, <1>6, <3>2, Zenon
      <4>2. AcctsOf(ArrivingLeg(rows, o)) \subseteq M
        BY <1>4, <3>2, <4>1, Zenon DEF Follows
      <4> QED BY <4>1, <4>2, Zenon
    <3> QED BY <3>1, <3>2, Zenon DEF Follows
  <2> QED BY <2>1, <2>2, OnwardLeast, Zenon DEF N
<1> QED BY <1>3, <1>6, <1>7 DEF N, M

\* A statement is worked out from the journals the shares went through.
LEMMA StatingOf ==
  ASSUME NEW some, NEW table, NEW op, NEW pieces, op \in table,
         OnwardAccounts(table, op) = OnwardAccounts(some, op),
         {r \in table : r.acct \in OnwardAccounts(some, op)}
           = {r \in some : r.acct \in OnwardAccounts(some, op)}
  PROVE  \E old, new, cond, holds :
           /\ cond => holds
           /\ StatePurchases(some, op, pieces) = RestateDelta(some, old, new, cond)
           /\ StatePurchases(table, op, pieces) = RestateDelta(table, old, new, holds)
<1> DEFINE accts == OnwardAccounts(some, op)
           J == {r \in some : r.acct \in accts}
           stated == [op EXCEPT !.lots = pieces, !.amount = LotsCost(pieces)]
           settled == ReleaseOnward((J \ {op}) \cup {stated}, op)
           old == J \ settled.pos
           new == WithBreakdowns(old, settled.pos)
           fit == /\ op.typ = "transfer_in" /\ op.group = 0
                  /\ StatedFit(op, pieces) /\ settled.ok
                  /\ \A a \in accts : AccountReplays(settled.pos, a)
           Cond(X) == /\ op \in X /\ op.typ = "transfer_in" /\ op.group = 0
                      /\ StatedFit(op, pieces) /\ settled.ok
                      /\ \A a \in accts : AccountReplays(settled.pos, a)
<1>1. StatePurchases(some, op, pieces) = RestateDelta(some, old, new, Cond(some))
  BY Zenon DEF StatePurchases
<1>2. StatePurchases(table, op, pieces) = RestateDelta(table, old, new, Cond(table))
  <2>1. {r \in table : r.acct \in OnwardAccounts(table, op)} = J
    BY Zenon
  <2> DEFINE K == {r \in table : r.acct \in OnwardAccounts(table, op)}
             then == ReleaseOnward((K \ {op}) \cup {stated}, op)
             gone == K \ then.pos
  <2>2. StatePurchases(table, op, pieces)
          = RestateDelta(table, gone, WithBreakdowns(gone, then.pos),
                         /\ op \in table /\ op.typ = "transfer_in" /\ op.group = 0
                         /\ StatedFit(op, pieces) /\ then.ok
                         /\ \A a \in OnwardAccounts(table, op) : AccountReplays(then.pos, a))
    BY Zenon DEF StatePurchases
  <2> HIDE DEF J, K, stated
  <2>3. K = J
    BY <2>1, Zenon DEF K
  <2>4. then = settled
    BY <2>3, Zenon
  <2> HIDE DEF settled, then
  <2>5. gone = old
    BY <2>3, <2>4, Zenon
  <2> HIDE DEF gone, old
  <2> QED BY <2>2, <2>4, <2>5, Zenon
<1>3. Cond(some) => Cond(table)
  BY Zenon
<1> HIDE DEF accts, J, stated, settled, old, new, Cond
<1> QED BY <1>1, <1>2, <1>3, SMT

LEMMA StateAlike ==
  ASSUME Numbered, AllPaired(rows), NEW t, Judging(t, rows, clock), AllPaired(t.seen),
         t.req[1] = "state", DeltaOf(t.req, t.seen, t.held).ok
  PROVE  \E op \in rows :
           /\ OnwardAccounts(rows, op) \subseteq t.held /\ op.typ = "transfer_in"
           /\ SameWrite(DeltaOf(t.req, t.seen, t.held), StatePurchases(rows, op, t.req[3]))
<1> DEFINE id == t.req[2]
           r == CHOOSE x \in t.seen : x.id = id
           d == DeltaOf(t.req, t.seen, t.held)
           pieces == t.req[3]
<1>1. d = IF RowsNamed(t.seen, {id}) = {} THEN Refusal
          ELSE IF OnwardAccounts(t.seen, r) \subseteq t.held THEN StatePurchases(t.seen, r, pieces)
          ELSE Refusal
  BY DEF DeltaOf, StatedUnderLocks, OnRow
<1>2. /\ RowsNamed(t.seen, {id}) # {} /\ OnwardAccounts(t.seen, r) \subseteq t.held
      /\ d = StatePurchases(t.seen, r, pieces)
  <2> HIDE DEF r, id, pieces
  <2>1. d.ok
    OBVIOUS
  <2> HIDE DEF d
  <2> QED BY <1>1, <2>1 DEF Refusal
<1>3. r \in t.seen
  <2> HIDE DEF id
  <2> QED BY <1>2, RowFound, Zenon
<1>4. Agrees(t.seen, t.held, rows) /\ Lawful(d, TicksOf(t.req), t.held)
  BY JudgedIsLawful, Zenon DEF Judging
<1> HIDE DEF r, d, pieces
<1>5. r \in rows /\ OnwardAccounts(rows, r) = OnwardAccounts(t.seen, r)
  BY <1>2, <1>3, <1>4, OnwardAlike, Zenon
<1>6. {x \in rows : x.acct \in OnwardAccounts(t.seen, r)}
        = {x \in t.seen : x.acct \in OnwardAccounts(t.seen, r)}
  BY <1>2, <1>4, Zenon DEF Agrees
<1>7. PICK old, new, cond, holds :
        /\ cond => holds
        /\ StatePurchases(t.seen, r, pieces) = RestateDelta(t.seen, old, new, cond)
        /\ StatePurchases(rows, r, pieces) = RestateDelta(rows, old, new, holds)
  BY <1>5, <1>6, StatingOf, SMT
<1>8. d.remove = old /\ d.add = new
  BY <1>2, <1>7 DEF RestateDelta
<1>9. AcctsOf(old \cup new) \subseteq t.held
  BY <1>4, <1>8, Zenon DEF Lawful
<1>10. SameWrite(RestateDelta(t.seen, old, new, cond), RestateDelta(rows, old, new, holds))
  BY <1>4, <1>7, <1>9, RestateAlike, Zenon
<1>11. r.typ = "transfer_in"
  <2>1. StatePurchases(t.seen, r, pieces).ok
    BY <1>2, Zenon DEF d
  <2> QED BY <2>1, Zenon DEF StatePurchases, RestateDelta
<1>12. SameWrite(d, StatePurchases(rows, r, pieces))
  BY <1>2, <1>7, <1>10, Zenon
<1> QED BY <1>2, <1>5, <1>11, <1>12, Zenon DEF d, pieces

-----------------------------------------------------------------------------
(* What an importer hands over. *)

\* A delta of an importer was worked out from rows that stand where they stood,
\* as far as they stand.
Reported(req, some) ==
  \E events, from :
    /\ events \in {<<>>} \cup {<<e>> : e \in Events}
    /\ IsFiniteSet(from) /\ Cardinality(from) <= MaxRemoved
    /\ OwnIds(from) /\ Unique(from) /\ \A r \in from : r.src # "manual"
    /\ req[2] = Asked(events, from) /\ req[3] = {r.id : r \in from}
    /\ \A x \in some : x.id \in req[3] => \E y \in from : InPlaceOf(x, y)

\* Rows of their own numbers are as many as their numbers.
LEMMA NumbersCount ==
  ASSUME NEW some, IsFiniteSet(some), OwnIds(some)
  PROVE  LET ids == {r.id : r \in some}
         IN IsFiniteSet(ids) /\ Cardinality(ids) = Cardinality(some)
<1> DEFINE ids == {r.id : r \in some}
           f == [r \in some |-> r.id]
<1>1. f \in [some -> ids]
  OBVIOUS
<1>2. \A r, s \in some : f[r] = f[s] => r = s
  BY Zenon DEF OwnIds
<1>3. \A i \in ids : \E r \in some : f[r] = i
  OBVIOUS
<1> HIDE DEF f, ids
<1>4. f \in Bijection(some, ids)
  BY <1>1, <1>2, <1>3 DEF Bijection, Injection, Surjection, IsInjective
<1>5. ExistsBijection(some, ids)
  BY <1>4 DEF ExistsBijection
<1> QED BY <1>5, FS_Bijection DEF ids

\* Rows in the places of as many are in the place of each.
LEMMA EachInPlace ==
  ASSUME NEW from, IsFiniteSet(from), OwnIds(from), NEW found, IsFiniteSet(found), OwnIds(found),
         \A x \in found : \E y \in from : InPlaceOf(x, y),
         Cardinality(found) = Cardinality({r.id : r \in from})
  PROVE  /\ Cardinality(found) = Cardinality(from)
         /\ \A y \in from : \E x \in found : InPlaceOf(x, y)
<1> DEFINE ids == {r.id : r \in from}
           here == {r.id : r \in found}
<1>1. IsFiniteSet(ids) /\ Cardinality(ids) = Cardinality(from)
  BY NumbersCount, Zenon
<1>2. Cardinality(here) = Cardinality(found)
  BY NumbersCount, Zenon
<1>3. here \in SUBSET ids
  BY DEF InPlaceOf
<1>4. Cardinality(found) = Cardinality(ids)
  OBVIOUS
<1>5. here = ids
  <2> HIDE DEF here, ids
  <2> QED BY <1>1, <1>2, <1>3, <1>4, FS_Subset, Zenon
<1>6. ASSUME NEW y \in from PROVE \E x \in found : InPlaceOf(x, y)
  <2>1. PICK x \in found : x.id = y.id
    <3>1. y.id \in here
      BY <1>5, Zenon
    <3> QED BY <3>1, Zenon
  <2>2. PICK z \in from : InPlaceOf(x, z)
    BY Zenon
  <2>3. z = y
    <3>1. z.id = y.id
      BY <2>1, <2>2, Zenon DEF InPlaceOf
    <3> HIDE DEF ids, here
    <3> QED BY <3>1, Zenon DEF OwnIds
  <2> QED BY <2>2, <2>3, Zenon
<1> QED BY <1>1, <1>4, <1>6, Zenon

\* What a correction inherits does not depend on when its record was read.
LEMMA PlaceAlike ==
  ASSUME NEW from, Unique(from), NEW found, Unique(found),
         \A x \in found : \E y \in from : InPlaceOf(x, y),
         \A y \in from : \E x \in found : InPlaceOf(x, y),
         NEW leg, leg.ext # 0
  PROVE  InheritsPlace(leg, found) = InheritsPlace(leg, from)
<1> DEFINE Old(S) == {r \in S : r.acct = leg.acct /\ r.src = leg.src /\ r.ext = leg.ext}
           One(S) == CHOOSE r \in Old(S) : TRUE
<1>1. \A S : InheritsPlace(leg, S) = IF Old(S) = {} THEN leg ELSE [leg EXCEPT !.stamp = One(S).stamp]
  BY Zenon DEF InheritsPlace
<1>2. \A x \in found, y \in from : InPlaceOf(x, y) => (x \in Old(found) <=> y \in Old(from))
  BY Zenon DEF InPlaceOf
<1>3. Old(found) = {} <=> Old(from) = {}
  <2>1. Old(found) \subseteq found /\ Old(from) \subseteq from
    OBVIOUS
  <2> HIDE DEF Old
  <2> QED BY <1>2, <2>1
<1>4. CASE Old(found) = {}
  BY <1>1, <1>3, <1>4
<1>5. CASE Old(found) # {}
  <2> DEFINE x == One(found)
             z == One(from)
  <2>1. x \in Old(found) /\ z \in Old(from)
    <3> HIDE DEF Old
    <3>1. Old(found) # {} /\ Old(from) # {}
      BY <1>3, <1>5
    <3> QED BY <3>1
  <2> HIDE DEF x, z
  <2>2. PICK y \in from : InPlaceOf(x, y)
    BY <2>1
  <2>3. y = z
    <3>1. /\ x.acct = leg.acct /\ x.src = leg.src /\ x.ext = leg.ext
          /\ z.acct = leg.acct /\ z.src = leg.src /\ z.ext = leg.ext /\ z \in from
      BY <2>1
    <3>2. SameRecord(y, z) /\ y.ext # 0
      BY <2>2, <3>1, Zenon DEF InPlaceOf, SameRecord
    <3> QED BY <3>1, <3>2, Zenon DEF Unique
  <2>4. x.stamp = z.stamp
    BY <2>2, <2>3, Zenon DEF InPlaceOf
  <2> HIDE DEF Old, One
  <2> QED BY <1>1, <1>3, <1>5, <2>4 DEF x, z
<1> QED BY <1>4, <1>5

\* A delta on accounts held is judged from their journals alone.
LEMMA DeltaAlike ==
  ASSUME AllPaired(rows), NEW some, AllPaired(some), NEW accts, Agrees(some, accts, rows),
         NEW add, NEW remove, remove \subseteq rows,
         AcctsOf(remove \cup LegsOf(add)) \subseteq accts,
         AcctsOf(remove \cup ApplyImportDelta(some, clock, add, remove).add) \subseteq accts
  PROVE  SameWrite(ApplyImportDelta(some, clock, add, remove),
                   ApplyImportDelta(rows, clock, add, remove))
<1> DEFINE on == AcctsOf(remove \cup LegsOf(add))
           Kept(X) == {r \in X \ remove : r.acct \in on}
           kept == Kept(some)
           stamped == Stamped(add, clock, Base(kept, clock, LegsOf(add)))
           offer == Offered(kept, Ordered(add, stamped), on)
           stored == Inserted(LegsOf(stamped), offer.pos)
           d == ApplyImportDelta(some, clock, add, remove)
           e == ApplyImportDelta(rows, clock, add, remove)
<1>1. \A X : ApplyImportDelta(X, clock, add, remove)
               = WrittenOf(X, add, remove, Kept(X),
                           Stamped(add, clock, Base(Kept(X), clock, LegsOf(add))),
                           Offered(Kept(X), Ordered(add, Stamped(add, clock, Base(Kept(X), clock, LegsOf(add)))), on))
  BY Zenon DEF ApplyImportDelta, ImportIn, ImportOver, ImportAsked
<1>2. Kept(rows) = kept
  BY Zenon DEF Agrees
<1> HIDE DEF on, Kept
<1>3. /\ d = Written(some, add, remove, kept, offer, stored)
      /\ e = Written(rows, add, remove, kept, offer, stored)
  BY <1>1, <1>2, Zenon DEF WrittenOf
<1> HIDE DEF kept, stamped, offer, stored, d, e
<1>4. d.add = stored /\ d.remove = remove /\ e.add = stored /\ e.remove = remove
  BY <1>3 DEF Written
<1>5. ASSUME d.ok PROVE e.ok
  <2>1. /\ \A i \in DOMAIN add : ImportContract(add[i])
        /\ NamedOnce(add) /\ Removable(some, remove) /\ StampsInherited(LegsOf(add), remove)
        /\ offer.ok /\ Unique(kept \cup stored)
        /\ Checked(some, remove, stored, AcctsOf(remove \cup stored))
    BY <1>3, <1>5 DEF Written
  <2>2. Whole(rows, remove)
    <3> SUFFICES ASSUME NEW r \in remove PROVE Legs(rows, r.group) \subseteq remove
      BY Zenon DEF Whole
    <3>1. r \in some /\ Legs(some, r.group) \subseteq remove
      BY <2>1, Zenon DEF Removable, Whole
    <3>2. r \in rows /\ Legs(some, r.group) \subseteq rows
      BY <3>1
    <3>3. Legs(some, r.group) = Legs(rows, r.group)
      BY <3>1, <3>2, SamePair, Zenon
    <3> QED BY <3>1, <3>3, Zenon
  <2>3. Removable(rows, remove)
    BY <2>1, <2>2, Zenon DEF Removable
  <2>4. Checked(rows, remove, stored, AcctsOf(remove \cup stored))
    BY <1>4, <2>1, CheckedAlike, Zenon DEF d
  <2> QED BY <1>3, <2>1, <2>3, <2>4 DEF Written
<1> QED BY <1>4, <1>5, Zenon DEF SameWrite, d, e

\* A leg that inherits its place keeps the number of its record.
LEMMA RecordKept ==
  ASSUME NEW leg, IsRow(leg), NEW some
  PROVE  InheritsPlace(leg, some).ext = leg.ext
<1> DEFINE old == {s \in some : s.acct = leg.acct /\ s.src = leg.src /\ s.ext = leg.ext}
           c == CHOOSE s \in old : TRUE
<1>1. InheritsPlace(leg, some) = IF old = {} THEN leg ELSE [leg EXCEPT !.stamp = c.stamp]
  BY Zenon DEF InheritsPlace
<1>2. {"ext", "stamp"} \subseteq DOMAIN leg
  BY RowFields, Zenon
<1> HIDE DEF old, c
<1> QED BY <1>1, <1>2, Zenon

LEMMA ImportAlike ==
  ASSUME Numbered, PairedTable, NEW t, Judging(t, rows, clock), AllPaired(t.seen),
         t.req[1] = "import", Reported(t.req, rows), DeltaOf(t.req, t.seen, t.held).ok
  PROVE  \E events \in AtMostTwo(Events), remove \in SUBSET {r \in rows : r.src # "manual"} :
           /\ Cardinality(remove) <= MaxRemoved /\ Len(events) # 2
           /\ TicksOf(t.req) = 2 * Len(events)
           /\ SameWrite(DeltaOf(t.req, t.seen, t.held),
                        ApplyImportDelta(rows, clock, Asked(events, remove), remove))
<1> DEFINE add == t.req[2]
           ids == t.req[3]
           remove == RowsNamed(t.seen, ids)
           d == DeltaOf(t.req, t.seen, t.held)
<1>1. d = IF Cardinality(remove) = Cardinality(ids)
          THEN ApplyImportDelta(t.seen, clock, add, remove) ELSE Refusal
  BY DEF DeltaOf, ImportedUnderLocks
<1>2. /\ Cardinality(remove) = Cardinality(ids)
      /\ d = ApplyImportDelta(t.seen, clock, add, remove) /\ d.ok
  <2> HIDE DEF remove, ids, add
  <2>1. d.ok
    OBVIOUS
  <2> HIDE DEF d
  <2> QED BY <1>1, <2>1 DEF Refusal
<1>3. /\ Agrees(t.seen, t.held, rows) /\ Lawful(d, TicksOf(t.req), t.held)
      /\ Reportable(add, t.held) /\ Located(t.seen, ids, t.held)
  BY JudgedIsLawful, Zenon DEF Judging, Wanted
<1> HIDE DEF d
<1>4. \A x \in remove : x \in t.seen /\ x.id \in ids
  BY Zenon DEF RowsNamed
<1>5. remove \subseteq rows /\ AcctsOf(remove) \subseteq t.held
  BY <1>3, <1>4, Zenon DEF Located, Agrees, AcctsOf
<1>6. PICK events, from :
        /\ events \in {<<>>} \cup {<<e>> : e \in Events}
        /\ IsFiniteSet(from) /\ Cardinality(from) <= MaxRemoved
        /\ OwnIds(from) /\ Unique(from) /\ \A r \in from : r.src # "manual"
        /\ add = Asked(events, from) /\ ids = {r.id : r \in from}
        /\ \A x \in rows : x.id \in ids => \E y \in from : InPlaceOf(x, y)
  BY Zenon DEF Reported
<1> HIDE DEF remove, ids, add
<1>7. \A x \in remove : \E y \in from : InPlaceOf(x, y)
  BY <1>4, <1>5, <1>6, Zenon
<1>8. IsFiniteSet(remove) /\ OwnIds(remove) /\ Unique(remove)
  <2>1. IsFiniteSet(rows) /\ OwnIds(rows) /\ Unique(rows)
    BY TableIs, Zenon DEF PairedTable, Numbered
  <2>2. IsFiniteSet(remove)
    BY <1>5, <2>1, FS_Subset
  <2> QED BY <1>5, <2>1, <2>2, Zenon DEF OwnIds, Unique
<1>9. Cardinality(remove) = Cardinality({r.id : r \in from})
  BY <1>2, <1>6, Zenon
<1>10. Cardinality(remove) = Cardinality(from) /\ \A y \in from : \E x \in remove : InPlaceOf(x, y)
  BY <1>6, <1>7, <1>8, <1>9, EachInPlace, Zenon
<1>11. \A r \in remove : r.src # "manual"
  BY <1>6, <1>7, ZenonT(60) DEF InPlaceOf
<1>12. \A i \in DOMAIN add : ImportContract(add[i])
  BY <1>2 DEF ApplyImportDelta, ImportIn, ImportOver, ImportAsked, WrittenOf, Written
<1> DEFINE n == Len(events)
<1>13. /\ n \in {0, 1} /\ DOMAIN events = 1..n
       /\ \A i \in 1..n : events[i] \in Events
  BY <1>6
<1> HIDE DEF n
<1>14. add = [i \in 1..n |-> Corrected(events[i], from)]
  BY <1>6, <1>13, Zenon DEF Asked
<1>15. ASSUME NEW i \in 1..n
       PROVE  Corrected(events[i], remove) = Corrected(events[i], from)
  <2> DEFINE e == events[i]
  <2>1. add[i] = Corrected(e, from) /\ i \in DOMAIN add
    BY <1>14
  <2>2. e \in Events
    BY <1>13, Zenon
  <2> HIDE DEF e
  <2>3. add[i] = [k \in DOMAIN e |-> InheritsPlace(e[k], from)]
    BY <2>1, Zenon DEF Corrected
  <2>4. ASSUME NEW k \in DOMAIN e
        PROVE  InheritsPlace(e[k], remove) = InheritsPlace(e[k], from)
    <3>1. k \in DOMAIN add[i] /\ add[i][k] = InheritsPlace(e[k], from)
      BY <2>3
    <3>2. add[i][k].ext # 0
      BY <1>12, <2>1, <3>1, Zenon DEF ImportContract
    <3>3. InheritsPlace(e[k], from).ext = e[k].ext
      BY <2>2, RequestsAssumption, RecordKept, Zenon
    <3>4. e[k].ext # 0
      BY <3>1, <3>2, <3>3, Zenon
    <3> QED BY <1>6, <1>7, <1>8, <1>10, <3>4, PlaceAlike, Zenon
  <2>5. Corrected(e, remove) = Corrected(e, from)
    BY <2>4, Zenon DEF Corrected
  <2> QED BY <2>5, Zenon DEF e
<1>16. Asked(events, remove) = add
  <2>1. Asked(events, remove) = [i \in 1..n |-> Corrected(events[i], remove)]
    BY <1>13, Zenon DEF Asked
  <2> QED BY <1>14, <1>15, <2>1, Zenon
<1>17. TicksOf(t.req) = 2 * n
  <2>1. Len(add) = n
    BY <1>13, <1>14
  <2>2. TicksOf(t.req) = 2 * Len(t.req[2])
    BY DEF TicksOf
  <2> QED BY <2>1, <2>2 DEF add
<1>18. SameWrite(d, ApplyImportDelta(rows, clock, add, remove))
  <2>1. AcctsOf(remove \cup LegsOf(add)) \subseteq t.held
    <3>1. ASSUME NEW leg \in LegsOf(add) PROVE leg.acct \in t.held
      <4>1. PICK i \in DOMAIN add : leg \in LegSet(add[i])
        BY <3>1, Zenon DEF LegsOf
      <4>2. PICK k \in DOMAIN add[i] : leg = add[i][k]
        BY <4>1, Zenon DEF LegSet
      <4> QED BY <1>3, <4>1, <4>2, Zenon DEF Reportable, add
    <3> QED BY <1>5, <3>1, Zenon DEF AcctsOf
  <2>2. d.remove = remove
    BY <1>2 DEF ApplyImportDelta, ImportIn, ImportOver, ImportAsked, WrittenOf, Written
  <2>3. AcctsOf(remove \cup ApplyImportDelta(t.seen, clock, add, remove).add) \subseteq t.held
    BY <1>2, <1>3, <2>2, Zenon DEF Lawful
  <2>4. AllPaired(rows)
    BY Zenon DEF PairedTable
  <2> QED BY <1>2, <1>3, <1>5, <2>1, <2>3, <2>4, DeltaAlike, Zenon
<1>19. events \in AtMostTwo(Events) /\ n # 2
  <2>1. events \in AtMostTwo(Events)
    <3>1. events \in {<<>>} \cup {<<e>> : e \in Events}
      BY <1>6, Zenon
    <3> QED BY <3>1 DEF AtMostTwo
  <2>2. n # 2
    BY <1>13
  <2> QED BY <2>1, <2>2
<1>20. remove \in SUBSET {r \in rows : r.src # "manual"}
  BY <1>5, <1>11, Zenon
<1>21. Cardinality(remove) <= MaxRemoved
  BY <1>6, <1>10, Zenon
<1>22. SameWrite(d, ApplyImportDelta(rows, clock, Asked(events, remove), remove))
  BY <1>16, <1>18, Zenon
<1> QED BY <1>17, <1>19, <1>20, <1>21, <1>22, Zenon DEF d, n

-----------------------------------------------------------------------------
(* What a transaction is entitled to ask. *)

\* A request is one of Journal's, made of accounts that are open while they are
\* held, and judged from pairs.
Meant(t, table, shut) ==
  t.step # "idle" =>
    /\ ~ByImporter(t.req) => t.held \cap shut = {}
    /\ t.req[1] = "transfer" => t.req[2] \in Transfers
    /\ t.req[1] = "state" => t.req[3] \in Statements
    /\ ByImporter(t.req) => Reported(t.req, table)
    /\ t.step = "judging" => AllPaired(t.seen)

\* The inductive invariant of the refinement: beside isolation, the table is one
\* of pairs and every request is what it was meant to be.
Refining ==
  Isolated /\ PairedTable /\ \A w \in Writers : Meant(tx[w], rows, archived)

\* What an importer read of a row it names stays where it stood.
LEMMA ReportedLater ==
  ASSUME NEW old, NEW new, NEW c \in Nat, \A x \in new : Continues(old, c, x),
         NEW req, req[3] \subseteq 1..c, Reported(req, old)
  PROVE  Reported(req, new)
<1>1. PICK events, from :
        /\ events \in {<<>>} \cup {<<e>> : e \in Events}
        /\ IsFiniteSet(from) /\ Cardinality(from) <= MaxRemoved
        /\ OwnIds(from) /\ Unique(from) /\ \A r \in from : r.src # "manual"
        /\ req[2] = Asked(events, from) /\ req[3] = {r.id : r \in from}
        /\ \A x \in old : x.id \in req[3] => \E y \in from : InPlaceOf(x, y)
  BY Zenon DEF Reported
<1>2. ASSUME NEW x \in new, x.id \in req[3]
      PROVE  \E y \in from : InPlaceOf(x, y)
  <2>1. ~(x.id > c)
    <3>1. x.id \in 1..c
      BY <1>2, Zenon
    <3> QED BY <3>1
  <2>2. PICK z \in old : InPlaceOf(x, z)
    BY <2>1, Zenon DEF Continues
  <2>3. z.id \in req[3]
    BY <1>2, <2>2, Zenon DEF InPlaceOf
  <2>4. PICK y \in from : InPlaceOf(z, y)
    BY <1>1, <2>3, Zenon
  <2> QED BY <2>2, <2>4, Zenon DEF InPlaceOf
<1> QED BY <1>1, <1>2, Zenon DEF Reported

\* What an importer asks of the table it reads.
LEMMA AskedReported ==
  ASSUME Numbered, PairedTable, NEW req \in ImportsAsked
  PROVE  Reported(req, rows)
<1>1. \E events, from :
        /\ events \in {<<>>} \cup {<<e>> : e \in Events}
        /\ from \in SUBSET {r \in rows : r.src # "manual"} /\ Cardinality(from) <= MaxRemoved
        /\ req = <<"import", Asked(events, from), {r.id : r \in from}>>
  BY DEF ImportsAsked
<1>2. PICK events, from :
        /\ events \in {<<>>} \cup {<<e>> : e \in Events}
        /\ from \in SUBSET {r \in rows : r.src # "manual"} /\ Cardinality(from) <= MaxRemoved
        /\ req = <<"import", Asked(events, from), {r.id : r \in from}>>
  BY <1>1, Zenon
<1>3. from \subseteq rows /\ \A r \in from : r.src # "manual"
  BY <1>2, Zenon
<1>4. IsFiniteSet(rows) /\ OwnIds(rows) /\ Unique(rows)
  BY TableIs, Zenon DEF PairedTable, Numbered
<1>5. IsFiniteSet(from) /\ OwnIds(from) /\ Unique(from)
  <2>1. IsFiniteSet(from)
    BY <1>3, <1>4, FS_Subset
  <2> QED BY <1>3, <1>4, <2>1, Zenon DEF OwnIds, Unique
<1> DEFINE add == Asked(events, from)
           ids == {r.id : r \in from}
<1>6. \A x \in rows : x.id \in ids => \E y \in from : InPlaceOf(x, y)
  <2> SUFFICES ASSUME NEW x \in rows, x.id \in ids
               PROVE  \E y \in from : InPlaceOf(x, y)
    BY Zenon
  <2>1. PICK y \in from : y.id = x.id
    BY Zenon
  <2>2. x = y
    BY <1>3, <1>4, <2>1, Zenon DEF OwnIds
  <2> QED BY <2>2, Zenon DEF InPlaceOf
<1>7. req[2] = add /\ req[3] = ids
  <2>1. req = <<"import", add, ids>>
    BY <1>2, Zenon
  <2> HIDE DEF add, ids
  <2> QED BY <2>1
<1> QED BY <1>2, <1>3, <1>5, <1>6, <1>7, Zenon DEF Reported

\* A step that writes nothing leaves what was meant, where it opens or shuts no
\* account that is held.
LEMMA MeantStill ==
  ASSUME NEW t, NEW table, NEW shut, NEW later, Meant(t, table, shut),
         \A a \in t.held : a \in later => a \in shut
  PROVE  Meant(t, table, later)
BY Zenon DEF Meant

LEMMA IdleMeant ==
  ASSUME NEW table, NEW shut
  PROVE  Meant(Idle, table, shut)
BY DEF Meant, Idle

\* One transaction moves.
LEMMA OneMeans ==
  ASSUME IsTable(tx), NEW w \in Writers, NEW t, tx' = [tx EXCEPT ![w] = t],
         Meant(t, rows', archived'),
         \A v \in Writers : v # w => Meant(tx[v], rows', archived')
  PROVE  \A v \in Writers : Meant(tx'[v], rows', archived')
<1>1. tx = [v \in Writers |-> tx[v]]
  BY Zenon DEF IsTable
<1>2. tx' = [v \in Writers |-> IF v = w THEN t ELSE tx[v]]
  BY <1>1
<1>3. \A v \in Writers : tx'[v] = IF v = w THEN t ELSE tx[v]
  BY <1>2, Zenon
<1> QED BY <1>3, Zenon

-----------------------------------------------------------------------------
(* A commit is a step of Journal. *)

LEMMA CommitImplements ==
  ASSUME Refining, NEW w \in Writers, Commit(w)
  PROVE  UNCHANGED vars \/ Next
<1> DEFINE t == tx[w]
           d == DeltaOf(t.req, t.seen, t.held)
           k == TicksOf(t.req)
<1>1. t.step = "judging" /\ (IF Fits(d, k) THEN Accepted(d) /\ Taking(k) ELSE UNCHANGED vars)
  BY Zenon DEF Commit, Leave
<1>2. CASE ~Fits(d, k)
  BY <1>1, <1>2, Zenon
<1>3. CASE Fits(d, k)
  <2>1. d.ok /\ Accepted(d) /\ Taking(k)
    BY <1>1, <1>3, Zenon DEF Fits
  <2>2. Numbered /\ PairedTable /\ AllPaired(rows) /\ Knows(t, rows, clock) /\ Meant(t, rows, archived)
    BY Zenon DEF Refining, Isolated, PairedTable
  <2>3. Judging(t, rows, clock) /\ AllPaired(t.seen)
    BY <1>1, <2>2 DEF Knows, Meant
  <2>4. t.req[1] \in {"create", "transfer", "delete", "state", "import"}
    BY <2>3, Zenon DEF Judging, Wanted
  <2>5. /\ t.req[1] # "import" => t.held \cap archived = {}
        /\ t.req[1] = "transfer" => t.req[2] \in Transfers
        /\ t.req[1] = "state" => t.req[3] \in Statements
        /\ t.req[1] = "import" => Reported(t.req, rows)
    BY <1>1, <2>2 DEF Meant, ByImporter
  <2>6. Lawful(d, k, t.held)
    BY <2>1, <2>2, <2>3, JudgedIsLawful, Zenon
  <2> HIDE DEF d
  <2>7. ASSUME t.req[1] # "import", NEW e, SameWrite(d, e)
        PROVE  Accepted(e) /\ Open(e)
    <3>1. Accepted(e)
      BY <2>1, <2>7, SameAccepted, Zenon
    <3>2. e.remove \cup e.add = d.remove \cup d.add
      BY <2>7, Zenon DEF SameWrite
    <3>3. AcctsOf(e.remove \cup e.add) \subseteq t.held
      BY <2>6, <3>2, Zenon DEF Lawful
    <3>4. t.held \cap archived = {}
      BY <2>5, <2>7, Zenon
    <3>5. Open(e)
      BY <3>3, <3>4 DEF Open
    <3> QED BY <3>1, <3>5
  <2>8. CASE t.req[1] = "create"
    <3>1. SameWrite(d, Create(rows, clock, t.req[2]))
      BY <2>1, <2>2, <2>3, <2>8, CreateAlike, Zenon DEF d
    <3>2. t.req[2] \in HandRows
      BY <2>3, <2>8, Zenon DEF Judging, Wanted
    <3>3. k = 1
      BY <2>8 DEF TicksOf
    <3>4. ByHand(Create(rows, clock, t.req[2]), 1)
      BY <2>1, <2>7, <2>8, <3>1, <3>3, Zenon DEF ByHand, Applied
    <3> QED BY <3>2, <3>4, Zenon DEF DoCreate, Next
  <2>9. CASE t.req[1] = "transfer"
    <3>1. SameWrite(d, CreateTransfer(rows, clock, t.req[2]))
      BY <2>1, <2>2, <2>3, <2>9, TransferAlike, Zenon DEF d
    <3>2. t.req[2] \in Transfers
      BY <2>5, <2>9, Zenon
    <3>3. k = 2
      BY <2>9 DEF TicksOf
    <3>4. ByHand(CreateTransfer(rows, clock, t.req[2]), 2)
      BY <2>1, <2>7, <2>9, <3>1, <3>3, Zenon DEF ByHand, Applied
    <3> QED BY <3>2, <3>4, Zenon DEF DoTransfer, Next
  <2>10. CASE t.req[1] = "delete"
    <3>1. PICK op \in rows : SameWrite(d, Delete(rows, op))
      BY <2>1, <2>2, <2>3, <2>10, DeleteAlike, Zenon DEF d
    <3>2. k = 0
      BY <2>10 DEF TicksOf
    <3>3. InPlace(Delete(rows, op))
      BY <2>1, <2>7, <2>10, <3>1, <3>2, Zenon DEF InPlace, ByHand, Applied
    <3> QED BY <3>3, Zenon DEF DoDelete, Next
  <2>11. CASE t.req[1] = "state"
    <3>1. PICK op \in rows :
            /\ OnwardAccounts(rows, op) \subseteq t.held /\ op.typ = "transfer_in"
            /\ SameWrite(d, StatePurchases(rows, op, t.req[3]))
      BY <2>1, <2>2, <2>3, <2>11, StateAlike, Zenon DEF d
    <3>2. k = 0
      BY <2>11 DEF TicksOf
    <3>3. InPlace(StatePurchases(rows, op, t.req[3]))
      BY <2>1, <2>7, <2>11, <3>1, <3>2, Zenon DEF InPlace, ByHand, Applied
    <3>4. OnwardAccounts(rows, op) \cap archived = {}
      <4>1. t.held \cap archived = {}
        BY <2>5, <2>11
      <4> QED BY <3>1, <4>1
    <3>5. t.req[3] \in Statements
      BY <2>5, <2>11, Zenon
    <3> QED BY <3>1, <3>3, <3>4, <3>5, Zenon DEF DoStatePurchases, Next
  <2>12. CASE t.req[1] = "import"
    <3>1. PICK events \in AtMostTwo(Events), remove \in SUBSET {r \in rows : r.src # "manual"} :
            /\ Cardinality(remove) <= MaxRemoved /\ Len(events) # 2
            /\ k = 2 * Len(events)
            /\ SameWrite(d, ApplyImportDelta(rows, clock, Asked(events, remove), remove))
      <4>1. Reported(t.req, rows)
        BY <2>5, <2>12, Zenon
      <4> QED BY <2>1, <2>2, <2>3, <2>12, <4>1, ImportAlike, Zenon DEF d
    <3>2. Accepted(ApplyImportDelta(rows, clock, Asked(events, remove), remove))
      BY <2>1, <3>1, SameAccepted, Zenon
    <3>3. Taking(2 * Len(events))
      BY <2>1, <3>1, Zenon
    <3> QED BY <3>1, <3>2, <3>3, Zenon DEF DoImport, Next
  <2> QED BY <2>4, <2>8, <2>9, <2>10, <2>11, <2>12, Zenon
<1> QED BY <1>2, <1>3, Zenon

LEMMA StepImplements ==
  ASSUME Refining, [TxNext]_txvars
  PROVE  UNCHANGED vars \/ Next
<1>1. CASE UNCHANGED txvars
  BY <1>1, Zenon DEF txvars, vars
<1>2. CASE ArchiveRow
  <2>1. DoArchive(Closable)
    BY <1>2, Zenon DEF ArchiveRow, DoArchive
  <2> QED BY <2>1, Zenon DEF Next
<1>3. CASE \E w \in Writers : Ask(w, Requests) \/ Lock(w) \/ Read(w) \/ Commit(w) \/ Abort(w)
  BY <1>3, CommitImplements, Zenon DEF Ask, Lock, Read, Abort
<1> QED BY <1>1, <1>2, <1>3, Zenon DEF TxNext

-----------------------------------------------------------------------------
(* What was meant stays meant. *)

\* A step that writes nothing and shuts nothing.
LEMMA OthersMean ==
  ASSUME Refining, UNCHANGED vars
  PROVE  /\ rows' = rows /\ archived' = archived /\ IsTable(tx)
         /\ \A v \in Writers : Meant(tx[v], rows', archived')
<1>1. rows' = rows /\ archived' = archived
  BY Zenon DEF vars
<1> QED BY <1>1, Zenon DEF Refining, Isolated

\* A request is one of those Journal answers.
LEMMA RequestMeans ==
  ASSUME Numbered, PairedTable, NEW req \in Requests
  PROVE  /\ req[1] = "transfer" => req[2] \in Transfers
         /\ req[1] = "state" => req[3] \in Statements
         /\ ByImporter(req) => Reported(req, rows)
<1>1. CASE \E op \in HandRows : req = <<"create", op>>
  BY <1>1 DEF ByImporter
<1>2. CASE \E p \in Transfers : req = <<"transfer", p>>
  BY <1>2 DEF ByImporter
<1>3. CASE \E r \in rows : req = <<"delete", r.id>>
  BY <1>3 DEF ByImporter
<1>4. CASE \E r \in rows, pieces \in Statements : req = <<"state", r.id, pieces>>
  BY <1>4 DEF ByImporter
<1>5. CASE req \in ImportsAsked
  <2>1. Reported(req, rows)
    BY <1>5, AskedReported, Zenon
  <2>2. req[1] = "import"
    BY <1>5 DEF ImportsAsked
  <2> QED BY <2>1, <2>2
<1>6. \/ \E op \in HandRows : req = <<"create", op>>
      \/ \E p \in Transfers : req = <<"transfer", p>>
      \/ \E r \in rows : req = <<"delete", r.id>>
      \/ \E r \in rows, pieces \in Statements : req = <<"state", r.id, pieces>>
      \/ req \in ImportsAsked
  BY DEF Requests
<1> QED BY <1>1, <1>2, <1>3, <1>4, <1>5, <1>6, Zenon

LEMMA AskMeans ==
  ASSUME Refining, NEW w \in Writers, Ask(w, Requests)
  PROVE  \A v \in Writers : Meant(tx'[v], rows', archived')
<1>1. PICK req \in Requests :
        tx' = [tx EXCEPT ![w] = [Idle EXCEPT !.step = "locking", !.req = req,
                                             !.want = WantedBy(req)]]
  BY Zenon DEF Ask
<1> DEFINE t == [Idle EXCEPT !.step = "locking", !.req = req, !.want = WantedBy(req)]
<1>2. /\ rows' = rows /\ archived' = archived /\ IsTable(tx)
      /\ \A v \in Writers : Meant(tx[v], rows', archived')
  BY OthersMean, Zenon DEF Ask
<1>3. t.step = "locking" /\ t.held = {} /\ t.req = req
  <2>1. t = [step |-> "locking", req |-> req, want |-> WantedBy(req), held |-> {}, seen |-> {}]
    BY Asking, Zenon
  <2> HIDE DEF t
  <2> QED BY <2>1, TxFields
<1> HIDE DEF t
<1>4. /\ req[1] = "transfer" => req[2] \in Transfers
      /\ req[1] = "state" => req[3] \in Statements
      /\ ByImporter(req) => Reported(req, rows)
  BY RequestMeans, Zenon DEF Refining, Isolated
<1>5. Meant(t, rows', archived')
  BY <1>2, <1>3, <1>4 DEF Meant
<1> QED BY <1>1, <1>2, <1>5, OneMeans DEF t

LEMMA LockMeans ==
  ASSUME Refining, NEW w \in Writers, Lock(w)
  PROVE  \A v \in Writers : Meant(tx'[v], rows', archived')
<1> DEFINE a == NextLock(tx[w])
           more == [tx[w] EXCEPT !.held = @ \cup {a}]
           t == IF ClosedTo(tx[w], a) THEN Idle ELSE more
<1>1. tx[w].step = "locking" /\ tx' = [tx EXCEPT ![w] = t]
  BY Zenon DEF Lock
<1>2. /\ rows' = rows /\ archived' = archived /\ IsTable(tx)
      /\ \A v \in Writers : Meant(tx[v], rows', archived')
  BY OthersMean, Zenon DEF Lock
<1> HIDE DEF a
<1>3. more.step = "locking" /\ more.req = tx[w].req /\ more.held = tx[w].held \cup {a}
  <2>1. IsTx(tx[w])
    BY Zenon DEF Refining, Isolated, Knows
  <2>2. more = [step |-> tx[w].step, req |-> tx[w].req, want |-> tx[w].want,
                held |-> tx[w].held \cup {a}, seen |-> tx[w].seen]
    BY <2>1, WithHeld, Zenon
  <2> HIDE DEF more
  <2> QED BY <1>1, <2>2, TxFields
<1> HIDE DEF more
<1>4. CASE ClosedTo(tx[w], a)
  <2>1. Meant(t, rows', archived')
    BY <1>4, IdleMeant, Zenon
  <2> HIDE DEF t
  <2> QED BY <1>1, <1>2, <2>1, OneMeans
<1>5. CASE ~ClosedTo(tx[w], a)
  <2>1. Meant(tx[w], rows', archived')
    BY <1>2, Zenon
  <2>2. ~ByImporter(tx[w].req) => a \notin archived'
    BY <1>2, <1>5, Zenon DEF ClosedTo
  <2>3. Meant(more, rows', archived')
    BY <1>1, <1>3, <2>1, <2>2 DEF Meant
  <2>4. Meant(t, rows', archived')
    BY <1>5, <2>3, Zenon
  <2> HIDE DEF t
  <2> QED BY <1>1, <1>2, <2>4, OneMeans
<1> QED BY <1>4, <1>5

LEMMA ReadMeans ==
  ASSUME Refining, NEW w \in Writers, Read(w)
  PROVE  \A v \in Writers : Meant(tx'[v], rows', archived')
<1> DEFINE t == [tx[w] EXCEPT !.step = "judging", !.seen = rows]
<1>1. tx[w].step = "locking" /\ tx' = [tx EXCEPT ![w] = t]
  BY Zenon DEF Read, ReadyToRead
<1>2. /\ rows' = rows /\ archived' = archived /\ IsTable(tx)
      /\ \A v \in Writers : Meant(tx[v], rows', archived')
  BY OthersMean, Zenon DEF Read
<1>3. t.step = "judging" /\ t.req = tx[w].req /\ t.held = tx[w].held /\ t.seen = rows
  <2>1. IsTx(tx[w])
    BY Zenon DEF Refining, Isolated, Knows
  <2>2. t = [step |-> "judging", req |-> tx[w].req, want |-> tx[w].want,
             held |-> tx[w].held, seen |-> rows]
    BY <2>1, Reading, Zenon
  <2> HIDE DEF t
  <2> QED BY <2>2, TxFields
<1> HIDE DEF t
<1>4. AllPaired(rows) /\ Meant(tx[w], rows', archived')
  BY <1>2, Zenon DEF Refining, PairedTable
<1>5. Meant(t, rows', archived')
  BY <1>1, <1>3, <1>4 DEF Meant
<1> QED BY <1>1, <1>2, <1>5, OneMeans

LEMMA CommitMeans ==
  ASSUME Refining, NEW w \in Writers, Commit(w)
  PROVE  \A v \in Writers : Meant(tx'[v], rows', archived')
<1>1. tx' = [tx EXCEPT ![w] = Idle]
  BY Zenon DEF Commit, Leave
<1>2. CASE UNCHANGED vars
  BY <1>1, <1>2, OthersMean, IdleMeant, OneMeans
<1>3. CASE \E d, k : Writes(d, k, tx[w].held)
  <2>1. PICK d, k : Writes(d, k, tx[w].held)
    BY <1>3, Zenon
  <2>2. Numbered /\ IsTable(tx)
    BY Zenon DEF Refining, Isolated
  <2>3. /\ clock \in Nat /\ archived' = archived
        /\ \A x \in rows' : Continues(rows, clock, x)
    BY <2>1, <2>2, RowsGoOn, Zenon
  <2>4. ASSUME NEW v \in Writers
        PROVE  Meant(tx[v], rows', archived')
    <3>1. Meant(tx[v], rows, archived) /\ Knows(tx[v], rows, clock)
      BY Zenon DEF Refining, Isolated
    <3>2. CASE tx[v].step # "idle" /\ ByImporter(tx[v].req)
      <4>1. tx[v].req[3] \subseteq 1..clock
        BY <3>1, <3>2, Zenon DEF Knows, Wanted, ByImporter
      <4>2. Reported(tx[v].req, rows)
        BY <3>1, <3>2, Zenon DEF Meant
      <4>3. Reported(tx[v].req, rows')
        BY <2>3, <4>1, <4>2, ReportedLater, Zenon
      <4> QED BY <2>3, <3>1, <3>2, <4>3, Zenon DEF Meant
    <3>3. CASE ~(tx[v].step # "idle" /\ ByImporter(tx[v].req))
      BY <2>3, <3>1, <3>3, Zenon DEF Meant
    <3> QED BY <3>2, <3>3, Zenon
  <2> QED BY <1>1, <2>2, <2>4, IdleMeant, OneMeans
<1> QED BY <1>2, <1>3, CommitWrites, Zenon DEF Refining

LEMMA AbortMeans ==
  ASSUME Refining, NEW w \in Writers, Abort(w)
  PROVE  \A v \in Writers : Meant(tx'[v], rows', archived')
<1>1. tx' = [tx EXCEPT ![w] = Idle] /\ UNCHANGED vars
  BY Zenon DEF Abort
<1> QED BY <1>1, OthersMean, IdleMeant, OneMeans

LEMMA ArchiveMeans ==
  ASSUME Refining, ArchiveRow
  PROVE  \A v \in Writers : Meant(tx'[v], rows', archived')
<1>1. rows' = rows /\ tx' = tx
  BY Zenon DEF ArchiveRow
<1>2. PICK a \in Closable :
        /\ \A v \in Writers : a \notin tx[v].held
        /\ archived' = IF a \in archived THEN archived \ {a} ELSE archived \cup {a}
  BY Zenon DEF ArchiveRow
<1>3. ASSUME NEW v \in Writers
      PROVE  Meant(tx'[v], rows', archived')
  <2>1. \A b \in tx[v].held : b \in archived' => b \in archived
    BY <1>2
  <2>2. Meant(tx[v], rows, archived)
    BY Zenon DEF Refining
  <2> QED BY <1>1, <2>1, <2>2, MeantStill, Zenon
<1> QED BY <1>3, Zenon

\* The invariant, step by step.
LEMMA RefiningStep ==
  ASSUME Refining, [TxNext]_txvars
  PROVE  Refining'
<1>1. Isolated'
  BY IsolatedStep, Zenon DEF Refining
<1>2. PairedTable'
  <2>1. [Next]_vars
    BY StepImplements, Zenon
  <2> QED BY <2>1, PairedStep, Zenon DEF Refining, Isolated, Numbered
<1>3. \A v \in Writers : Meant(tx'[v], rows', archived')
  <2>1. CASE UNCHANGED txvars
    <3>1. rows' = rows /\ archived' = archived /\ tx' = tx
      BY <2>1, Zenon DEF txvars
    <3> QED BY <3>1, Zenon DEF Refining
  <2>2. CASE ArchiveRow
    BY <2>2, ArchiveMeans, Zenon
  <2>3. CASE \E w \in Writers : Ask(w, Requests) \/ Lock(w) \/ Read(w) \/ Commit(w) \/ Abort(w)
    BY <2>3, AskMeans, LockMeans, ReadMeans, CommitMeans, AbortMeans, Zenon
  <2> QED BY <2>1, <2>2, <2>3, Zenon DEF TxNext
<1> QED BY <1>1, <1>2, <1>3, Zenon DEF Refining

LEMMA RefiningAlways == TxSpec => []Refining
<1>1. TxInit => Refining
  <2> SUFFICES ASSUME TxInit PROVE Refining
    OBVIOUS
  <2>1. Isolated
    BY IsolatedStarts
  <2>2. rows = {} /\ tx = [w \in Writers |-> Idle]
    BY Zenon DEF TxInit, Init
  <2>3. PairedTable
    BY <2>2 DEF PairedTable, OwnIds, AllPaired, Unique
  <2>4. \A w \in Writers : tx[w] = Idle
    BY <2>2, Zenon
  <2> QED BY <2>1, <2>3, <2>4, IdleMeant, Zenon DEF Refining
<1>2. Refining /\ [TxNext]_txvars => Refining'
  BY RefiningStep
<1> QED BY <1>1, <1>2, PTL DEF TxSpec

\* Every interleaving of transactions over the account locks, lost ones
\* included, is a sequence of Journal's atomic steps: what is judged from the
\* rows read under the locks is what would be judged from the table
\* (WithAccountsLocked), for any number of writers and any requests.
THEOREM TransactionsImplementTheJournal == TxSpec => ImplementsJournal
<1>1. TxInit => Init
  BY Zenon DEF TxInit
<1>2. Refining /\ [TxNext]_txvars => (UNCHANGED vars \/ Next)
  BY StepImplements
<1> QED BY <1>1, <1>2, RefiningAlways, PTL DEF TxSpec, ImplementsJournal

\* So what is proved of the atomic steps holds of the transactions: the pairs
\* stand whole and agree at every moment, and rows that stay on their day stay in
\* their order.
THEOREM WritersKeepTheJournal == TxSpec => []PairsAgree /\ PlaceKept
<1>1. TxSpec => Spec
  BY StepImplements, RefiningAlways, PTL DEF TxSpec, TxInit, Spec
<1> QED BY <1>1, PairsAlwaysAgree, PlacesAreKept, PTL

\* And while the process and the database read one clock, every journal they
\* leave folds, into queues of lots that add up to the positions, and no unit of
\* cost is lost or doubled.
THEOREM WritersLeaveSoundLots ==
  ASSUME AppAhead = 0
  PROVE  TxSpec => []JournalsReplay /\ []LotsSound /\ []BasisConserved
<1>1. TxSpec => Spec
  BY StepImplements, RefiningAlways, PTL DEF TxSpec, TxInit, Spec
<1> QED BY <1>1, JournalsAlwaysReplay, LotsAlwaysSound, BasisAlwaysConserved, PTL

=============================================================================
