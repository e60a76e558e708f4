------------------------------- MODULE Ledger -------------------------------
(***************************************************************************)
(* The rules of the operations journal (internal/operation): the order in  *)
(* which an account's rows fold, and what every entry of the service may   *)
(* write.  A request is judged from a table of rows and answered by a      *)
(* delta: the rows it takes out, the rows it puts in as the columns hold   *)
(* them, and the rows as the write check judged them.  Journal and         *)
(* JournalTx give the deltas their states and their transactions.          *)
(*                                                                         *)
(* A row is what ListForEngine reads back: a transfer's breakdown, stored  *)
(* once beside the arriving leg, is on both legs.  clock is the database   *)
(* clock, in ticks of a microsecond; every inserted row takes one tick,    *)
(* which is also its id.  The process's own clock is AppAhead ticks ahead. *)
(***************************************************************************)
EXTENDS Engine

CONSTANT AppAhead
ASSUME AppAheadAssumption == AppAhead \in Nat

Blank ==
  [id |-> 0, acct |-> 0, typ |-> "deposit", paper |-> NoPaper, day |-> 1,
   src |-> "manual", at |-> 0, stamp |-> 0, qty |-> 0, amount |-> 0, fee |-> 0,
   cur |-> 1, group |-> 0, lots |-> <<>>, ratio |-> <<1, 1>>, face |-> 0, ext |-> 0]

IsRow(r) == DOMAIN r = DOMAIN Blank

\* A piece of a breakdown and a row, as their columns hold them.
PieceColumns == [lot : Int \X Int, qty : Int, cost : Int, day : Nat]

IsEntry(o) ==
  /\ IsRow(o)
  /\ {o.qty, o.amount, o.cur, o.ext, o.face} \subseteq Int
  /\ o.fee \in Nat /\ o.day \in Nat \ {0} /\ o.ratio \in Int \X (Nat \ {0})
  /\ o.lots \in Seq(PieceColumns)

\* What an operation brings into the basis of its paper.
BasisBrought(o) ==
  IF o.typ = "buy" THEN o.fee - o.amount
  ELSE IF o.typ \in Arrivals THEN o.amount ELSE 0

OwnedByHand(o)   == o.src \in {"manual", "csv"}
CorporateLeg(o)  == o.typ \in {"exchange_out", "exchange_in", "spinoff_out", "spinoff_in"}
TransferLeg(o)   == o.typ \in {"transfer_out", "transfer_in"}
CarriesBasis(o)  == TransferLeg(o) \/ CorporateLeg(o)

-----------------------------------------------------------------------------
(* Fold order. *)

FoldRank(o) == IF o.src = "registry" THEN 0 ELSE 1

\* byInstant: timed rows first (at = 0 is untimed), then by instant.
SoonerInstant(a, b) == a.at # 0 /\ (b.at = 0 \/ a.at < b.at)

FoldsBefore(a, b) ==
  \/ a.day < b.day
  \/ /\ a.day = b.day
     /\ \/ FoldRank(a) < FoldRank(b)
        \/ /\ FoldRank(a) = FoldRank(b)
           /\ SoonerInstant(a, b) \/ (a.at = b.at /\ a.stamp < b.stamp)

\* The rows of S in fold order; rows no key tells apart go by id.
Sorted(S) ==
  LET Before(a, b) == FoldsBefore(a, b) \/ (~FoldsBefore(b, a) /\ a.id < b.id)
      Place(r)     == 1 + Cardinality({x \in S : Before(x, r)})
  IN [i \in 1..Cardinality(S) |-> CHOOSE r \in S : Place(r) = i]

RowsOf(rows, a) == {r \in rows : r.acct = a}
JournalOf(rows, a) == Sorted(RowsOf(rows, a))
AccountReplays(rows, a) == Replays(JournalOf(rows, a))

Legs(rows, group) == {r \in rows : group # 0 /\ r.group = group}

\* A set of rows that holds no half of a transfer group.
Whole(rows, some) == \A r \in some : Legs(rows, r.group) \subseteq some

-----------------------------------------------------------------------------
(* Deltas. *)

\* The rows of a hand entry: the database stamps each with its own clock.
Stored(clock, legs) ==
  {[legs[i] EXCEPT !.id = clock + i, !.stamp = clock + i] : i \in DOMAIN legs}

\* journalWith: while it is checked, a row being added sorts after every
\* stored row of its account and is no older than the process's clock.
CheckStamp(rows, clock) ==
  Max({clock + AppAhead} \cup {r.stamp : r \in rows})

AsChecked(rows, clock, new) ==
  {[n EXCEPT !.stamp = CheckStamp(RowsOf(rows, n.acct), clock) + (n.id - clock)] :
     n \in new}

\* Wrong: the fold stops at the last day the delta names.
CheckedToTheDay(rows, remove, add, accts) ==
  LET day == Max({r.day : r \in remove \cup add})
  IN \A a \in accts : AccountReplays({r \in (rows \ remove) \cup add : r.day <= day}, a)

\* checkJournal on every account named: the journal with the removals out and
\* the additions in is folded whole.
Checked(rows, remove, add, accts) ==
  \A a \in accts : AccountReplays((rows \ remove) \cup add, a)

AcctsOf(rows) == {r.acct : r \in rows}

\* A hand entry of legs in place of the rows of remove.
HandDelta(rows, clock, legs, remove, cond) ==
  LET new == Stored(clock, legs)
  IN [ok     |-> /\ cond
                 /\ Checked(rows, remove, AsChecked(rows \ remove, clock, new),
                            AcctsOf(new \cup remove)),
      remove |-> remove, add |-> new]

\* Rows of old rewritten in place, or deleted: every journal touched is folded.
RestateDelta(rows, old, new, cond) ==
  [ok |-> cond /\ Checked(rows, old, new, AcctsOf(old \cup new)),
   remove |-> old, add |-> new]

\* leg with the breakdown its namesake among settled was given.
WithBreakdown(leg, settled) ==
  LET x == CHOOSE x \in settled : x.id = leg.id
  IN [leg EXCEPT !.lots = x.lots, !.amount = x.amount]

WithBreakdowns(legs, settled) == {WithBreakdown(leg, settled) : leg \in legs}

-----------------------------------------------------------------------------
(* Validation, as far as it decides what the engine will see. *)

AmountFits(o) ==
  /\ o.typ \in {"buy", "withdrawal", "fee", "tax"} => o.amount < 0
  /\ o.typ \in {"sell", "redemption", "deposit", "interest", "dividend",
                "coupon", "amortization"} => o.amount > 0
  /\ o.typ = "split" => o.amount = 0 /\ o.ratio[1] > 0 /\ o.src = "registry"
  /\ CorporateLeg(o) => o.amount >= 0 /\ o.src = "registry"

ValidateByType(o) ==
  /\ o.fee >= 0
  /\ AmountFits(o)
  /\ o.typ \in Trades \cup {"exchange_out", "exchange_in", "spinoff_in"}
        => o.paper # NoPaper /\ o.qty > 0
  /\ o.typ \in {"split", "spinoff_out"} => o.paper # NoPaper
  /\ o.typ = "spinoff_out" => o.qty = 0
  /\ o.face > 0 => o.typ = "amortization"

\* validate: the door of a hand entry.
ValidHand(o) == ~CarriesBasis(o) /\ ValidateByType(o)

\* validateImported: a transfer leg may stand alone, a tax may be positive.
ValidImported(o) ==
  IF TransferLeg(o) THEN o.paper # NoPaper /\ o.qty > 0 /\ o.amount >= 0 /\ o.fee >= 0
  ELSE IF o.typ = "tax" THEN o.amount # 0 /\ o.fee >= 0
  ELSE ValidateByType(o)

-----------------------------------------------------------------------------
(* Breakdowns. *)

\* Wrong: a piece that is money without units is dropped.
RescaleUnits(pieces, from, to) ==
  LET before  == Prefix(Units(pieces))
      UpTo(i) == (before[i] * to) \div from
  IN SelectSeq([i \in DOMAIN pieces |->
                  [pieces[i] EXCEPT !.qty = UpTo(i) - UpTo(i - 1)]],
               LAMBDA pc : pc.qty > 0)

\* quantizeLots and rescaleLots: pieces of from units restated as to units.
\* The running total is truncated, the last piece with units takes the rest,
\* a piece with neither units nor money is dropped.
Rescale(pieces, from, to) ==
  LET before  == Prefix(Units(pieces))
      withUnits == {i \in DOMAIN pieces : pieces[i].qty > 0}
      UpTo(i) == IF i = 0 THEN 0
                 ELSE IF i \in withUnits /\ \A j \in withUnits : j <= i THEN to
                 ELSE (before[i] * to) \div from
      scaled  == [i \in DOMAIN pieces |->
                    [pieces[i] EXCEPT !.qty = UpTo(i) - UpTo(i - 1)]]
  IN Unspent(scaled)

Quantize(pieces, qty) == Rescale(pieces, qty, qty)

\* What leaves when qty units of paper are released from these rows.
Release(journal, paper, qty) ==
  LET Out(r) == [ok |-> r.ok, lots |-> Quantize(r.pieces, qty)]
  IN Out(ReleasedLots(Sorted(journal), paper, qty))

\* currencyOf: the currency of the newest row naming the paper, 0 when none.
CurrencyOf(journal, paper) ==
  LET naming == Sorted({r \in journal : r.paper = paper})
  IN IF naming = <<>> THEN 0 ELSE naming[Len(naming)].cur

UpToDay(journal, day) == {r \in journal : r.day <= day}

\* FoldedBefore: what folds ahead of a new registry row dated day.
FoldedBefore(journal, day) ==
  {r \in journal : r.day < day \/ (r.day = day /\ FoldRank(r) = 0)}

=============================================================================
