---------------------------- MODULE HandEntries ----------------------------
(***************************************************************************)
(* Every entry of operation.Service a person reaches, as the delta it      *)
(* writes: Create, CreateReplacing, Update, Delete, CreateTransfer,        *)
(* CreateMoneyTransfer, CreateArrival and StatePurchases, and the two      *)
(* corporate pairs CreateExchange and CreateSpinoff.  Each is a function   *)
(* of the rows read under the journal locks; taking the locks and looking  *)
(* at the archive flag is JournalTx's.                                     *)
(***************************************************************************)
EXTENDS Ledger

-----------------------------------------------------------------------------
(* One row. *)

\* replacedRows: an importer's rows, present, and no half of a group.
Replaceable(rows, replace) ==
  /\ replace \subseteq rows
  /\ \A r \in replace : r.src # "manual"
  /\ Whole(rows, replace)

CreateReplacing(rows, clock, op, replace) ==
  HandDelta(rows, clock, <<op>>, replace, ValidHand(op) /\ Replaceable(rows, replace))

Create(rows, clock, op) == CreateReplacing(rows, clock, op, {})

Editable(old, op) ==
  /\ OwnedByHand(old)
  /\ old.group = 0 /\ ~CarriesBasis(old)
  /\ op.acct = old.acct /\ op.typ = old.typ

\* op restates the row old: account, type, source, stamp and id stay, an
\* instant stays only while the day does.
AsEdited(old, op) ==
  [op EXCEPT !.id = old.id, !.src = old.src, !.stamp = old.stamp,
             !.ext = 0, !.group = 0, !.at = IF op.day = old.day THEN old.at ELSE 0]

\* The row is judged as the request built it, without the record number of an
\* uploaded row, and once more as the columns hold it.
Update(rows, old, op) ==
  LET judged == AsEdited(old, op)
      stored == [judged EXCEPT !.ext = old.ext]
  IN RestateDelta(rows, {old}, {stored},
                  /\ old \in rows /\ ValidHand(op) /\ Editable(old, op)
                  /\ Checked(rows, {old}, {judged}, {old.acct}))

\* A leg takes the whole group with it, on both accounts.
Delete(rows, op) ==
  LET gone == {op} \cup Legs(rows, op.group)
  IN RestateDelta(rows, gone, {}, op \in rows /\ OwnedByHand(op))

-----------------------------------------------------------------------------
(* Pairs. *)

\* A pair shares one group, named after its departing leg.
Pair(clock, out, in) ==
  <<[out EXCEPT !.group = clock + 1], [in EXCEPT !.group = clock + 1]>>

\* p: [from, to, paper, day, qty, basis]; basis is -1 when it is to be released
\* from the source's queue and the stated cost otherwise.
TransferLegs(p, cur, lots, amount) ==
  LET out == [Blank EXCEPT !.acct = p.from, !.typ = "transfer_out", !.paper = p.paper,
                !.day = p.day, !.qty = p.qty, !.lots = lots, !.amount = amount,
                !.cur = cur]
  IN [out |-> out, in |-> [out EXCEPT !.acct = p.to, !.typ = "transfer_in"]]

CreateTransfer(rows, clock, p) ==
  LET source == RowsOf(rows, p.from)
      byHand == p.basis >= 0
      Write(legs, cond) == HandDelta(rows, clock, Pair(clock, legs.out, legs.in), {}, cond)
      Moved(cur, r) ==
        Write(TransferLegs(p, cur, r.lots, IF byHand THEN p.basis ELSE LotsCost(r.lots)),
              p.from # p.to /\ p.qty > 0 /\ cur # 0 /\ r.ok)
  IN Moved(CurrencyOf(source, p.paper),
           IF byHand THEN [ok |-> TRUE, lots |-> <<>>]
           ELSE Release(UpToDay(source, p.day), p.paper, p.qty))

\* p: [from, to, day, amount, cur, received, receivedCur].
CreateMoneyTransfer(rows, clock, p) ==
  LET out == [Blank EXCEPT !.acct = p.from, !.typ = "withdrawal", !.day = p.day,
                           !.amount = -p.amount, !.cur = p.cur]
      in  == [Blank EXCEPT !.acct = p.to, !.typ = "deposit", !.day = p.day,
                           !.amount = p.received, !.cur = p.receivedCur]
  IN HandDelta(rows, clock, Pair(clock, out, in), {},
               p.from # p.to /\ p.amount > 0 /\ p.received > 0)

\* p: [acct, from, to, day, qty, toQty].
ExchangeLegs(p, cur, r) ==
  LET out == [Blank EXCEPT !.acct = p.acct, !.typ = "exchange_out", !.src = "registry",
                !.paper = p.from, !.day = p.day, !.qty = p.qty, !.lots = r.lots,
                !.amount = LotsCost(r.lots), !.cur = cur]
      in  == [out EXCEPT !.typ = "exchange_in", !.paper = p.to, !.qty = p.toQty,
                         !.lots = Rescale(@, p.qty, p.toQty)]
  IN [ok |-> /\ p.from # p.to /\ p.qty > 0 /\ p.toQty > 0 /\ cur # 0 /\ r.ok
             /\ LotsCost(in.lots) = out.amount,
      out |-> out, in |-> in]

BuildExchange(rows, p) ==
  LET journal == RowsOf(rows, p.acct)
  IN ExchangeLegs(p, CurrencyOf(journal, p.from),
                  Release(FoldedBefore(journal, p.day), p.from, p.qty))

\* p: [acct, from, to, day, ratio, share], share in 1/DivScale; pieces are what
\* every lot of the holding gives.
SpinoffLegs(p, held, pieces) ==
  LET toQty == (held.qty * p.ratio[1]) \div p.ratio[2]
      out   == [Blank EXCEPT !.acct = p.acct, !.typ = "spinoff_out", !.src = "registry",
                  !.paper = p.from, !.day = p.day, !.lots = pieces,
                  !.amount = LotsCost(pieces), !.cur = held.cur]
      in    == [out EXCEPT !.typ = "spinoff_in", !.paper = p.to, !.qty = toQty,
                           !.lots = Rescale(@, held.qty, toQty)]
  IN [ok |-> /\ p.from # p.to /\ p.share < DivScale
             /\ held.qty > 0 /\ toQty > 0
             /\ p.share > 0 => out.amount > 0
             /\ LotsCost(in.lots) = out.amount,
      out |-> out, in |-> in]

BuildSpinoff(rows, p) ==
  LET Of(held) == SpinoffLegs(p, held, SpinoffPieces(held.lots, p.share))
      Held(c) == IF c.ok THEN PositionOf(c.pos, p.from) ELSE NoPosition
  IN Of(Held(Compute(Sorted(FoldedBefore(RowsOf(rows, p.acct), p.day)))))

\* What CreateExchange and CreateSpinoff do with the two legs built.
CreatePair(rows, clock, b) ==
  HandDelta(rows, clock, Pair(clock, b.out, b.in), {}, b.ok)

CreateExchange(rows, clock, p) == CreatePair(rows, clock, BuildExchange(rows, p))

CreateSpinoff(rows, clock, p) == CreatePair(rows, clock, BuildSpinoff(rows, p))

-----------------------------------------------------------------------------
(* Shares from a broker this program does not hold. *)

\* checkStatedPurchases: the pieces account for exactly the shares that came.
StatedFit(op, pieces) ==
  /\ pieces # <<>>
  /\ \A i \in DOMAIN pieces :
       pieces[i].qty > 0 /\ pieces[i].cost >= 0 /\ pieces[i].day <= op.day
  /\ LotsUnits(pieces) = op.qty

\* p: [acct, paper, day, qty, cur, pieces]; without pieces the shares came for
\* nothing.
CreateArrival(rows, clock, p) ==
  LET op == [Blank EXCEPT !.acct = p.acct, !.typ = "transfer_in", !.paper = p.paper,
               !.day = p.day, !.qty = p.qty, !.cur = p.cur, !.lots = p.pieces,
               !.amount = LotsCost(p.pieces)]
  IN HandDelta(rows, clock, <<op>>, {},
               p.qty > 0 /\ (p.pieces = <<>> \/ StatedFit(op, p.pieces)))

\* A move of the arrival's paper between the owner's accounts, folding later.
MovesOnward(o, arrival) ==
  /\ o.typ = "transfer_out" /\ o.group # 0 /\ o.paper = arrival.paper
  /\ FoldsBefore(arrival, o)

ArrivingLeg(rows, o) == {r \in Legs(rows, o.group) : r.typ = "transfer_in"}

\* onwardJournals: the accounts the arrival's shares went on to, the arrival's
\* own first, each with the accounts its moves went to.
OnwardAccounts(rows, arrival) ==
  LET Onto(accts) == AcctsOf(UNION {ArrivingLeg(rows, o) :
                       o \in {r \in rows : r.acct \in accts /\ MovesOnward(r, arrival)}})
      Followed(accts) == arrival.acct \in accts /\ Onto(accts) \subseteq accts
  IN {a \in AcctsOf(rows) : \A accts \in SUBSET AcctsOf(rows) : Followed(accts) => a \in accts}

\* Wrong: the arriving leg keeps the breakdown it had.
DepartingOnly(out, in) == {out.id}

\* setMoveBreakdown: both legs of a move are restated.
MovedLegs(out, in) == {out.id, in.id}

\* A later hand move with a breakdown is released again from the journal as it
\* stands ahead of it; the others are left as they are.
AheadOf(journal, o) ==
  LET At(i) == journal[i].id = o.id
  IN SubSeq(journal, 1, (CHOOSE i \in DOMAIN journal : At(i)) - 1)

Rebroken(rows, ids, lots) ==
  {IF leg.id \in ids THEN [leg EXCEPT !.lots = lots, !.amount = LotsCost(lots)] ELSE leg :
     leg \in rows}

ReleaseAgain(journals, out) ==
  LET Restate(in, r) ==
        Provided(r.ok, IF r.ok THEN Rebroken(journals, MovedLegs(out, in),
                                             Quantize(r.pieces, out.qty))
                       ELSE journals)
      Again(in) ==
        IF out.src # "manual" \/ in.src # "manual" \/ out.lots = <<>>
        THEN Provided(TRUE, journals)
        ELSE Restate(in, ReleasedLots(AheadOf(JournalOf(journals, out.acct), out),
                                      out.paper, out.qty))
  IN IF ArrivingLeg(journals, out) = {} THEN Provided(FALSE, journals)
     ELSE Again(CHOOSE r \in ArrivingLeg(journals, out) : TRUE)

\* releaseOnward over the journals read, the arrival restated among them.
ReleaseOnward(journals, arrival) ==
  Run(ReleaseAgain, journals, Sorted({r \in journals : MovesOnward(r, arrival)}))

\* Every journal read is folded; only the breakdowns are written.
StatePurchases(rows, op, pieces) ==
  LET stated == [op EXCEPT !.lots = pieces, !.amount = LotsCost(pieces)]
      Restated(accts, settled, old) ==
        RestateDelta(rows, old, WithBreakdowns(old, settled.pos),
                     /\ op \in rows /\ op.typ = "transfer_in" /\ op.group = 0
                     /\ StatedFit(op, pieces) /\ settled.ok
                     /\ \A a \in accts : AccountReplays(settled.pos, a))
      Settled(accts, journals, settled) == Restated(accts, settled, journals \ settled.pos)
      Over(accts, journals) ==
        Settled(accts, journals, ReleaseOnward((journals \ {op}) \cup {stated}, op))
      In(accts) == Over(accts, {r \in rows : r.acct \in accts})
  IN In(OnwardAccounts(rows, op))

=============================================================================
