------------------------------- MODULE Engine -------------------------------
(***************************************************************************)
(* The portfolio engine (internal/portfolio): a pure fold of one account's *)
(* operations, in journal order, into positions with a queue of lots.      *)
(*                                                                         *)
(* Data.  A day is a positive integer and NoDay stands for an unknown      *)
(* acquisition day.  A quantity is counted in the journal's smallest unit  *)
(* (QuantityScale), so truncating to the scale is integer division.  A     *)
(* currency is an integer in code order.  A lot and a released piece have  *)
(* one shape: the lot's number, units, cost and acquisition day; the day   *)
(* whose rate prices the lot (RateOn) travels with the acquisition day.    *)
(* Settlement days, notes, prices and error texts are left out.            *)
(***************************************************************************)
EXTENDS Integers, Sequences, FiniteSetsExt

CONSTANT DivScale   \* a decimal quotient is rounded to 1/DivScale
ASSUME DivScaleAssumption == DivScale \in Nat \ {0}

NoDay   == 0
NoPaper == ""
NoLot   == <<0, 0>>

Least(a, b) == IF a <= b THEN a ELSE b

-----------------------------------------------------------------------------
(* Sequences of integers and of pieces. *)

\* Prefix(s)[i] is the sum of the first i elements of s.
Prefix(s) ==
  LET sum[i \in 0..Len(s)] == IF i = 0 THEN 0 ELSE sum[i - 1] + s[i] IN sum

Total(s) == Prefix(s)[Len(s)]

\* The elements of s at the places keep, in order.
Only(s, keep) ==
  LET upTo[i \in 0..Len(s)] ==
        IF i = 0 THEN <<>>
        ELSE IF i \in keep THEN Append(upTo[i - 1], s[i]) ELSE upTo[i - 1]
  IN upTo[Len(s)]

Units(lots) == [i \in DOMAIN lots |-> lots[i].qty]
Costs(lots) == [i \in DOMAIN lots |-> lots[i].cost]

LotsCost(pieces)  == Total(Costs(pieces))
LotsUnits(pieces) == Total(Units(pieces))

\* A step answers [ok, pos].  Then goes on from what it left, Run feeds it the
\* elements of s; both stop at the first refusal.
Provided(cond, p) == [ok |-> cond, pos |-> p]

Then(r, Step(_)) == IF r.ok THEN Step(r.pos) ELSE r

Run(Step(_, _), p, s) ==
  LET after[i \in 0..Len(s)] ==
        IF i = 0 THEN Provided(TRUE, p)
        ELSE Then(after[i - 1], LAMBDA q : Step(q, s[i]))
  IN after[Len(s)]

-----------------------------------------------------------------------------
(* Operations and positions. *)

Trades     == {"buy", "sell", "redemption"}
Departures == {"transfer_out", "exchange_out"}
Arrivals   == {"transfer_in", "exchange_in", "spinoff_in"}

RequiresInstrument(typ) ==
  typ \in Trades \cup Departures \cup Arrivals
            \cup {"amortization", "split", "spinoff_out"}

MustMatchPositionCurrency(o) ==
  /\ o.typ \notin {"dividend", "coupon", "tax", "fee", "sell", "redemption"}
  /\ o.amount # 0 \/ o.fee # 0 \/ LotsCost(o.lots) # 0

\* An imported row keeps its record number across a correction, a hand row is
\* numbered by its id (positive); the two never meet.
LotOrigin(o) == IF o.ext # 0 THEN -o.ext ELSE o.id

LotID(o, seq) == IF LotOrigin(o) = 0 THEN NoLot ELSE <<LotOrigin(o), seq>>

NoPosition ==
  [seen |-> FALSE, settled |-> FALSE, cur |-> 0, held |-> FALSE,
   qty |-> 0, cost |-> 0, lots |-> <<>>,
   income |-> <<>>, fees |-> <<>>, realized |-> <<>>]

\* addToCurrencyList: one entry per currency.
AddToList(list, cur, minor) ==
  [c \in DOMAIN list \cup {cur} |->
     (IF c \in DOMAIN list THEN list[c] ELSE 0) + (IF c = cur THEN minor ELSE 0)]

-----------------------------------------------------------------------------
(* The queue. *)

\* A lot goes in front of the first lot acquired strictly later (NoDay leads):
\* ties keep journal order.
AddLot(p, lot) ==
  LET at    == Cardinality({i \in DOMAIN p.lots : p.lots[i].day <= lot.day})
      queue == SubSeq(p.lots, 1, at) \o <<lot>>
                 \o SubSeq(p.lots, at + 1, Len(p.lots))
  IN [p EXCEPT !.lots = queue, !.held = TRUE,
               !.qty = @ + lot.qty, !.cost = @ + lot.cost]

LotShare(lot, qty) ==
  IF qty >= lot.qty THEN lot.cost ELSE (lot.cost * qty) \div lot.qty

Spent(lot) == lot.qty = 0 /\ lot.cost = 0

Rest(lot, pc) == [lot EXCEPT !.qty = @ - pc.qty, !.cost = @ - pc.cost]

\* The position after piece pc is taken from the lot at place at.
TakenFrom(p, at, pc) ==
  [p EXCEPT !.lots = [i \in DOMAIN p.lots |->
                        IF i = at THEN Rest(p.lots[i], pc) ELSE p.lots[i]],
            !.qty = @ - pc.qty, !.cost = @ - pc.cost]

Unspent(lots)      == Only(lots, {i \in DOMAIN lots : ~Spent(lots[i])})
WithoutUnits(lots) == [i \in DOMAIN lots |-> [lots[i] EXCEPT !.qty = 0]]
WithoutCost(lots)  == [i \in DOMAIN lots |-> [lots[i] EXCEPT !.cost = 0]]

\* Wrong: a lot without units is dropped with its cost.
SweepNothing(lots) == <<>>

\* sweepShareless: the cost of lots a split left without units goes with the
\* last unit.
Sweep(lots) ==
  Only(WithoutUnits(lots), {i \in DOMAIN lots : lots[i].cost # 0})

\* The pieces of the lots that qty units reach: lot i is reached when the lots
\* before it do not cover qty, and every reached lot but the last goes whole.
Reached(lots, qty, before) ==
  LET Piece(lot, units) == [lot EXCEPT !.qty = units, !.cost = LotShare(lot, units)]
  IN [i \in 1..Cardinality({i \in DOMAIN lots : before[i - 1] < qty}) |->
        Piece(lots[i], Least(lots[i].qty, qty - before[i - 1]))]

\* What stays of the lots.
LeftBy(lots, pieces) ==
  LET whole == Cardinality({i \in DOMAIN pieces : pieces[i].qty = lots[i].qty})
      rest  == [i \in DOMAIN lots |->
                  IF i \in DOMAIN pieces THEN Rest(lots[i], pieces[i]) ELSE lots[i]]
  IN SubSeq(rest, whole + 1, Len(lots))

\* The position without the pieces; the answer adds them, in consumption order.
Withdrawn(p, qty, pieces, left) ==
  [ok     |-> qty <= p.qty,
   pos    |-> [p EXCEPT !.qty = @ - qty, !.cost = @ - LotsCost(pieces), !.lots = left],
   pieces |-> pieces]

\* releaseFIFO.
ReleaseFIFO(p, qty) ==
  LET Take(pieces, left) ==
        IF qty = p.qty THEN Withdrawn(p, qty, pieces \o Sweep(left), <<>>)
        ELSE Withdrawn(p, qty, pieces, left)
      From(pieces) == Take(pieces, LeftBy(p.lots, pieces))
  IN From(Reached(p.lots, qty, Prefix(Units(p.lots))))

\* Where the lot a recorded piece names sits in the queue, 0 when it is gone.
NamedLot(p, pc) ==
  LET at == {i \in DOMAIN p.lots : p.lots[i].lot = pc.lot}
  IN IF at = {} THEN 0 ELSE Min(at)

\* A piece names a lot, and the lot at that place was acquired on its day.
Names(p, pc, at) == pc.lot # NoLot /\ (at # 0 => p.lots[at].day = pc.day)

TakePiece(p, pc) ==
  LET Fits(lot) == /\ pc.qty <= lot.qty /\ pc.cost <= lot.cost
                   /\ pc.cost >= LotShare(lot, pc.qty)
      TakeAt(at) == IF at = 0 THEN Provided(FALSE, p)
                    ELSE Provided(Names(p, pc, at) /\ Fits(p.lots[at]), TakenFrom(p, at, pc))
  IN TakeAt(NamedLot(p, pc))

WithoutSpent(p) == [p EXCEPT !.lots = Unspent(@)]

ReleaseRecorded(p, o) ==
  Then(Provided(o.qty <= p.qty, p),
       LAMBDA q : Then(Run(TakePiece, q, o.lots),
                       LAMBDA left : Provided(TRUE, WithoutSpent(left))))

\* Wrong: every lot rounds down and nobody takes the remainder.
SpinoffPiecesRoundedDown(lots, share) ==
  LET total == LotsCost(lots)
      moved == (total * share) \div DivScale
  IN [i \in DOMAIN lots |->
        [lots[i] EXCEPT !.cost = IF total = 0 THEN 0 ELSE (moved * @) \div total]]

\* The largest-remainder allocation of moved units of cost among the lots.
Allotted(lots, total, moved) ==
  LET floor  == [i \in DOMAIN lots |-> (moved * lots[i].cost) \div total]
      rem    == [i \in DOMAIN lots |-> (moved * lots[i].cost) % total]
      Ahead(i) == {j \in DOMAIN lots : rem[j] > rem[i] \/ (rem[j] = rem[i] /\ j < i)}
      extra  == moved - Total(floor)
  IN [i \in DOMAIN lots |->
        [lots[i] EXCEPT !.cost = floor[i] + (IF Cardinality(Ahead(i)) < extra THEN 1 ELSE 0)]]

\* SpinoffPieces: floor(total * share) carved out of the lots, share counting
\* 1/DivScale; one piece per lot, in queue order.
SpinoffPieces(lots, share) ==
  LET Carve(total) == IF total * share < DivScale THEN WithoutCost(lots)
                      ELSE Allotted(lots, total, (total * share) \div DivScale)
  IN Carve(LotsCost(lots))

\* Wrong: every lot truncates on its own.
SplitEachLot(p, ratio) ==
  LET Scale(q) == (q * ratio[1]) \div ratio[2]
  IN [p EXCEPT !.qty = Scale(@),
               !.lots = [i \in DOMAIN @ |-> [@[i] EXCEPT !.qty = Scale(@)]]]

\* applySplit: the running total is truncated and each lot takes the
\* difference, the last lot the rest.  A ratio is <<numerator, denominator>>.
SplitLots(p, ratio) ==
  LET n       == Len(p.lots)
      Scale(q) == (q * ratio[1]) \div ratio[2]
      before  == Prefix(Units(p.lots))
      UpTo(i) == IF i = n THEN Scale(p.qty) ELSE Scale(before[i])
  IN [p EXCEPT !.qty = Scale(@),
               !.lots = [i \in 1..n |->
                  [p.lots[i] EXCEPT
                     !.qty = UpTo(i) - (IF i = 1 THEN 0 ELSE UpTo(i - 1))]]]

\* drainLotsCost: cost leaves front to back, quantities stay.
DrainPieces(lots, amount) ==
  LET before == Prefix(Costs(lots))
      Take(i) == IF before[i - 1] >= amount THEN 0
                 ELSE Least(amount - before[i - 1], lots[i].cost)
  IN [i \in DOMAIN lots |-> [lots[i] EXCEPT !.cost = Take(i)]]

-----------------------------------------------------------------------------
(* One operation of each type. *)

CheckShape(o) ==
  /\ o.typ \in Trades \cup Departures \cup Arrivals => o.qty > 0
  /\ o.typ = "spinoff_out" => o.qty = 0
  /\ o.typ = "split" => o.ratio[1] > 0

\* A stored breakdown agrees with its row.
PiecesExist(o) ==
  \A i \in DOMAIN o.lots :
     o.lots[i].qty >= 0 /\ o.lots[i].cost >= 0 /\ o.lots[i].day <= o.day

CheckTransferLots(o) ==
  /\ PiecesExist(o)
  /\ \A i \in DOMAIN o.lots : ~Spent(o.lots[i])
  /\ LotsUnits(o.lots) = o.qty
  /\ LotsCost(o.lots) = o.amount

CheckSpinoffLots(o) ==
  o.lots # <<>> /\ PiecesExist(o) /\ LotsCost(o.lots) = o.amount

AddFee(p, o)    == [p EXCEPT !.fees = AddToList(@, o.cur, o.fee)]
AddIncome(p, o) == [p EXCEPT !.income = AddToList(@, o.cur, o.amount)]

Realize(p, o, fee, pieces) ==
  [p EXCEPT !.realized = Append(@, [day |-> o.day, cur |-> o.cur, fee |-> fee,
                                    proceeds |-> o.amount, released |-> pieces])]

ApplyBuy(p, o) ==
  LET lot == [lot |-> LotID(o, 0), qty |-> o.qty, day |-> o.day,
              cost |-> o.fee - o.amount]
  IN Provided(o.amount < 0, AddFee(AddLot(p, lot), o))

ApplyDisposal(p, o) ==
  LET Sold(r) == Provided(o.amount > 0 /\ r.ok,
                          AddFee(Realize(r.pos, o, o.fee, r.pieces), o))
  IN Sold(ReleaseFIFO(p, o.qty))

ApplyIncome(p, o) == Provided(TRUE, AddIncome(p, o))

ApplyFee(p, o) ==
  Provided(TRUE, AddIncome([p EXCEPT !.fees = AddToList(@, o.cur, -o.amount)], o))

\* amortizedShare: the repayment over the outstanding principal, a rounded
\* quotient, at most 1.
AmortizedShare(p, o) ==
  LET principal == o.face * p.qty
  IN Least(DivScale, (2 * o.amount * DivScale + principal) \div (2 * principal))

\* takeLotsShare, or drainLotsCost when no principal is stated.
Repaid(p, o) ==
  IF o.face > 0 /\ p.qty > 0 THEN SpinoffPieces(p.lots, AmortizedShare(p, o))
  ELSE DrainPieces(p.lots, Least(o.amount, p.cost))

ApplyAmortization(p, o) ==
  LET Given(pieces) == Only(WithoutUnits(pieces), {i \in DOMAIN pieces : pieces[i].cost > 0})
      Left(pieces) == [p EXCEPT !.cost = @ - LotsCost(pieces),
                                !.lots = [i \in DOMAIN p.lots |->
                                   [p.lots[i] EXCEPT !.cost = @ - pieces[i].cost]]]
      Paid(pieces) == Realize(Left(pieces), o, 0, Given(pieces))
  IN Provided(o.amount > 0 /\ p.held, Paid(Repaid(p, o)))

ApplyDeparture(p, o) ==
  LET Gone(r) == Provided(r.ok, r.pos)
  IN IF o.lots # <<>>
     THEN Then(Provided(CheckTransferLots(o), p), LAMBDA q : ReleaseRecorded(q, o))
     ELSE Then(Provided(o.typ # "exchange_out", p),
               LAMBDA q : Gone(ReleaseFIFO(q, o.qty)))

\* Wrong: the lots keep the numbers they had in the journal they left.
ArrivingLotsAsSent(o) ==
  IF o.lots = <<>>
  THEN <<[lot |-> LotID(o, 0), qty |-> o.qty, cost |-> o.amount, day |-> NoDay]>>
  ELSE o.lots

\* The pieces an arrival brings: its breakdown, renumbered as its own lots, or
\* one undated lot when a transfer carries none.
ArrivingLots(o) ==
  IF o.lots = <<>>
  THEN <<[lot |-> LotID(o, 0), qty |-> o.qty, cost |-> o.amount, day |-> NoDay]>>
  ELSE [i \in DOMAIN o.lots |-> [o.lots[i] EXCEPT !.lot = LotID(o, i - 1)]]

ApplyArrival(p, o) ==
  Then(Provided(/\ o.amount >= 0
                /\ IF o.lots = <<>> THEN o.typ = "transfer_in"
                   ELSE CheckTransferLots(o), p),
       LAMBDA q : Run(LAMBDA r, lot : Provided(TRUE, AddLot(r, lot)),
                      q, ArrivingLots(o)))

\* Basis leaves the named lot, units stay; a lot that is gone is passed over
\* when the piece moves nothing from it.
Carved(p, pc) ==
  LET CarveAt(at) ==
        IF at = 0 THEN Provided(pc.lot # NoLot /\ pc.cost = 0, p)
        ELSE Provided(Names(p, pc, at) /\ pc.cost <= p.lots[at].cost,
                      TakenFrom(p, at, [pc EXCEPT !.qty = 0]))
  IN CarveAt(NamedLot(p, pc))

ApplySpinoffOut(p, o) ==
  Then(Provided(o.amount >= 0 /\ CheckSpinoffLots(o), p),
       LAMBDA q : Run(Carved, q, o.lots))

Apply(p, o) ==
  CASE o.typ = "buy"                             -> ApplyBuy(p, o)
    [] o.typ \in {"sell", "redemption"}          -> ApplyDisposal(p, o)
    [] o.typ \in {"dividend", "coupon", "tax"}   -> ApplyIncome(p, o)
    [] o.typ = "fee"                             -> ApplyFee(p, o)
    [] o.typ = "amortization"                    -> ApplyAmortization(p, o)
    [] o.typ \in Departures                      -> ApplyDeparture(p, o)
    [] o.typ \in Arrivals                        -> ApplyArrival(p, o)
    [] o.typ = "spinoff_out"                     -> ApplySpinoffOut(p, o)
    [] o.typ = "split"                           -> Provided(TRUE, SplitLots(p, o.ratio))
    [] OTHER                                     -> Provided(FALSE, p)

-----------------------------------------------------------------------------
(* The fold. *)

\* Compute's get: the first operation touching cost settles the currency, the
\* later ones must repeat it; until then the lowest code seen labels the row.
Settle(p, o) ==
  IF MustMatchPositionCurrency(o)
  THEN Provided(p.settled => o.cur = p.cur,
                [p EXCEPT !.seen = TRUE, !.settled = TRUE, !.cur = o.cur])
  ELSE Provided(TRUE,
                [p EXCEPT !.seen = TRUE,
                          !.cur = IF ~p.seen THEN o.cur
                                  ELSE IF p.settled THEN @ ELSE Least(@, o.cur)])

PositionOf(book, paper) ==
  IF paper \in DOMAIN book THEN book[paper] ELSE NoPosition

\* One entry of the journal folded into the book of positions.
FoldOne(book, o) ==
  LET Kept(r) == Provided(r.ok, [x \in DOMAIN book \cup {o.paper} |->
                                   IF x = o.paper THEN r.pos ELSE book[x]])
  IN IF o.paper = NoPaper THEN Provided(~RequiresInstrument(o.typ), book)
     ELSE IF ~CheckShape(o) THEN Provided(FALSE, book)
     ELSE IF o.typ = "conversion" THEN Provided(TRUE, book)
     ELSE Kept(Then(Settle(PositionOf(book, o.paper), o), LAMBDA p : Apply(p, o)))

Compute(ops) == Run(FoldOne, <<>>, ops)

Replays(ops) == Compute(ops).ok

\* ReleasedLots: the breakdown releasing qty units would consume after ops.
ReleasedLots(ops, paper, qty) ==
  LET Of(c) == IF c.ok /\ PositionOf(c.pos, paper).seen
               THEN ReleaseFIFO(c.pos[paper], qty)
               ELSE [ok |-> FALSE, pos |-> NoPosition, pieces |-> <<>>]
  IN Of(Compute(ops))

=============================================================================
