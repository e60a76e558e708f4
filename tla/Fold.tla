-------------------------------- MODULE Fold --------------------------------
(***************************************************************************)
(* The engine at work on one account: operations arrive in fold order and  *)
(* each is folded into the book of positions, as Compute does.  What the   *)
(* rest of the program asks of a position between two operations, what a   *)
(* transfer would release and what a spin-off would carry, is asked of     *)
(* every book reached.                                                     *)
(***************************************************************************)
EXTENDS Ledger

CONSTANTS
  Catalogue,  \* the operations that may come, but for what leaves
  MaxOps,     \* how many come
  Shares      \* the shares of basis a spin-off may carry, in 1/DivScale

Papers == {o.paper : o \in Catalogue}

ASSUME FoldAssumption ==
  /\ MaxOps \in Nat /\ Shares \subseteq 0..DivScale
  /\ \A o \in Catalogue : IsEntry(o) /\ o.typ \notin Departures \cup {"spinoff_out"}

VARIABLES
  book,  \* paper -> position
  n,     \* operations folded
  last,  \* the day the fold has reached
  paid,  \* paper -> what the parcels brought in had cost
  sent   \* paper -> the basis that left with departing parcels

vars == <<book, n, last, paid, sent>>

Init == /\ book = <<>> /\ n = 0 /\ last = 1
        /\ paid = [x \in Papers |-> 0] /\ sent = [x \in Papers |-> 0]

\* o under a number of its own: a row's id, an imported row's record.
AsRow(o) == [o EXCEPT !.id = n + 1, !.ext = IF @ = 0 THEN 0 ELSE n + 1]

\* One accepted operation, folded.
Entered(o) ==
  LET r == FoldOne(book, AsRow(o))
  IN /\ n < MaxOps /\ o.day >= last /\ r.ok
     /\ book' = r.pos /\ n' = n + 1 /\ last' = o.day
     /\ paid' = [paid EXCEPT ![o.paper] = @ + BasisBrought(o)]

Enter == \E o \in Catalogue : Entered(o) /\ UNCHANGED sent

\* A parcel leaves with the breakdown its release was recorded as.
Depart ==
  \E paper \in DOMAIN book : \E q \in 1..book[paper].qty :
    LET lots == Quantize(ReleaseFIFO(book[paper], q).pieces, q)
    IN /\ Entered([Blank EXCEPT !.typ = "transfer_out", !.paper = paper, !.day = last,
                     !.qty = q, !.lots = lots, !.amount = LotsCost(lots)])
       /\ sent' = [sent EXCEPT ![paper] = @ + LotsCost(lots)]

\* Basis is carved out of every lot, by a share of the holding's cost.
CarveOut ==
  \E paper \in DOMAIN book, share \in Shares :
    LET pieces == SpinoffPieces(book[paper].lots, share)
    IN /\ book[paper].qty > 0
       /\ Entered([Blank EXCEPT !.typ = "spinoff_out", !.paper = paper, !.day = last,
                     !.lots = pieces, !.amount = LotsCost(pieces)])
       /\ sent' = [sent EXCEPT ![paper] = @ + LotsCost(pieces)]

Next == Enter \/ Depart \/ CarveOut

Spec == Init /\ [][Next]_vars

-----------------------------------------------------------------------------
(* Properties. *)

\* Nothing is ever held short: units and cost of a position and of each of its
\* lots are natural numbers, and no lot is younger than the fold.
TypeOK ==
  /\ n \in 0..MaxOps /\ last \in Nat \ {0}
  /\ paid \in [Papers -> Nat] /\ sent \in [Papers -> Nat] /\ DOMAIN book \subseteq Papers
  /\ \A paper \in DOMAIN book :
       LET p == book[paper]
       IN /\ DOMAIN p = DOMAIN NoPosition /\ p.qty \in Nat /\ p.cost \in Nat
          /\ \A i \in DOMAIN p.lots :
               /\ p.lots[i].qty \in Nat /\ p.lots[i].cost \in Nat
               /\ p.lots[i].day \in 0..last

\* The lots of a position add up to it, in order of acquisition, whatever
\* truncations the fold went through (Position.Lots).
QueueAddsUp ==
  \A paper \in DOMAIN book :
    LET p == book[paper]
    IN /\ LotsUnits(p.lots) = p.qty /\ LotsCost(p.lots) = p.cost
       /\ \A i \in 2..Len(p.lots) : p.lots[i - 1].day <= p.lots[i].day

\* A departure written down as its quantized breakdown replays to the queue the
\* FIFO release left: the same lots, units and costs, for every quantity a
\* person may ask for (quantizeLots, releaseRecorded, #60).
RecordedAsReleased ==
  \A paper \in DOMAIN book : \A q \in 1..book[paper].qty :
    LET p        == book[paper]
        fifo     == ReleaseFIFO(p, q)
        pieces   == Quantize(fifo.pieces, q)
        recorded == ReleaseRecorded(p, [qty |-> q, lots |-> pieces])
    IN /\ recorded.ok
       /\ Unspent(recorded.pos.lots) = Unspent(fifo.pos.lots)
       /\ recorded.pos.qty = fifo.pos.qty /\ recorded.pos.cost = fifo.pos.cost

\* The unit that is k-th in the queue belongs to the lot OwnerOf names.
OwnerOf(lots, k) ==
  LET before == Prefix(Units(lots))
  IN lots[CHOOSE i \in DOMAIN lots : before[i - 1] < k /\ k <= before[i]].lot

UnitsOf(lots, lot) ==
  Total([i \in DOMAIN lots |-> IF lots[i].lot = lot THEN lots[i].qty ELSE 0])

\* First in, first out, unit by unit: a release of q units takes from each lot
\* the units of it among the q oldest, and what it takes and leaves of a lot's
\* cost is the lot's cost (releaseFIFO).
OldestFirst ==
  \A paper \in DOMAIN book : \A q \in 1..book[paper].qty :
    LET p     == book[paper]
        r     == ReleaseFIFO(p, q)
        names == {p.lots[i].lot : i \in DOMAIN p.lots}
    IN /\ \A lot \in names :
            UnitsOf(r.pieces, lot) = Cardinality({k \in 1..q : OwnerOf(p.lots, k) = lot})
       /\ LotsCost(r.pieces) + LotsCost(r.pos.lots) = p.cost

\* A spin-off carries exactly its share of the whole basis, rounded once, and
\* never more of a lot than the lot cost (SpinoffPieces).
CarvedExactly ==
  \A paper \in DOMAIN book, share \in Shares :
    LET p      == book[paper]
        pieces == SpinoffPieces(p.lots, share)
    IN /\ LotsCost(pieces) = (p.cost * share) \div DivScale
       /\ \A i \in DOMAIN pieces : pieces[i].cost \in 0..p.lots[i].cost

Given(p) == Total([i \in DOMAIN p.realized |-> LotsCost(p.realized[i].released)])

\* Every unit of cost a paper brought in is held, was released by a disposal, or
\* left with a parcel (Realization, #60).
CostAccounted ==
  \A paper \in Papers :
    paid[paper] - sent[paper] =
      IF paper \in DOMAIN book THEN book[paper].cost + Given(book[paper]) ELSE 0

\* No unit and no cost is lost on the way: a position is its queue, and what
\* was brought in is held, was given up or left.
NothingLost == TypeOK /\ QueueAddsUp /\ CostAccounted
=============================================================================
