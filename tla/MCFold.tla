------------------------------- MODULE MCFold -------------------------------
(* Parcels whose prices and counts never divide evenly. *)
EXTENDS Fold

Op(typ, day, qty, amount) ==
  [Blank EXCEPT !.typ = typ, !.paper = "A", !.day = day, !.qty = qty, !.amount = amount]

Bond(day, amount, face) == [Op("amortization", day, 0, amount) EXCEPT !.face = face]

Trading ==
  {Op("buy", 1, 2, -5), Op("buy", 2, 3, -7), Op("sell", 2, 2, 9),
   [Op("split", 2, 0, 0) EXCEPT !.ratio = <<2, 3>>],
   Bond(2, 2, 1), Bond(3, 1, 0),
   \* a parcel older than everything held, and one of unknown age
   [Op("transfer_in", 2, 3, 4) EXCEPT
      !.lots = <<[lot |-> NoLot, qty |-> 1, cost |-> 3, day |-> NoDay],
                 [lot |-> NoLot, qty |-> 2, cost |-> 1, day |-> 1]>>],
   Op("dividend", 3, 0, 1)}

CarvedShares == {33, 50}

=============================================================================
