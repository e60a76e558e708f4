----------------------------- MODULE MCRegistry -----------------------------
(* Small catalogues of entries and events for the run of Registry.  *)
EXTENDS Registry

Numbers == [A |-> 1, B |-> 2]
Isins   == [A |-> 2, B |-> 1]

Row(acct, typ, paper, day, qty, amount) ==
  [Blank EXCEPT !.acct = acct, !.typ = typ, !.paper = paper, !.day = day,
                !.qty = qty, !.amount = amount]

Fact(kind, isin, on, ratio, result, src) ==
  [id |-> 0, kind |-> kind, isin |-> isin, on |-> on, ratio |-> ratio,
   result |-> result, share |-> 25, src |-> src]

\* Purchases ahead of the split and on its day, a sale of what they produce.
HolderRows ==
  {Row(1, "buy", "A", 1, 2, -5), Row(1, "buy", "A", 2, 1, -4), Row(1, "sell", "B", 5, 1, 9)}

Split   == Fact("split", 2, 2, <<3, 1>>, NoIsin, "manual")
Convert == Fact("conversion", 2, 4, <<1, 2>>, 1, "known")
Carve   == Fact("spin_off", 2, 4, <<1, 1>>, 1, "manual")

Splits    == {Split}
Notices == {Convert, [Convert EXCEPT !.ratio = <<1, 1>>]}
Carves == {Carve, Split}

TwoBuys == {Row(1, "buy", "A", 1, 2, -5), Row(1, "buy", "A", 2, 1, -4)}

-----------------------------------------------------------------------------
CONSTANTS d1, d2

Quiet ==
  [rows |-> HolderRows, recordable |-> Splits, published |-> {}, late |-> {},
   doors |-> {d1}, changes |-> 3, faults |-> 0, crashes |-> 0]

\* Two doors and the queue at once; a paper carved out and catalogued late;
\* transactions that fail and a restart.
MCWorlds ==
  [together |-> [Quiet EXCEPT !.rows = TwoBuys, !.published = {Convert}, !.doors = {d1, d2}],
   carved   |-> [Quiet EXCEPT !.recordable = Carves, !.late = {"B"}],
   failing  |-> [Quiet EXCEPT !.rows = TwoBuys, !.published = Notices,
                              !.faults = 1, !.crashes = 1]]

=============================================================================
