----------------------------- MODULE MCJournal -----------------------------
(* Small catalogues of requests for the runs of Journal, and the families that *)
(* ask for them.                                                               *)
EXTENDS Journal

Row(acct, typ, day, qty, amount) ==
  [Blank EXCEPT !.acct = acct, !.typ = typ, !.paper = "A", !.day = day,
                !.qty = qty, !.amount = amount]

Move(from, to, day, qty, basis) ==
  [from |-> from, to |-> to, paper |-> "A", day |-> day, qty |-> qty, basis |-> basis]

Nothing == {}

\* Two parcels of different days and prices, sales that reach both.
TradeRows ==
  {Row(1, "buy", 2, 2, -5), Row(1, "buy", 1, 1, -4),
   Row(1, "sell", 2, 2, 9), Row(2, "sell", 2, 1, 6)}

TradeMoves == {Move(1, 2, 2, 1, -1), Move(1, 2, 1, 1, -1), Move(1, 2, 2, 1, 3)}

CashMoves ==
  {[from |-> 1, to |-> 2, day |-> 1, amount |-> 3, cur |-> 1,
    received |-> 2, receivedCur |-> 2]}

-----------------------------------------------------------------------------
(* Shares that came from elsewhere and moved on. *)

Bought(qty, cost, day) == [lot |-> NoLot, qty |-> qty, cost |-> cost, day |-> day]

Came(acct, day, qty, pieces) ==
  [acct |-> acct, paper |-> "A", day |-> day, qty |-> qty, cur |-> 1, pieces |-> pieces]

\* Three shares whose purchases are not known yet.
Gifts == {Came(1, 2, 3, <<>>)}

Told == {<<Bought(3, 7, 1)>>, <<Bought(1, 2, 2), Bought(2, 8, NoDay)>>}

ChainMoves == {Move(1, 2, 2, 2, -1), Move(2, 3, 2, 1, -1), Move(1, 2, 3, 1, 4)}

LateSales == {Row(2, "sell", 3, 1, 9)}

-----------------------------------------------------------------------------
(* Importers. *)

Imported(src, ext, r) == [r EXCEPT !.src = src, !.ext = ext]

\* A broker says when in the day it was; a table somebody uploads does not.
FromBroker(ext, at, r) == [Imported("tinvest", ext, r) EXCEPT !.at = at]

One(r) == <<r>>

\* The two legs of one event, under a group of the importer's naming.
Two(ext, at, out, in) ==
  <<[FromBroker(ext, at, out) EXCEPT !.group = 100 + ext],
    [FromBroker(ext + 1, at, in) EXCEPT !.group = 100 + ext]>>

\* A purchase and its correction, another and a transfer of the same instant,
\* a purchase with an impossible sign; and an uploaded sale.
BrokerEvents ==
  {One(FromBroker(1, 1, Row(1, "buy", 1, 2, -6))),
   One(FromBroker(1, 1, Row(1, "buy", 1, 1, -2))),
   One(FromBroker(2, 1, Row(1, "buy", 1, 1, -3))),
   Two(3, 1, Row(1, "transfer_out", 1, 1, 0), Row(2, "transfer_in", 1, 1, 0)),
   One(FromBroker(5, 2, Row(1, "buy", 1, 1, 3)))}

Uploads == {One(Imported("csv", 6, Row(1, "sell", 1, 1, 4)))}

OwnerRows == {Row(1, "buy", 1, 1, -4), Row(1, "sell", 1, 1, 5)}

-----------------------------------------------------------------------------
(* Corporate actions. *)

Conversions ==
  {[acct |-> 1, from |-> "A", to |-> "B", day |-> 2, qty |-> 3, toQty |-> 2]}

CarveOuts ==
  {[acct |-> 1, from |-> "A", to |-> "B", day |-> 2, ratio |-> <<1, 2>>, share |-> 37]}

Registered ==
  {One(Imported("registry", 9, [Row(1, "split", 2, 0, 0) EXCEPT !.ratio = <<3, 2>>]))}

HolderRows ==
  {Row(1, "buy", 1, 2, -5), Row(1, "buy", 2, 1, -4), Row(1, "sell", 3, 1, 9),
   [Row(1, "amortization", 2, 0, 2) EXCEPT !.face = 1]}

HolderMoves == {Move(1, 2, 2, 1, -1)}

-----------------------------------------------------------------------------
(* Where the code and its comments part. *)

\* A purchase of an uploaded table, and a sale of it entered by hand.
ClockEvents == {One(Imported("csv", 7, Row(1, "buy", 1, 1, -4)))}
ClockRows   == {Row(1, "sell", 1, 1, 5)}

-----------------------------------------------------------------------------
(* The families: what each may ask for, and how long it is watched. *)

VARIABLE family   \* the family whose journal this is

Asking(hand, moves, events) ==
  [rows |-> hand, moves |-> moves, events |-> events, cash |-> {}, gifts |-> {},
   told |-> {}, exchanges |-> {}, spinoffs |-> {}, closable |-> {},
   maxRows |-> 5, maxClock |-> 6]

Families ==
  [traders |-> [Asking(TradeRows, TradeMoves, {}) EXCEPT
                  !.cash = CashMoves, !.closable = {2}, !.maxClock = 5],
   heirs   |-> [Asking(LateSales, ChainMoves, {}) EXCEPT
                  !.gifts = Gifts, !.told = Told, !.maxRows = 6],
   clients |-> [Asking(OwnerRows, {}, BrokerEvents \cup Uploads) EXCEPT
                  !.closable = {1}, !.maxRows = 4, !.maxClock = 6],
   holders |-> [Asking(HolderRows, HolderMoves, Registered) EXCEPT
                  !.exchanges = Conversions, !.spinoffs = CarveOuts, !.maxClock = 5],
   ahead   |-> [Asking(ClockRows, {}, ClockEvents) EXCEPT !.maxRows = 4]]

F == Families[family]

AllRows   == UNION {Families[f].rows : f \in DOMAIN Families}
AllMoves  == UNION {Families[f].moves : f \in DOMAIN Families}
AllEvents == UNION {Families[f].events : f \in DOMAIN Families}

\* One family's requests, within its bounds.
Within ==
  /\ Cardinality(rows') <= F.maxRows /\ clock' <= F.maxClock
  /\ UNCHANGED family

\* A delta is one importer's, and an upload is written or rolled back.
OfOneImporter ==
  LET taken == rows \ rows'   put == rows' \ rows
  IN  \E src \in {"tinvest", "csv", "registry"} :
        /\ \A r \in taken \cup put : r.src = src
        /\ src = "csv" => taken = {} \/ put = {}

FamiliesInit == Init /\ family \in DOMAIN Families \ {"ahead"}

FamiliesNext ==
  \/ DoCreate(F.rows) /\ Within
  \/ DoReplace(F.rows) /\ Within
  \/ DoUpdate(F.rows) /\ Within
  \/ DoDelete /\ Within
  \/ DoTransfer(F.moves) /\ Within
  \/ DoMoneyTransfer(F.cash) /\ Within
  \/ DoArrival(F.gifts) /\ Within
  \/ DoStatePurchases(F.told) /\ Within
  \/ DoExchange(F.exchanges) /\ Within
  \/ DoSpinoff(F.spinoffs) /\ Within
  \/ DoImport(F.events) /\ OfOneImporter /\ Within
  \/ DoArchive(F.closable) /\ Within

FamiliesSpec == FamiliesInit /\ [][FamiliesNext]_<<vars, family>>

\* The family of an upload whose process keeps a clock ahead of the database's.
AheadSpec == Init /\ family = "ahead" /\ [][FamiliesNext]_<<vars, family>>

=============================================================================
