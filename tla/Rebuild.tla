------------------------------ MODULE Rebuild ------------------------------
(* The rebuild of one connection (importer/tinvest/rebuild.go): what the     *)
(* mirror's rows mean together, the difference to what the journal holds of  *)
(* this importer, and the three writes that bring the journal and the rows'  *)
(* verdicts into line: the difference, the halves taken back, the verdicts.  *)
(* A run may stop between any two of them, and the broker, the catalogue,    *)
(* the rates, the broker's report and the owner change things around it.     *)
EXTENDS Projection, FiniteSets, FiniteSetsExt, TLC

CONSTANTS Worlds,          \* instances by name: what may happen in each, and how often
          Rank,            \* row id -> its place among ids
          Papers,          \* the catalogue: paper -> [id, kind, cur]
          Pairs,           \* currency pairs: paper -> [code, nominal]
          CrossRate,       \* official rates: <<from, to>> -> whole number
          Faces,           \* bond -> the face before a repayment, 0 when not listed
          StatedCosts,     \* what the owner may say an arrival cost
          fundPayoutWindow, maxSettlementLag

VARIABLES world,      \* the instance: chosen once
          rows,       \* the mirror: row id -> its row
          verdict,    \* row id -> why it is not read, "" when it is
          explained,  \* rows the owner explained by hand
          known,      \* papers and pairs the catalogue or the broker tells of
          rated,      \* official rates are published
          reported,   \* row id -> the settlement day of its trade
          stated,     \* entry name -> [qty, cost]: purchases the owner stated
          journal,    \* this importer's entries
          run,        \* the rebuild under way
          fresh,      \* the last rebuild ended well and read all there is
          changes, stops

outside == <<world, rows, explained, known, rated, reported>>
vars == <<world, rows, verdict, explained, known, rated, reported, stated, journal, run, fresh,
          changes, stops>>

Versions == Worlds[world].versions         \* row id -> the rows it may be
SettleDays == Worlds[world].settleDays     \* days a report may name
Explainable == Worlds[world].explainable   \* rows the owner may explain
MaxChanges == Worlds[world].maxChanges
MaxStops == Worlds[world].maxStops

Idle == [at |-> "idle", current |-> FALSE, want |-> <<>>, verdicts |-> <<>>,
         add |-> <<>>, remove |-> {}, kept |-> {}]
Init == /\ world \in DOMAIN Worlds /\ known \in Worlds[world].known
        /\ rows = <<>> /\ verdict = <<>> /\ explained = {} /\ rated = FALSE
        /\ reported = <<>> /\ stated = <<>> /\ journal = {} /\ run = Idle
        /\ fresh = FALSE /\ changes = 0 /\ stops = 0

Without(f, S) == [x \in DOMAIN f \ S |-> f[x]]
CashEffect(o) == o.amount - o.fee
-----------------------------------------------------------------------------
(* projectAll *)
Live(id) == rows[id].live /\ id \notin explained

(* resolve, ResolveCurrency and provePairs: a pair the broker forgot is told *)
(* by any priced trade of the link.                                          *)
Resolves(row) == row.paper # "" /\ row.kind \in SupportedKinds \cup {""}
Resolved(row) == IF Resolves(row) /\ row.paper \in known THEN Papers[row.paper] ELSE NoPaper
provePairs(row) ==
  \E id \in DOMAIN rows : /\ Live(id) /\ rows[id].link = row.link /\ rows[id].kind = "currency"
                          /\ rows[id].paper = row.paper /\ rows[id].price > 0
TradesCurrency(row) == row.kind = "currency" /\ row.paper # ""
Traded(row) == IF TradesCurrency(row) /\ (row.paper \in known \/ provePairs(row))
               THEN Pairs[row.paper] ELSE NotTraded
ResolveRefusal(row) ==
  FirstOf(<<IF Resolves(row) /\ row.paper \notin known THEN "instrument_unresolved" ELSE "",
            IF TradesCurrency(row) /\ Traded(row) = NotTraded THEN "currency_trade" ELSE "">>)

(* Wrong: the first withdrawal that may be meant. *)
AnyWithdrawal(ids, pay) == Cardinality(ids) >= 1
OnlyOne(ids, pay) == Cardinality(ids) = 1
(* pairFundRedemptions: nothing else could be meant. *)
FundRows(ops) == {id \in DOMAIN rows : /\ rows[id].live /\ rows[id].kind = "etf"
                                       /\ rows[id].paper # "" /\ rows[id].op \in ops}
Candidates(pay) ==
  {w \in FundRows({"OUTPUT_SECURITIES"}) :
     /\ rows[w].link = rows[pay].link /\ rows[w].paper = rows[pay].paper
     /\ rows[w].at <= rows[pay].at /\ rows[pay].at - rows[w].at <= fundPayoutWindow}
Payouts == FundRows({"BOND_REPAYMENT", "BOND_REPAYMENT_FULL"})
Claims(w) == {pay \in Payouts : w \in Candidates(pay)}
PaidFor == {pay \in Payouts : /\ OnlyOne(Candidates(pay), pay)
                              /\ \A w \in Candidates(pay) : OnlyOne(Claims(w), w)}
WithdrawalOf(pay) == CHOOSE w \in Candidates(pay) : TRUE
Withdrawn == {WithdrawalOf(pay) : pay \in PaidFor}

(* projectAll: what one row that happened comes to. *)
Outcome(id) ==
  LET row == rows[id]
  IN IF id \in Withdrawn THEN Makes("", <<>>, "")
     ELSE IF ResolveRefusal(row) # "" THEN Refuses(ResolveRefusal(row))
     ELSE IF id \in PaidFor
          THEN projectFundRedemption(row, rows[WithdrawalOf(id)], Resolved(row))
          ELSE ProjectRow(row, Resolved(row), Traded(row))

(* settleOn: a day before the trade or long after it is another trade's. *)
Settled(op, id) ==
  IF /\ id \in DOMAIN reported /\ op.typ \in {"buy", "sell", "conversion"}
     /\ op.day <= reported[id] /\ reported[id] - op.day <= maxSettlementLag
  THEN [op EXCEPT !.settled = reported[id]] ELSE op

(* withExternalIDs and desired: the entries of a row, numbered as built. *)
Desired(id) ==
  LET out == Outcome(id)
  IN {Settled(out.ops[n], id) @@
        [name |-> <<id, n>>, row |-> id, leg |-> n, at |-> rows[id].at, link |-> rows[id].link,
         parent |-> rows[id].parent, pairable |-> PairableLeg(rows[id]),
         owed |-> IF n = 1 THEN out.owed ELSE "", stamp |-> 0] : n \in DOMAIN out.ops}

(* sortDesired *)
Before(d, e) == \/ d.at < e.at
                \/ d.at = e.at /\ (Rank[d.row] < Rank[e.row] \/ (d.row = e.row /\ d.leg < e.leg))
sortDesired(entries) ==
  [k \in 1..Cardinality(entries) |->
     CHOOSE d \in entries : Cardinality({e \in entries : Before(e, d)}) = k - 1]

Happened == {id \in DOMAIN rows : Live(id)}
projectAll ==
  [want      |-> sortDesired(UNION {Desired(id) : id \in Happened}),
   verdicts  |-> [id \in {i \in DOMAIN rows : rows[i].live \/ i \in explained} |->
                    IF id \in explained THEN "" ELSE Outcome(id).why],
   projected |-> {id \in Happened : Outcome(id).ops # <<>>},
   booked    |-> {id \in Happened : \E n \in DOMAIN Outcome(id).ops : Outcome(id).ops[n].fee # 0}]

(* Rows refused once read together lose every entry. *)
Refusing(p, why) ==
  [p EXCEPT !.want = SelectSeq(p.want, LAMBDA d : d.row \notin DOMAIN why), !.verdicts = why @@ @]
-----------------------------------------------------------------------------
(* unitsMoved *)
unitsMoved(o) == IF o.typ \in {"buy", "transfer_in"} THEN o.qty
                 ELSE IF o.typ \in {"sell", "redemption", "transfer_out"} THEN -o.qty ELSE 0

HeldAt(f, key) == IF key \in DOMAIN f THEN f[key] ELSE 0
Position(d) == <<d.acct, d.paper>>
(* Wrong: what was traded, not what arrived. *)
TradedUnits(d) == IF d.typ = "buy" THEN d.qty ELSE IF d.typ \in {"sell", "redemption"} THEN -d.qty ELSE 0
Counted(d) == unitsMoved(d)
(* closeRedemptions: the count of a redemption is the position it finds. *)
CloseOne(acc, d) ==
  LET key == Position(d)
      held == HeldAt(acc.held, key)
      closed == IF d.owed = "redeemedQuantity" THEN [d EXCEPT !.qty = held] ELSE d
  IN IF d.paper = "" THEN [acc EXCEPT !.out = Append(@, d)]
     ELSE IF d.owed = "redeemedQuantity" /\ held <= 0
          THEN [acc EXCEPT !.why = (d.row :> "redemption_nothing_held") @@ @]
          ELSE [acc EXCEPT !.out = Append(@, closed),
                           !.held = (key :> held + Counted(closed)) @@ @]
closeRedemptions(p) ==
  LET end == FoldLeft(CloseOne, [held |-> <<>>, out |-> <<>>, why |-> <<>>], p.want)
  IN Refusing([p EXCEPT !.want = end.out], end.why)

(* fixesPositionCurrency *)
fixesPositionCurrency(d) ==
  /\ d.typ \notin {"dividend", "coupon", "tax", "fee", "sell", "redemption"}
  /\ d.amount # 0 \/ d.fee # 0

(* restate: the two exchange entries beside an entry kept in its position's  *)
(* currency, after the row's last.                                           *)
Exchange(d, rate, n) ==
  LET Leg(i, cur, sum) == [d EXCEPT !.typ = "conversion", !.paper = "", !.qty = 0, !.fee = 0,
        !.settled = 0, !.cur = cur, !.amount = sum, !.name = <<d.row, n + i>>, !.leg = n + i]
  IN {Leg(1, d.cur, CashEffect(d)), Leg(2, Papers[d.paper].cur, -(CashEffect(d) * rate))}
Restated(d, cur, rate) == [d EXCEPT !.cur = cur, !.amount = @ * rate, !.fee = @ * rate]

(* convertToPositionCurrency *)
Moves == {"transfer_in", "transfer_out"}
Restatable == {"buy", "sell", "redemption", "amortization"}
LastLeg(entries, row) == Max({d.leg : d \in {e \in entries : e.row = row}})
ConvertOne(acc, d) ==
  LET key == Position(d)
      cur == acc.cur[key]
      Keep(e) == [acc EXCEPT !.out = @ \cup {e}]
      rate == CrossRate[<<d.cur, cur>>]
  IN IF d.paper = "" \/ d.row \in DOMAIN acc.why THEN Keep(d)
     ELSE IF key \notin DOMAIN acc.cur
          THEN [Keep(d) EXCEPT !.cur = IF fixesPositionCurrency(d) THEN (key :> d.cur) @@ @ ELSE @]
     ELSE IF d.cur = cur \/ d.typ \notin Moves \cup Restatable THEN Keep(d)
     ELSE IF d.typ \in Moves THEN Keep([d EXCEPT !.cur = cur])
     ELSE IF ~rated THEN [Keep(d) EXCEPT !.why = (d.row :> "foreign_currency_no_rate") @@ @]
     ELSE [acc EXCEPT !.out = @ \cup {Restated(d, cur, rate)}
                                \cup Exchange(d, rate, LastLeg(acc.all, d.row))]
convertToPositionCurrency(p) ==
  LET end == FoldLeft(ConvertOne, [cur |-> <<>>, out |-> {}, why |-> <<>>, all |-> ToSet(p.want)],
                      p.want)
  IN Refusing([p EXCEPT !.want = sortDesired(end.out)], end.why)

(* fillFaceBefore *)
Measured(d) ==
  IF d.typ = "amortization" /\ d.paper # "" /\ d.cur = Papers[d.paper].cur
  THEN [d EXCEPT !.face = Faces[d.paper]] ELSE d
fillFaceBefore(p) == [p EXCEPT !.want = [i \in DOMAIN p.want |-> Measured(p.want[i])]]

(* settleBrokerFees: a commission charged on its own, against its trade. *)
SameLink(d, id) == id \in DOMAIN rows /\ rows[id].live /\ rows[id].link = d.link
FeeStays(p, d) ==
  \/ d.owed # "feeVerdict" \/ d.parent = ""
  \/ SameLink(d, d.parent) /\ d.parent \in p.projected \ (p.booked \cup explained)
FeeWhy(p, d) ==
  IF d.parent = "" \/ d.parent \in p.booked THEN ""
  ELSE IF ~SameLink(d, d.parent) THEN "broker_fee_parent_missing"
  ELSE IF d.parent \in explained THEN "broker_fee_parent_explained" ELSE ""
(* Wrong: a commission goes only with the trade that booked it. *)
KeepUnbooked(p) ==
  [p EXCEPT !.want = SelectSeq(@, LAMBDA d : d.owed # "feeVerdict" \/ d.parent \notin p.booked)]
settleBrokerFees(p) ==
  LET fees == {d \in ToSet(p.want) : d.owed = "feeVerdict"}
      told == {d \in fees : FeeWhy(p, d) # ""}
  IN [p EXCEPT !.want = SelectSeq(@, LAMBDA d : FeeStays(p, d)),
               !.verdicts = [row \in {d.row : d \in told} |->
                               FeeWhy(p, CHOOSE d \in told : d.row = row)] @@ @]

(* Wrong: any two legs that agree. *)
AnyTwoLegs(d, e) ==
  /\ d.typ = "transfer_out" /\ e.typ = "transfer_in"
  /\ <<d.paper, d.qty, d.day, d.cur>> = <<e.paper, e.qty, e.day, e.cur>> /\ d.acct # e.acct
(* transferPair *)
OneParcel(d, e) ==
  /\ d.pairable /\ e.pairable /\ d.typ = "transfer_out" /\ e.typ = "transfer_in"
  /\ <<d.paper, d.qty, d.day, d.cur>> = <<e.paper, e.qty, e.day, e.cur>> /\ d.acct # e.acct
(* pairTransfers: the first arrival not taken yet; the group is their names. *)
PairOne(acc, d) ==
  LET free == SelectSeq(acc.all, LAMBDA e : OneParcel(d, e) /\ e.name \notin UNION acc.groups)
  IN IF free = <<>> THEN acc ELSE [acc EXCEPT !.groups = @ \cup {{d.name, free[1].name}}]
pairTransfers(p) ==
  LET end == FoldLeft(PairOne, [all |-> p.want, groups |-> {}], p.want)
      Group(d) == {g \in end.groups : d.name \in g}
  IN [p EXCEPT !.want = [i \in DOMAIN p.want |->
        [p.want[i] EXCEPT !.group = UNION Group(p.want[i])]]]

(* applyStatedPurchases: the purchases still add up to the arrival. *)
Costed(d) ==
  IF /\ d.typ = "transfer_in" /\ d.group = {}
     /\ d.name \in DOMAIN stated /\ stated[d.name].qty = d.qty
  THEN [d EXCEPT !.amount = stated[d.name].cost, !.stated = TRUE] ELSE d
applyStatedPurchases(p) == [p EXCEPT !.want = [i \in DOMAIN p.want |-> Costed(p.want[i])]]

(* Rebuild: the passes in their order. *)
Projected ==
  applyStatedPurchases(pairTransfers(settleBrokerFees(fillFaceBefore(
    convertToPositionCurrency(closeRedemptions(projectAll))))))
-----------------------------------------------------------------------------
(* sameJournalRow: all but the stamp, and the basis the journal released. *)
JournalOwnsBasis(o) == o.typ = "transfer_out" \/ (o.typ = "transfer_in" /\ o.group # {})
SameJournalRow(d, s) == d = [s EXCEPT !.stamp = 0, !.amount = IF JournalOwnsBasis(d) THEN d.amount ELSE @]
Stands(d) == \E s \in journal : s.name = d.name /\ SameJournalRow(d, s)
StoredAs(d) == {s \in journal : s.name = d.name}

(* unitsOf: the two legs of a move go together. *)
UnitOf(want, d) == {e \in ToSet(want) : e = d \/ (d.group # {} /\ e.group = d.group)}
Unchanged(want, d) == \A e \in UnitOf(want, d) : Stands(e)
(* A replacement keeps its place. *)
Inheriting(d) == IF StoredAs(d) = {} THEN d
                 ELSE [d EXCEPT !.stamp = (CHOOSE s \in StoredAs(d) : TRUE).stamp]
(* difference *)
ToAdd(want) == LET changed == SelectSeq(want, LAMBDA d : ~Unchanged(want, d))
               IN  [i \in DOMAIN changed |-> Inheriting(changed[i])]
KeptOf(want) == UNION {StoredAs(d) : d \in {e \in ToSet(want) : Unchanged(want, e)}}
Names(entries) == {e.name : e \in entries}
But(names) == {e \in journal : e.name \notin names}
ToRemove(want) == {e.name : e \in journal \ KeptOf(want)}

(* validateImported and the replay of the journal: a type's sign, and never  *)
(* more out than in.                                                         *)
SignFits(o) ==
  CASE o.typ \in {"buy", "withdrawal", "fee", "tax"} -> o.amount < 0
    [] o.typ \in {"conversion"} -> o.amount # 0
    [] o.typ \in Moves -> TRUE
    [] OTHER -> o.amount > 0
UpTo(entries, o) ==
  {e \in entries : /\ e.acct = o.acct /\ e.paper = o.paper
                   /\ e.at < o.at \/ (e.at = o.at /\ e.stamp <= o.stamp)}
Replays(entries) ==
  \A o \in entries : o.paper = "" \/ MapThenSumSet(unitsMoved, UpTo(entries, o)) >= 0
-----------------------------------------------------------------------------
(* ApplyImportDelta: all together, else each unit that fits, in their order. *)
Youngest == Max({e.stamp : e \in journal} \cup {0})
Stamped(add) == [i \in DOMAIN add |-> IF add[i].stamp # 0 THEN add[i]
                                      ELSE [add[i] EXCEPT !.stamp = Youngest + i]]
OfferOne(acc, d) ==
  LET unit == {e \in acc.all : e = d \/ (d.group # {} /\ e.group = d.group)}
  IN IF d \in acc.in THEN acc
     ELSE IF (\A e \in unit : SignFits(e)) /\ Replays(acc.in \cup unit)
          THEN [acc EXCEPT !.in = @ \cup unit] ELSE acc
Accepted(kept, add) ==
  IF (\A d \in ToSet(add) : SignFits(d)) /\ Replays(kept \cup ToSet(add)) THEN kept \cup ToSet(add)
  ELSE FoldLeft(OfferOne, [in |-> kept, all |-> ToSet(add)], add).in

Changes == changes < MaxChanges /\ changes' = changes + 1
Stale == fresh' = FALSE /\ run' = [run EXCEPT !.current = FALSE]

(* The broker adds a row, restates it, or shows it no more; the mirror is    *)
(* read in the run that rebuilds after it, so never under a rebuild.         *)
BrokerChanges(id) ==
  /\ run.at = "idle" /\ Changes /\ Stale
  /\ \E row \in Versions[id] : /\ id \in DOMAIN rows => rows[id] # row
                               /\ rows' = (id :> row) @@ rows
                               /\ verdict' = IF id \in DOMAIN rows THEN verdict ELSE (id :> "") @@ verdict
  /\ UNCHANGED <<world, explained, known, rated, reported, stated, journal, stops>>
(* EntriesOfRows: an explanation takes the row's entries away. *)
Explain(id) ==
  LET mine == {e \in journal : e.row = id}
  IN /\ Changes /\ Stale
     /\ id \in (DOMAIN rows \cap Explainable) \ explained /\ \A e \in mine : e.group = {}
     /\ explained' = explained \cup {id} /\ journal' = journal \ mine
     /\ UNCHANGED <<world, rows, verdict, known, rated, reported, stated, stops>>
Unexplain(id) ==
  /\ Changes /\ Stale /\ id \in explained /\ explained' = explained \ {id}
  /\ UNCHANGED <<world, rows, verdict, known, rated, reported, stated, journal, stops>>
(* The catalogue learns of a paper; the day's rates are published. *)
Learn(paper) ==
  /\ Changes /\ Stale /\ paper \notin known /\ known' = known \cup {paper}
  /\ UNCHANGED <<world, rows, verdict, explained, rated, reported, stated, journal, stops>>
Publish ==
  /\ Changes /\ Stale /\ ~rated /\ rated' = TRUE
  /\ UNCHANGED <<world, rows, verdict, explained, known, reported, stated, journal, stops>>
(* readSettlements: a month's report names the day of a trade. *)
ReadReport(id) ==
  /\ Changes /\ Stale /\ id \in DOMAIN rows /\ rows[id].op \in {"BUY", "SELL"}
  /\ \E day \in SettleDays : /\ id \in DOMAIN reported => reported[id] # day
                             /\ reported' = (id :> day) @@ reported
  /\ UNCHANGED <<world, rows, verdict, explained, known, rated, stated, journal, stops>>
(* StatePurchases: the owner says what an arrival had cost. *)
StatePurchases(e) ==
  /\ Changes /\ e.typ = "transfer_in" /\ e.group = {}
  /\ \E cost \in StatedCosts :
       /\ stated' = (e.name :> [qty |-> e.qty, cost |-> cost]) @@ stated
       /\ journal' = (journal \ {e}) \cup {[e EXCEPT !.amount = cost, !.stated = TRUE]}
  /\ run' = [run EXCEPT !.current = FALSE]
  /\ UNCHANGED <<world, rows, verdict, explained, known, rated, reported, fresh, stops>>
-----------------------------------------------------------------------------
(* The mirror is read and understood. *)
Read ==
  /\ run.at = "idle"
  /\ run' = [Idle EXCEPT !.at = "difference", !.current = TRUE,
                         !.want = Projected.want, !.verdicts = Projected.verdicts]
  /\ UNCHANGED <<outside, verdict, stated, journal, fresh, changes, stops>>
Compare ==
  /\ run.at = "difference"
  /\ run' = [run EXCEPT !.at = "apply", !.add = ToAdd(run.want), !.remove = ToRemove(run.want),
                        !.kept = KeptOf(run.want)]
  /\ UNCHANGED <<outside, verdict, stated, journal, fresh, changes, stops>>

(* Wrong: the accepted half of an event stays. *)
NoHalves(refused, written, kept) == {}
(* The halves of events the journal took only part of. *)
Halves(refused, written, kept) == {e \in written \cup kept : e.row \in refused}
(* apply: the difference in one transaction. *)
Apply ==
  LET add == Stamped(run.add)
      after == Accepted(But(run.remove), add)
      refused == {d.row : d \in ToSet(add) \ after}
  IN /\ run.at = "apply"
     /\ run.remove \subseteq Names(journal)
     /\ journal' = after
     /\ run' = [run EXCEPT !.at = "withdraw",
                  !.verdicts = [row \in refused |-> "engine_refused"] @@ @,
                  !.remove = Names(Halves(refused, ToSet(add) \cap after, run.kept)), !.add = <<>>, !.kept = {},
                  !.want = <<>>]
     /\ UNCHANGED <<outside, verdict, stated, fresh, changes, stops>>
(* apply: the halves go in a transaction of their own. *)
Withdraw ==
  /\ run.at = "withdraw" /\ run.remove \subseteq Names(journal) /\ Replays(But(run.remove))
  /\ journal' = But(run.remove)
  /\ run' = [run EXCEPT !.at = "verdicts", !.remove = {}]
  /\ UNCHANGED <<outside, verdict, stated, fresh, changes, stops>>
(* writeVerdicts *)
WriteVerdicts ==
  /\ run.at = "verdicts"
  /\ verdict' = run.verdicts @@ verdict /\ fresh' = run.current /\ run' = Idle
  /\ UNCHANGED <<outside, stated, journal, changes, stops>>
(* The delta refers to entries that are gone. *)
Refused ==
  /\ run.at \in {"apply", "withdraw"} /\ ~(run.remove \subseteq Names(journal))
  /\ run' = Idle
  /\ UNCHANGED <<outside, verdict, stated, journal, fresh, changes, stops>>
(* A write fails or the process stops. *)
Stop ==
  /\ stops < MaxStops /\ stops' = stops + 1 /\ run.at \in {"apply", "withdraw", "verdicts"}
  /\ run' = Idle /\ fresh' = FALSE
  /\ UNCHANGED <<outside, verdict, stated, journal, changes>>

World == \/ \E id \in DOMAIN Versions : BrokerChanges(id) \/ Explain(id) \/ Unexplain(id) \/ ReadReport(id)
         \/ \E paper \in DOMAIN Papers \cup DOMAIN Pairs : Learn(paper)
         \/ Publish \/ \E e \in journal : StatePurchases(e)
Runs == Read \/ Compare \/ Apply \/ Withdraw \/ WriteVerdicts \/ Refused \/ Stop
Next == World \/ Runs
Spec == Init /\ [][Next]_vars
-----------------------------------------------------------------------------
(* Every entry of the journal is of a row the mirror has, once. *)
TypeOK ==
  /\ explained \subseteq DOMAIN rows /\ DOMAIN verdict = DOMAIN rows
  /\ \A e \in journal : e.row \in DOMAIN rows /\ e.stamp > 0 /\ e.qty >= 0 /\ e.fee >= 0
  /\ \A e, f \in journal : e.name = f.name \/ e.stamp = f.stamp => e = f

AtRest == fresh /\ run.at = "idle"
EntriesOf(id) == {e \in journal : e.row = id}
Read1(id) == rows[id].live /\ id \notin explained /\ verdict[id] = ""
Sum(f(_), S) == MapThenSumSet(f, S)

(* After a rebuild that ended well the money the broker reported stands in   *)
(* the journal once: payments, commissions said on the trade or apart, both  *)
(* legs of exchanges, whatever the position's currency is (settleBrokerFees, *)
(* restate, projectDividendToCard).                                          *)
Understood == {"", "redemption_nothing_held", "foreign_currency_no_rate", "engine_refused"}
ChargedApart(row) ==
  \/ row.parent = ""
  \/ /\ row.parent \in DOMAIN rows \ explained /\ rows[row.parent].live
     /\ verdict[row.parent] \in Understood /\ rows[row.parent].comm = 0
Exchanged(row) == row.kind = "currency" /\ row.op \in {"BUY", "SELL"}
BrokerCash(id, cur) ==
  LET row == rows[id]
      Paid == IF cur = row.cur THEN Minor(row.pay) ELSE 0
      Commission == IF cur = CommissionCurrency(row) THEN Minor(row.comm) ELSE 0
      Got == IF Exchanged(row) /\ cur = Pairs[row.paper].code
             THEN Pairs[row.paper].nominal * row.done * (IF row.pay > 0 THEN -1 ELSE 1) ELSE 0
  IN CASE row.op \in {"DIV_EXT", "INPUT_SECURITIES", "OUTPUT_SECURITIES", "TRANS_BS_BS"} -> 0
       [] row.op = "BROKER_FEE" -> IF ChargedApart(row) THEN Paid ELSE 0
       [] OTHER -> Paid + Commission + Got
Currencies == {rows[id].cur : id \in DOMAIN rows} \cup {CommissionCurrency(rows[id]) : id \in DOMAIN rows}
              \cup {e.cur : e \in journal}
MoneyMoved(o, cur) == IF o.typ \in Moves \/ o.cur # cur THEN 0 ELSE CashEffect(o)
CashAsTold ==
  AtRest => \A cur \in Currencies :
    LET InJournal(e) == MoneyMoved(e, cur)
        AtBroker(id) == BrokerCash(id, cur)
    IN Sum(InJournal, journal) = Sum(AtBroker, {id \in DOMAIN rows : Read1(id)})

(* What is not read has no entry: neither half of an event the journal took  *)
(* part of, nor what an explanation stands for (apply, EntriesOfRows).       *)
UnreadHasNone ==
  AtRest => \A id \in DOMAIN rows : ~Read1(id) => EntriesOf(id) = {}

(* The journal is what the mirror means, all but what it was refused: the    *)
(* next rebuild finds nothing to do.                                         *)
Agrees ==
  AtRest => LET want == ToSet(Projected.want)
            IN /\ \A e \in journal : \E d \in want : d.name = e.name /\ SameJournalRow(d, e)
               /\ \A d \in want : Stands(d) \/ verdict[d.row] = "engine_refused"

(* A move is two legs of two accounts or a lone leg, never half a pair, and  *)
(* only moves the broker says are between own accounts pair (pairTransfers). *)
PairsWhole ==
  \A e \in journal : e.group # {} =>
    /\ AtRest => PairableLeg(rows[e.row])
    /\ \E f \in journal : /\ f.group = e.group /\ f.acct # e.acct /\ f.typ # e.typ
                          /\ f.qty = e.qty /\ f.paper = e.paper

(* A full redemption leaves nothing of a paper of which every entry stood.   *)
(* (closeRedemptions)                                                        *)
Closed(e) == MapThenSumSet(unitsMoved, UpTo(journal, e)) = 0
CountedAway(e) == e.typ = "redemption" /\ rows[e.row].qty = 0 /\ rows[e.row].kind = "bond"
OfPaper(e) == {id \in DOMAIN rows : rows[id].link = e.link /\ rows[id].paper = e.paper}
RedemptionCloses ==
  AtRest => \A e \in journal :
    CountedAway(e) /\ (\A id \in OfPaper(e) : verdict[id] # "engine_refused") => Closed(e)

(* The units of a fund moved as often as the broker says: those that left    *)
(* left once, with their payout or alone (pairFundRedemptions).              *)
Fund(id) == rows[id].kind = "etf"
BrokerUnits(id) ==
  LET row == rows[id]
  IN CASE row.op = "INPUT_SECURITIES" -> TransferQuantity(row)
       [] row.op = "OUTPUT_SECURITIES" -> -TransferQuantity(row)
       [] row.op = "TRANS_BS_BS" -> IF row.qty < 0 THEN -TransferQuantity(row) ELSE TransferQuantity(row)
       [] OTHER -> 0
UnitsAsTold ==
  AtRest /\ (\A id \in DOMAIN rows : Fund(id) /\ rows[id].op = "BOND_REPAYMENT_FULL" => Read1(id)) =>
    Sum(unitsMoved, {e \in journal : Fund(e.row)})
      = Sum(BrokerUnits, {id \in DOMAIN rows : Fund(id) /\ Read1(id)})

(* A purchase the owner stated stands while it adds up to what the broker    *)
(* reports, and goes when it does not (applyStatedPurchases).                *)
StatedStands ==
  AtRest => \A e \in journal :
    e.typ = "transfer_in" /\ e.group = {} /\ e.name \in DOMAIN stated =>
      (stated[e.name].qty = e.qty) = (e.stated /\ e.amount = stated[e.name].cost)

(* projection.go: nothing is dropped silently. *)
FeeOfTrade(id) == rows[id].op = "BROKER_FEE" /\ rows[id].parent # ""
UnitsOfPayout(id) ==
  /\ rows[id].op = "OUTPUT_SECURITIES"
  /\ \E pay \in DOMAIN rows :
       /\ rows[pay].op = "BOND_REPAYMENT_FULL" /\ rows[pay].paper = rows[id].paper
       /\ verdict[pay] # "" \/ \E e \in EntriesOf(pay) : e.qty = TransferQuantity(rows[id])
NothingSilent ==
  AtRest => \A id \in DOMAIN rows :
    Read1(id) => EntriesOf(id) # {} \/ FeeOfTrade(id) \/ UnitsOfPayout(id)

(* At rest the journal and the verdicts are in step with the mirror; a move  *)
(* is whole and costs what the owner said; a fund's units leave once, and no *)
(* row without a word.                                                       *)
InStep == TypeOK /\ UnreadHasNone /\ Agrees
MovesWhole == PairsWhole /\ StatedStands
FundsAsTold == UnitsAsTold /\ NothingSilent
=============================================================================
