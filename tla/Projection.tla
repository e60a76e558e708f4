---------------------------- MODULE Projection ----------------------------
(* What one row of the mirror means (importer/tinvest/projection.go): the    *)
(* journal's entries, a piece the rebuild still owes the first of them, or   *)
(* the reason why it means none.                                             *)
(*                                                                           *)
(* A row is [id, op, link, at, live, paper, kind, pay, qty, done, price,     *)
(* comm, commcur, cur, parent, said]: hours since some midnight UTC, money   *)
(* in tenths of a minor unit (0 where the broker named no commission), units *)
(* whole; said is the fraction the description names, in tenths of a unit,   *)
(* or NotSaid. Journal quantities are tenths of a unit, amounts minor units. *)
EXTENDS Integers, Sequences, SequencesExt

CONSTANTS MaxAmountMinor

ASSUME ProjectionAssumption == MaxAmountMinor \in Nat

NotSaid == -1
NoPaper == [id |-> "", kind |-> "", cur |-> ""]
NotTraded == [code |-> "", nominal |-> 0]
Digits == 10   \* of money below a minor unit, and of units: one place of each

(* brokerOpTypes: each shape once with each type it makes. *)
brokerOpTypes ==
  LET Rule(how, journal) == [how |-> how, journal |-> journal]
  IN [BUY             |-> Rule("trade", "buy"),        SELL       |-> Rule("trade", "sell"),
      INPUT           |-> Rule("cash", "deposit"),     OUTPUT     |-> Rule("cash", "withdrawal"),
      DIVIDEND        |-> Rule("cash", "dividend"),    COUPON     |-> Rule("cash", "coupon"),
      DIV_EXT         |-> Rule("toCard", "dividend"),  TAX        |-> Rule("cash", "tax"),
      BOND_REPAYMENT  |-> Rule("amortization", "amortization"),
      BOND_REPAYMENT_FULL |-> Rule("redemption", "redemption"),
      SERVICE_FEE     |-> Rule("cash", "fee"),         BROKER_FEE |-> Rule("brokerFee", "fee"),
      OVERNIGHT       |-> Rule("cash", "interest"),
      INPUT_SECURITIES  |-> Rule("fromAnotherBroker", "transfer_in"),
      OUTPUT_SECURITIES |-> Rule("toAnotherBroker", "transfer_out"),
      TRANS_BS_BS       |-> Rule("betweenOwnAccounts", "transfer_in")]

Known(op) == op \in DOMAIN brokerOpTypes
PairableLeg(row) == Known(row.op) /\ brokerOpTypes[row.op].how = "betweenOwnAccounts"
SupportedKinds == {"share", "bond", "etf"}
RequiresPaper == {"buy", "sell", "redemption", "dividend", "coupon", "amortization",
                  "transfer_in", "transfer_out"}
acceptsInstrument == RequiresPaper \cup {"tax", "fee", "conversion"}

Abs(x) == IF x < 0 THEN -x ELSE x
FirstOf(reasons) == LET named == SelectSeq(reasons, LAMBDA r : r # "")
                    IN  IF named = <<>> THEN "" ELSE named[1]
(* mskDay: the broker's calendar is Moscow's, three hours ahead. *)
mskDay(at) == (at + 3) \div 24
-----------------------------------------------------------------------------
(* minorFromDecimal: money is not rounded and has a bound. *)
MoneyRefusal(sum) ==
  IF sum % Digits # 0 THEN "unrepresentable_amount"
  ELSE IF Abs(sum) > Digits * MaxAmountMinor THEN "amount_out_of_bounds" ELSE ""
Minor(sum) == sum \div Digits

(* base *)
Base(row, typ) ==
  [typ |-> typ, acct |-> row.link, day |-> mskDay(row.at), cur |-> row.cur, paper |-> "",
   qty |-> 0, amount |-> 0, fee |-> 0, face |-> 0, settled |-> 0, stated |-> FALSE, group |-> {}]

(* instrumentRefusal *)
InstrumentRefusal(row) ==
  IF row.kind \in SupportedKinds THEN "instrument_unresolved" ELSE "unsupported_type"
(* attachInstrument: why not, and the entry with its paper. *)
AttachRefusal(typ, row, resolved) ==
  IF /\ typ \in acceptsInstrument /\ resolved = NoPaper
     /\ typ \in RequiresPaper \/ row.paper # ""
  THEN InstrumentRefusal(row) ELSE ""
Attach(op, resolved) ==
  [op EXCEPT !.paper = IF op.typ \in acceptsInstrument THEN resolved.id ELSE ""]

(* tradeCommission: on the entry in its own currency, an entry of its own in *)
(* another; money that comes back is refused.                                *)
CommissionRefusal(row) ==
  FirstOf(<<MoneyRefusal(row.comm), IF row.comm > 0 THEN "commission_refund" ELSE "">>)
CommissionCurrency(row) == IF row.commcur = "" THEN row.cur ELSE row.commcur
FeeMinor(row) == IF CommissionCurrency(row) = row.cur THEN -Minor(row.comm) ELSE 0
FeeLeg(row) ==
  IF row.comm = 0 \/ CommissionCurrency(row) = row.cur THEN <<>>
  ELSE <<[Base(row, "fee") EXCEPT !.cur = CommissionCurrency(row), !.amount = Minor(row.comm)]>>

Refuses(why) == [ops |-> <<>>, owed |-> "", why |-> why]
Makes(why, ops, owed) == IF why # "" THEN Refuses(why) ELSE [ops |-> ops, owed |-> owed, why |-> ""]
-----------------------------------------------------------------------------
(* projectTrade *)
projectTrade(row, resolved, typ) ==
  Makes(FirstOf(<<MoneyRefusal(row.pay),
                  IF row.done <= 0 THEN "trade_without_filled_quantity" ELSE "",
                  AttachRefusal(typ, row, resolved), CommissionRefusal(row)>>),
        <<Attach([Base(row, typ) EXCEPT !.amount = Minor(row.pay), !.qty = Digits * row.done,
                                        !.fee = FeeMinor(row)], resolved)>> \o FeeLeg(row), "")

(* checkMoneyDividesByUnits: up to one minor unit of rounding. *)
MoneyDividesByUnits(row) ==
  row.price > 0 => Abs(row.done * row.price - Abs(Minor(row.pay))) <= 1
(* projectCurrencyTrade: the money paid and the money received. *)
projectCurrencyTrade(row, traded) ==
  LET units == row.done * traded.nominal
      paid == [Base(row, "conversion") EXCEPT !.amount = Minor(row.pay), !.fee = FeeMinor(row)]
      received == [Base(row, "conversion") EXCEPT !.cur = traded.code,
                                                  !.amount = IF row.pay > 0 THEN -units ELSE units]
  IN Makes(FirstOf(<<IF row.done <= 0 THEN "trade_without_filled_quantity" ELSE "",
                     IF traded = NotTraded THEN "currency_trade" ELSE "",
                     MoneyRefusal(row.pay),
                     IF ~MoneyDividesByUnits(row) THEN "currency_trade" ELSE "",
                     MoneyRefusal(Digits * units), CommissionRefusal(row)>>),
           <<paid, received>> \o FeeLeg(row), "")

(* projectCash *)
projectCash(row, resolved, typ) ==
  Makes(FirstOf(<<MoneyRefusal(row.pay), AttachRefusal(typ, row, resolved)>>),
        <<Attach([Base(row, typ) EXCEPT !.amount = Minor(row.pay)], resolved)>>, "")

(* projectBrokerFee: no paper, whatever the row names. *)
projectBrokerFee(row) ==
  Makes(MoneyRefusal(row.pay), <<[Base(row, "fee") EXCEPT !.amount = Minor(row.pay)]>>, "feeVerdict")

(* refuseFundPayout *)
FundPayoutRefusal(resolved) ==
  IF resolved = NoPaper \/ resolved.kind = "bond" THEN "" ELSE "fund_payout_units_unknown"
(* projectAmortization *)
projectAmortization(row, resolved) ==
  Makes(FirstOf(<<FundPayoutRefusal(resolved), MoneyRefusal(row.pay),
                  AttachRefusal("amortization", row, resolved)>>),
        <<Attach([Base(row, "amortization") EXCEPT !.amount = Minor(row.pay)], resolved)>>, "")
(* projectRedemption: the broker seldom says how many. *)
projectRedemption(row, resolved) ==
  Makes(FirstOf(<<FundPayoutRefusal(resolved), MoneyRefusal(row.pay),
                  AttachRefusal("redemption", row, resolved), CommissionRefusal(row)>>),
        <<Attach([Base(row, "redemption") EXCEPT !.amount = Minor(row.pay), !.fee = FeeMinor(row),
                    !.qty = IF row.qty > 0 THEN Digits * row.qty ELSE 0], resolved)>> \o FeeLeg(row),
        IF row.qty > 0 THEN "" ELSE "redeemedQuantity")

(* projectDividendToCard: the money came and left. *)
projectDividendToCard(row, resolved) ==
  Makes(FirstOf(<<MoneyRefusal(row.pay), AttachRefusal("dividend", row, resolved)>>),
        <<Attach([Base(row, "dividend") EXCEPT !.amount = Minor(row.pay)], resolved),
          [Base(row, "withdrawal") EXCEPT !.amount = -Minor(row.pay)]>>, "")

(* transferQuantity: a fraction the description names must agree with the    *)
(* broker's whole field.                                                     *)
TransferRefusal(row) ==
  IF row.said # NotSaid
  THEN IF row.said \div Digits # Abs(row.qty) THEN "transfer_quantity_contradicted"
       ELSE IF row.said = 0 THEN "unrepresentable_quantity" ELSE ""
  ELSE IF row.qty = 0 THEN "transfer_without_quantity" ELSE ""
TransferQuantity(row) == IF row.said # NotSaid THEN row.said ELSE Digits * Abs(row.qty)
(* projectSecuritiesTransfer: which way by the kind, or by the sign. *)
projectSecuritiesTransfer(row, resolved, how) ==
  LET typ == IF how = "toAnotherBroker" \/ (how = "betweenOwnAccounts" /\ row.qty < 0)
             THEN "transfer_out" ELSE "transfer_in"
      priced == [Base(row, typ) EXCEPT !.qty = TransferQuantity(row),
                   !.cur = IF resolved = NoPaper THEN row.cur ELSE resolved.cur]
  IN Makes(FirstOf(<<IF how = "betweenOwnAccounts" /\ row.qty = 0
                     THEN "transfer_direction_unknown" ELSE "",
                     TransferRefusal(row), AttachRefusal(typ, row, resolved)>>),
           <<Attach(priced, resolved)>>, "")
-----------------------------------------------------------------------------
(* ProjectRow *)
ProjectRow(row, resolved, traded) ==
  LET rule == brokerOpTypes[row.op]
  IN IF ~row.live THEN Makes("", <<>>, "")
     ELSE IF ~Known(row.op) THEN Refuses("unsupported_type")
     ELSE CASE rule.how = "trade" /\ row.kind = "currency" -> projectCurrencyTrade(row, traded)
            [] rule.how = "trade" /\ row.kind # "currency" -> projectTrade(row, resolved, rule.journal)
            [] rule.how = "cash"         -> projectCash(row, resolved, rule.journal)
            [] rule.how = "amortization" -> projectAmortization(row, resolved)
            [] rule.how = "redemption"   -> projectRedemption(row, resolved)
            [] rule.how = "toCard"       -> projectDividendToCard(row, resolved)
            [] rule.how = "brokerFee"    -> projectBrokerFee(row)
            [] OTHER -> projectSecuritiesTransfer(row, resolved, rule.how)

(* projectFundRedemption: a fund's payout and the units it was paid for. *)
projectFundRedemption(payout, withdrawal, resolved) ==
  Makes(FirstOf(<<TransferRefusal(withdrawal), MoneyRefusal(payout.pay),
                  AttachRefusal("redemption", payout, resolved), CommissionRefusal(payout)>>),
        <<Attach([Base(payout, "redemption") EXCEPT !.amount = Minor(payout.pay),
                    !.qty = TransferQuantity(withdrawal), !.fee = FeeMinor(payout)], resolved)>>
        \o FeeLeg(payout), "")
=============================================================================
