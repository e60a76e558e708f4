----------------------------- MODULE MCRebuild -----------------------------
(* Instances of Rebuild. Money of rows is in tenths of a minor unit. *)
EXTENDS Rebuild

Row == [id |-> "", op |-> "BUY", link |-> "L1", at |-> 12, live |-> TRUE, paper |-> "", kind |-> "",
        pay |-> 0, qty |-> 0, done |-> 0, price |-> 0, comm |-> 0, commcur |-> "", cur |-> "rub",
        parent |-> "", said |-> NotSaid]
Buy == [Row EXCEPT !.op = "BUY", !.paper = "bond", !.kind = "bond", !.pay = -300, !.qty = 5,
                   !.done = 3, !.comm = -20]
Sell == [Buy EXCEPT !.op = "SELL", !.at = 36, !.pay = 250, !.done = 2, !.comm = -10, !.commcur = "usd"]
Fee == [Row EXCEPT !.op = "BROKER_FEE", !.pay = -20, !.paper = "bond", !.kind = "bond"]
Repaid == [Row EXCEPT !.op = "BOND_REPAYMENT_FULL", !.at = 60, !.paper = "bond", !.kind = "bond",
                      !.pay = 400]
ToCard == [Row EXCEPT !.op = "DIV_EXT", !.at = 48, !.paper = "bond", !.kind = "bond", !.pay = 50]
Lone == [Buy EXCEPT !.comm = 0]

In == [Row EXCEPT !.op = "INPUT_SECURITIES", !.paper = "fund", !.kind = "etf", !.qty = 2]
Out == [Row EXCEPT !.op = "OUTPUT_SECURITIES", !.at = 20, !.paper = "fund", !.kind = "etf", !.qty = -2,
                   !.link = "L2"]
Move == [Row EXCEPT !.op = "TRANS_BS_BS", !.at = 22, !.paper = "fund", !.kind = "etf", !.qty = -2]
Paid == [Row EXCEPT !.op = "BOND_REPAYMENT_FULL", !.at = 60, !.paper = "fund", !.kind = "etf",
                    !.pay = 500]

Dollars == [Row EXCEPT !.op = "BUY", !.paper = "usd", !.kind = "currency", !.pay = -200, !.done = 2,
                       !.price = 10, !.cur = "rub", !.comm = -10]

Gone(row) == [row EXCEPT !.live = FALSE]
Pool(set) ==
  CASE set = "trades" ->
         [a |-> {Buy, [Buy EXCEPT !.comm = 0], Gone(Buy)}, f |-> {[Fee EXCEPT !.parent = "a"], Fee},
          s |-> {Sell}, t |-> {ToCard, [ToCard EXCEPT !.pay = -50]}]
    [] set = "repaid" ->
         [a |-> {Buy, Gone(Buy)}, s |-> {[Sell EXCEPT !.commcur = ""], [Sell EXCEPT !.done = 9, !.pay = 255]},
          b |-> {[In EXCEPT !.paper = "bond", !.kind = "bond"]},
          r |-> {Repaid}, f |-> {[Fee EXCEPT !.parent = "r"]}]
    [] set = "moves" ->
         [i |-> {In, [In EXCEPT !.said = 25]},
          o |-> {Move, [Move EXCEPT !.said = 25]},
          p |-> {[Move EXCEPT !.link = "L2", !.at = 23, !.qty = 2], [Out EXCEPT !.at = 23],
                [In EXCEPT !.link = "L2", !.at = 23]}]
    [] set = "fund" ->
         [i |-> {In, [In EXCEPT !.qty = 1]}, o |-> {[Out EXCEPT !.link = "L1"]}, q |-> {[Out EXCEPT !.link = "L1", !.at = 21, !.qty = -1]},
          p |-> {Paid, [Paid EXCEPT !.comm = -10], [Paid EXCEPT !.pay = 505]},
          r |-> {[Paid EXCEPT !.at = 61]}]
    [] set = "money" ->
         [a |-> {[Buy EXCEPT !.comm = 0, !.paper = "yuan", !.cur = "cny", !.pay = -100]},
          b |-> {[Buy EXCEPT !.paper = "yuan", !.at = 36], [Buy EXCEPT !.paper = "yuan", !.at = 36, !.comm = 10]},
          d |-> {Dollars, [Dollars EXCEPT !.pay = -205], [Dollars EXCEPT !.price = 30]},
          f |-> {[Fee EXCEPT !.paper = "usd", !.kind = "currency", !.parent = "d"]},
          m |-> {[Row EXCEPT !.op = "BOND_REPAYMENT", !.at = 60, !.paper = "yuan", !.kind = "bond", !.pay = 90]}]
    [] OTHER -> [a |-> {[Buy EXCEPT !.commcur = "usd"]}, f |-> {[Fee EXCEPT !.parent = "a", !.cur = "usd"]}]

MCPapers == [bond |-> [id |-> "bond", kind |-> "bond", cur |-> "rub"],
             yuan |-> [id |-> "yuan", kind |-> "bond", cur |-> "cny"],
             fund |-> [id |-> "fund", kind |-> "etf", cur |-> "rub"]]
MCPairs == [usd |-> [code |-> "usd", nominal |-> 1]]
Listed == DOMAIN MCPapers \cup DOMAIN MCPairs
Instance(set, learnt, settleDays, explainable, maxChanges, maxStops) ==
  set :> [versions    |-> [id \in DOMAIN Pool(set) |-> {[v EXCEPT !.id = id] : v \in Pool(set)[id]}],
          known       |-> learnt,
          settleDays  |-> settleDays,
          explainable |-> explainable,
          maxChanges  |-> maxChanges,
          maxStops    |-> maxStops]

MCWorlds == Instance("trades", {{}, Listed}, {1}, {"a"}, 3, 1) @@ Instance("repaid", {Listed}, {}, {"a"}, 4, 0)
            @@ Instance("moves", {Listed}, {}, {"i"}, 4, 0) @@ Instance("fund", {Listed}, {}, {}, 4, 0)
            @@ Instance("money", {{}, Listed}, {}, {}, 4, 0)
TwiceWorld == Instance("twice", {Listed}, {}, {}, 4, 0)
Ids == <<"a", "b", "d", "f", "i", "m", "o", "p", "q", "r", "s", "t">>
MCRank == [id \in ToSet(Ids) |-> CHOOSE n \in DOMAIN Ids : Ids[n] = id]
MCCrossRate == (<<"rub", "cny">> :> 2)
MCFaces == [bond |-> 100, yuan |-> 100, fund |-> 0]
=============================================================================
