------------------------------ MODULE MCNotices ------------------------------
(* Small families for TLC, and the two ways a notice goes out: the devices   *)
(* of the members and the chats of the space's bot. The two jobs share no    *)
(* state, so in each world one of them moves and the other stands where it   *)
(* began; they are checked side by side.                                     *)
EXTENDS Telegram, ReminderCalls

CONSTANTS Hours, Worlds
VARIABLES world, hour, ran, facts, devices, gone, prefs, pushed, job, heard, morning,
          changes, moves, pushFaults

Devices == INSTANCE Reminders WITH now <- hour, sent <- pushed, faults <- pushFaults
bots == vars
pushes == <<world, hour, ran, facts, devices, gone, prefs, pushed, job, heard, morning,
            changes, moves, pushFaults>>

One == {"u1"}
Two == {"u1", "u2"}
Nothing == [card |-> [owner |-> Everyone, overdue |-> 0, missed |-> FALSE, statement |-> 0, minimum |-> NoDue,
                      lost |-> {}, graceOff |-> Never, toRestore |-> 0, grace |-> NoDue,
                      bankGrace |-> NoDue, bankMinimum |-> NoDue],
            budget |-> [planned |-> 0, spent |-> 0], storage |-> [owner |-> Everyone, until |-> Never],
            goal |-> [on |-> Never, status |-> "on track"],
            sync |-> [revoked |-> FALSE, since |-> Never, lastOK |-> Never, failing |-> FALSE],
            mismatch |-> [owner |-> Everyone, run |-> Never], source |-> [stale |-> FALSE, lastOK |-> Never],
            payouts |-> {}, declared |-> [recordOn |-> Never, owners |-> {}],
            picks |-> [owner |-> Everyone, from |-> Never]]
Dues(days, sums) == [on : days, amount : sums]
(* A rent that ends on the second day, and one member's card with a minimum missed. *)
TwoMembers == {[Nothing EXCEPT !.storage.until = 1, !.card.owner = u, !.card.missed = TRUE,
                               !.card.minimum = [on |-> 0, amount |-> 1]] : u \in Two}
(* Cards with a grace and a minimum, reckoned or said by the bank. *)
Cards == {[Nothing EXCEPT !.card.grace = g, !.card.minimum = m, !.card.bankGrace = bg, !.card.bankMinimum = bm] :
            g \in Dues({2, 3}, {0, 2}), m \in Dues({3}, {1, 2}),
            bg \in {NoDue} \cup Dues({3}, {1}), bm \in {NoDue} \cup Dues({2}, {1, 2})}
(* Everything at once, and none of it changing by hand. *)
Busy == {[Nothing EXCEPT !.budget = [planned |-> 10, spent |-> n], !.storage.until = 3,
                         !.goal = [on |-> 5, status |-> "at risk"], !.mismatch.run = 1,
                         !.sync = [revoked |-> r, since |-> 0, lastOK |-> 0, failing |-> TRUE],
                         !.source = [stale |-> TRUE, lastOK |-> 0], !.picks.from = 2,
                         !.declared = [recordOn |-> 4, owners |-> o], !.card.overdue = 1, !.card.graceOff = 1,
                         !.card.toRestore = 2, !.card.grace = [on |-> 2, amount |-> 1],
                         !.payouts = {[id |-> 0, on |-> 0, owner |-> Everyone, got |-> 1]}] :
           <<n, r>> \in {<<9, TRUE>>, <<11, FALSE>>}, o \in {One, Two}}
(* A goal, a rent and a broker, on whatever day. *)
Dated == {[Nothing EXCEPT !.storage.until = u, !.goal = [on |-> g, status |-> "at risk"], !.sync.lastOK = 0,
                          !.sync.failing = TRUE] : u \in {2, 4}, g \in {1, 4}}
EveningOrNone == {<<1, 0>>, <<0, 0>>}
MCWorlds ==
  [sent  |-> [members |-> Two, devices |-> {"d1", "d2"}, starts |-> TwoMembers, hours |-> 2, quiets |-> EveningOrNone,
              changing |-> {}, changes |-> 0, moves |-> 1, faults |-> 1],
   busy  |-> [members |-> One, devices |-> {"d1"}, starts |-> Busy, hours |-> 12, quiets |-> EveningOrNone,
              changing |-> {}, changes |-> 0, moves |-> 0, faults |-> 1],
   cards |-> [members |-> One, devices |-> {"d1"}, starts |-> Cards, hours |-> 9, quiets |-> EveningOrNone,
              changing |-> {"card"}, changes |-> 2, moves |-> 0, faults |-> 0],
   dated |-> [members |-> One, devices |-> {"d1"}, starts |-> Dated, hours |-> 11, quiets |-> EveningOrNone,
              changing |-> {"sync", "goal", "storage"}, changes |-> 2, moves |-> 0, faults |-> 0],
   mixed |-> [members |-> One, devices |-> {"d1"}, starts |-> {Nothing}, hours |-> 5, quiets |-> EveningOrNone,
              changing |-> {"budget", "loyalty", "reconcile", "stale", "declared", "payout"},
              changes |-> 2, moves |-> 0, faults |-> 0],
   bot   |-> [members |-> {"u1"}, devices |-> {"d1"}, starts |-> {Nothing}, hours |-> 0, quiets |-> {<<0, 0>>},
              changing |-> {}, changes |-> 0, moves |-> 0, faults |-> 0]]

BothInit == Init /\ Devices!Init
BothNext == IF world = "bot" THEN Next /\ UNCHANGED pushes ELSE Devices!Next /\ UNCHANGED bots
BotMoves == world = "bot" /\ UNCHANGED pushes
BothSpec == /\ BothInit /\ [][BothNext]_<<bots, pushes>>
            /\ WF_<<bots, pushes>>(BotMoves /\ Reads) /\ WF_<<bots, pushes>>(BotMoves /\ Delivers)
-----------------------------------------------------------------------------
(* What the devices' job keeps in every world, as Reminders states it: a     *)
(* member hears of what is called for, once, in time and not at night.       *)
HeardRight == Devices!HeardRight
HeardInTime == [][Devices!OnTime]_pushes
=============================================================================
