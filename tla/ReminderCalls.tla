---------------------------- MODULE ReminderCalls ----------------------------
(* What the facts of a family call for on a day (notify/reminders.go and     *)
(* notify/events.go): the reminders, each with the key that names it for     *)
(* good, so that a member has it once. Days are numbers; a key is a tuple    *)
(* where the code joins its parts in a string; "about" and "sum" stand for   *)
(* the text.                                                                 *)
EXTENDS Integers, Sequences, FiniteSets

CONSTANTS soonDays, storageDays, failingDays, arrivedDays,
          DaysInMonth

ASSUME CallsAssumption ==
  /\ {soonDays, storageDays, failingDays, arrivedDays} \subseteq Nat
  /\ DaysInMonth \in Nat \ {0}

Everyone == "everyone"
Never == -1
NoDue == [on |-> Never, amount |-> 0]
Month(d) == d \div DaysInMonth
Reminder(kind, key, owner, about, sum) ==
  [kind |-> kind, key |-> <<kind>> \o key, owner |-> owner, about |-> about, sum |-> sum]

-----------------------------------------------------------------------------
(* What the bank itself said is due stands over the card's reckoning. *)
GraceOf(c) == IF c.bankGrace # NoDue THEN c.bankGrace ELSE c.grace
MinimumOf(c) == IF c.bankMinimum # NoDue THEN c.bankMinimum ELSE c.minimum
(* Wrong: a minimum of the same day is taken to be in the grace's sum. *)
CoveredByDay(g, m) == g.amount > 0 /\ g.on = m.on
coveredByGrace(g, m) == g.amount > 0 /\ g.on = m.on /\ g.amount >= m.amount

DuePushes(what, due, owner, today) ==
  {Reminder("card", <<what, due.on, when>>, owner, due.on, due.amount) :
     when \in {w \in {"today", "soon"} : IF w = "today" THEN due.on = today
                                          ELSE due.on - today \in 1..soonDays}}

CardReminders(c, today) ==
  LET grace == GraceOf(c)
      minimum == MinimumOf(c)
  IN  (IF c.overdue > 0 /\ ~c.missed
       THEN {Reminder("card", <<"overdue", c.statement>>, c.owner, c.statement, c.overdue)} ELSE {})
      \cup (IF c.missed /\ c.minimum.amount > 0
            THEN {Reminder("card", <<"min-missed", c.minimum.on>>, c.owner, c.minimum.on, c.minimum.amount)} ELSE {})
      \cup {Reminder("card", <<"lost", l.from>>, c.owner, l.from, l.amount) : l \in {x \in c.lost : ~x.early}}
      \cup (IF c.graceOff # Never /\ c.toRestore > 0
            THEN {Reminder("card", <<"grace-off", c.graceOff>>, c.owner, c.graceOff, c.toRestore)} ELSE {})
      \cup (IF grace.amount > 0 THEN DuePushes("grace", grace, c.owner, today) ELSE {})
      \cup (IF minimum.amount > 0 /\ ~c.missed /\ ~coveredByGrace(grace, minimum)
            THEN DuePushes("min", minimum, c.owner, today) ELSE {})

(* A category nine tenths through its limit, and one past it, once a month. *)
BudgetReminders(b, today) ==
  IF b.planned <= 0 /\ b.spent = 0 THEN {}
  ELSE IF b.spent > b.planned THEN {Reminder("budget", <<Month(today), "over">>, Everyone, b.planned, b.spent)}
  ELSE IF 10 * b.spent >= 9 * b.planned
       THEN {Reminder("budget", <<Month(today), "near">>, Everyone, b.planned, b.spent)}
  ELSE {}

(* The end of a safe box's rent or a custody's contract. *)
StorageReminders(s, today) ==
  IF s.until = Never \/ s.until - today > storageDays THEN {}
  ELSE {Reminder("storage", <<s.until, IF s.until < today THEN "over" ELSE "soon">>, s.owner, s.until, 0)}

RiskPeriod(today) == Month(today)
GoalReminders(g, today) ==
  IF g.on = today THEN {Reminder("goal", <<"due", g.on>>, Everyone, g.on, IF g.status = "done" THEN 1 ELSE 0)}
  ELSE IF g.on > today /\ g.status = "at risk"
       THEN {Reminder("goal", <<"risk", RiskPeriod(today)>>, Everyone, g.on, 0)}
  ELSE {}

(* A token the broker refused; runs failing since the last that went         *)
(* through, for failingDays whole days before this one began.                *)
FailingForDays(s, today) == today - s.lastOK > failingDays
SyncReminders(s, today) ==
  IF s.revoked THEN {Reminder("sync", <<"revoked", s.since>>, Everyone, s.since, 0)}
  ELSE IF s.failing /\ s.lastOK # Never /\ FailingForDays(s, today)
       THEN {Reminder("sync", <<"failing", s.lastOK>>, Everyone, s.lastOK, 0)}
  ELSE {}
ReconcileReminders(m) ==
  IF m.run = Never THEN {} ELSE {Reminder("reconcile", <<m.run>>, m.owner, m.run, 0)}
StaleReminders(s) ==
  IF s.stale THEN {Reminder("stale", <<s.lastOK>>, Everyone, s.lastOK, 0)} ELSE {}

(* The payouts of each of the last days, one push a day for each member they *)
(* are for.                                                                  *)
PayoutReminders(list, today) ==
  LET recent == {a \in list : today - a.on \in 0..arrivedDays /\ a.got > 0}
  IN  {Reminder("payout", <<a.on, a.owner>>, a.owner, {b.id : b \in {b \in recent : b.on = a.on /\ b.owner = a.owner}}, 0) :
         a \in recent}
(* A dividend whose record day is ahead: for the one member all the accounts *)
(* that hold the paper are of, or for everyone.                              *)
declaredFor(owners) == IF Cardinality(owners) = 1 THEN CHOOSE o \in owners : TRUE ELSE Everyone
DeclaredReminders(d, today) ==
  IF d.recordOn = Never \/ d.recordOn < today \/ d.owners = {} THEN {}
  ELSE {Reminder("declared", <<d.recordOn>>, declaredFor(d.owners), d.recordOn, 0)}
(* A card's period whose categories are not picked. *)
LoyaltyReminders(p) ==
  IF p.from = Never THEN {} ELSE {Reminder("loyalty", <<p.from>>, p.owner, p.from, 0)}

(* remindersWorker.Work: all of them; a failure of the goals or of the       *)
(* events' sources leaves theirs out.                                        *)
Own(f, today) == CardReminders(f.card, today) \cup BudgetReminders(f.budget, today)
                   \cup StorageReminders(f.storage, today)
Goals(f, today) == GoalReminders(f.goal, today)
Events(f, today) ==
  SyncReminders(f.sync, today) \cup ReconcileReminders(f.mismatch) \cup StaleReminders(f.source)
    \cup PayoutReminders(f.payouts, today) \cup DeclaredReminders(f.declared, today)
    \cup LoyaltyReminders(f.picks)
Called(f, today, failing) ==
  Own(f, today) \cup (IF "goals" \in failing THEN {} ELSE Goals(f, today))
                \cup (IF "events" \in failing THEN {} ELSE Events(f, today))
=============================================================================
