------------------------------ MODULE Reminders ------------------------------
(* The hourly job of reminders (notify/worker.go): what the facts call for   *)
(* is sent to the devices of the members it is for, outside their quiet      *)
(* hours, and noted. The facts change under it, members come and go with     *)
(* their devices and change their minds, devices are gone, push services     *)
(* fail and so do the job's own statements.                                  *)
EXTENDS ReminderCalls, Functions, FiniteSetsExt, TLC

CONSTANTS Hours,           \* hours of a day
          Worlds           \* name -> a family and what may happen to it

VARIABLES world,           \* chosen once
          now, ran,        \* the hour, and whether its job is done with
          facts,
          devices,         \* device -> its member (push_subscriptions)
          gone,            \* devices their push service knows no more
          prefs,           \* member -> quiet hours and kinds turned off
          sent,            \* <<member, key>> noted as sent
          job,
          heard,           \* <<member, reminder>> -> times a device of theirs got it
          morning,         \* the facts the day began with
          changes, moves, faults

vars == <<world, now, ran, facts, devices, gone, prefs, sent, job, heard, morning, changes, moves, faults>>
Family == Worlds[world].members
Devices == Worlds[world].devices
Starts == Worlds[world].starts         \* facts to begin with
MaxNow == Worlds[world].hours          \* hours altogether
Quiets == Worlds[world].quiets         \* <<from, to>> members choose from
Changing == Worlds[world].changing     \* kinds of facts that change
MaxChanges == Worlds[world].changes
MaxMoves == Worlds[world].moves        \* devices taken up, left, lost; choices changed
Failures == Worlds[world].faults

clock == <<now, ran>>
people == <<devices, gone, prefs, moves>>
outside == <<facts, morning, changes>>

Today == now \div Hours
Hour == now % Hours
NoReminder == [key |-> <<>>]
Idle == [at |-> "idle", todo |-> {}, prefs |-> <<>>, subs |-> <<>>, forgotten |-> {},
         user |-> "nobody", reminder |-> NoReminder, left |-> {}, delivered |-> FALSE]
Without(f, S) == [x \in DOMAIN f \ S |-> f[x]]
(* The kinds, in the order Work puts them together. *)
Order == <<"card", "budget", "storage", "goal", "sync", "reconcile", "stale", "payout", "declared", "loyalty">>
Kinds == Range(Order)
Rank(kind) == CHOOSE i \in DOMAIN Order : Order[i] = kind

Init == /\ world \in DOMAIN Worlds /\ now = 0 /\ ran = FALSE /\ facts \in Starts
        /\ devices \in [Devices -> Family] /\ gone = {}
        /\ prefs \in [Family -> [quiet : Quiets, off : {{}}]]
        /\ sent = {} /\ job = Idle /\ heard = <<>> /\ morning = facts /\ changes = 0 /\ moves = 0 /\ faults = 0

-----------------------------------------------------------------------------
(* A night passes: what was due that day and not paid is missed or lost. *)
CardOvernight(c) ==
  [c EXCEPT !.missed = @ \/ (c.minimum.on = Today /\ c.minimum.amount > 0),
            !.lost = IF c.grace.on = Today /\ c.grace.amount > 0
                     THEN @ \cup {[from |-> Today, early |-> FALSE, amount |-> c.grace.amount]} ELSE @,
            !.grace = IF @.on = Today THEN NoDue ELSE @,
            !.bankGrace = IF @.on = Today THEN NoDue ELSE @,
            !.bankMinimum = IF @.on = Today THEN NoDue ELSE @]
BudgetOvernight(b, tomorrow) == IF Month(tomorrow) = Month(Today) THEN b ELSE [b EXCEPT !.spent = 0]
(* The job of an hour ends within it: it is given ten minutes. *)
Tick == /\ ran /\ now < MaxNow /\ now' = now + 1 /\ ran' = FALSE
        /\ facts' = IF now' \div Hours = Today THEN facts
                    ELSE [facts EXCEPT !.card = CardOvernight(@), !.budget = BudgetOvernight(@, now' \div Hours)]
        /\ morning' = IF now' \div Hours = Today THEN morning ELSE facts'
        /\ UNCHANGED <<world, people, sent, job, heard, changes, faults>>

(* What happens to the family's data: each as its own part of the code keeps *)
(* it.                                                                       *)
Less(due, n) == [due EXCEPT !.amount = IF @ < n THEN 0 ELSE @ - n]
Paid(c, n) == [c EXCEPT !.grace = Less(@, n), !.minimum = Less(@, n),
                        !.bankGrace = Less(@, n), !.bankMinimum = Less(@, n)]
Changed(kind) ==
  CASE kind = "card"    -> {[facts EXCEPT !.card = Paid(@, 1)]}
    [] kind = "budget"  -> {[facts EXCEPT !.budget.spent = @ + 1]}
    [] kind = "storage" -> {[facts EXCEPT !.storage.until = @ + 1]}
    [] kind = "goal"    -> {[facts EXCEPT !.goal.status = s] : s \in {"done", "at risk"}}
    [] kind = "loyalty" -> {[facts EXCEPT !.picks.from = Never]}
    [] kind = "sync"    -> {[facts EXCEPT !.sync.lastOK = Today, !.sync.failing = FALSE],
                            [facts EXCEPT !.sync.failing = TRUE],
                            [facts EXCEPT !.sync.revoked = TRUE, !.sync.since = Today]}
    [] kind = "reconcile" -> {[facts EXCEPT !.mismatch.run = changes]}
    [] kind = "stale"   -> {[facts EXCEPT !.source.stale = TRUE],
                            [facts EXCEPT !.source.stale = FALSE, !.source.lastOK = Today]}
    [] kind = "declared" -> {[facts EXCEPT !.declared.recordOn = Today + 1, !.declared.owners = {u}] : u \in Family}
    [] kind = "payout"  -> {[facts EXCEPT !.payouts = @ \cup {[id |-> Cardinality(@), on |-> d, owner |-> u, got |-> 1]}] :
                              d \in {Today - 1, Today} \cap Nat, u \in {Everyone} \cup Family}
Happens(f) ==
  /\ changes < MaxChanges /\ f # facts
  /\ facts' = f /\ changes' = changes + 1
  /\ UNCHANGED <<world, clock, people, sent, job, heard, morning, faults>>

Moves == moves < MaxMoves /\ moves' = moves + 1 /\ UNCHANGED <<world, clock, outside, sent, job, heard, faults>>
(* One endpoint is one device: it is moved to whoever takes it up. *)
Subscribe(u, d) == /\ Moves /\ d \notin gone /\ devices' = (d :> u) @@ devices /\ UNCHANGED <<world, gone, prefs>>
Unsubscribe(u, d) == /\ Moves /\ d \in DOMAIN devices /\ devices[d] = u
                     /\ devices' = Without(devices, {d}) /\ UNCHANGED <<world, gone, prefs>>
Lost(d) == Moves /\ gone' = gone \cup {d} /\ UNCHANGED <<world, devices, prefs>>
SetPrefs(u, quiet, kind) ==
  Moves /\ prefs' = [prefs EXCEPT ![u] = [quiet |-> quiet, off |-> kind]] /\ UNCHANGED <<world, devices, gone>>

-----------------------------------------------------------------------------
Quiet(p, hour) ==
  CASE p.quiet[1] = p.quiet[2] -> FALSE
    [] p.quiet[1] < p.quiet[2] -> hour >= p.quiet[1] /\ hour < p.quiet[2]
    [] OTHER -> hour >= p.quiet[1] \/ hour < p.quiet[2]
Wants(p, kind) == kind \notin p.off

(* Work: what is called for is reckoned, the devices and their members'      *)
(* choices are read; nothing goes to a member whose hours are quiet.         *)
Start(failing) ==
  LET awake == {d \in DOMAIN devices : ~Quiet(prefs[devices[d]], Hour)}
      users == {devices[d] : d \in awake}
  IN  /\ job = Idle /\ ~ran
      /\ job' = [Idle EXCEPT !.at = "pick", !.prefs = prefs,
                   !.subs = [u \in users |-> {d \in awake : devices[d] = u}],
                   !.todo = Called(facts, Today, failing) \X users]
      /\ UNCHANGED <<world, clock, people, outside, sent, heard>>
Begin == Start({}) /\ UNCHANGED faults
(* The goals' prices or the events' sources fail: the others go on. *)
BeginShort == \E part \in {"goals", "events"} :
                Start({part}) /\ faults < Failures /\ faults' = faults + 1

IsFor(r, u) == r.owner \in {u, Everyone} /\ Wants(job.prefs[u], r.kind)
(* Wrong: a reminder a member had is sent again while it is called for. *)
NeverSent(u, r) == FALSE
Sent(u, r) == <<u, r.key>> \in sent
ToSend(u) == job.subs[u] \ job.forgotten
(* A pair of the two loops: the next device to send to, if any. *)
Pick == \E x \in job.todo :
          /\ job.at = "pick" /\ \A y \in job.todo : Rank(x[1].kind) <= Rank(y[1].kind)
          /\ job' = IF ~IsFor(x[1], x[2]) \/ Sent(x[2], x[1]) THEN [job EXCEPT !.todo = @ \ {x}]
                    ELSE [job EXCEPT !.todo = @ \ {x}, !.at = "send", !.user = x[2], !.reminder = x[1],
                                     !.left = ToSend(x[2]), !.delivered = FALSE]
          /\ UNCHANGED <<world, clock, people, outside, sent, heard, faults>>
Count(f, x) == IF x \in DOMAIN f THEN (x :> f[x] + 1) @@ f ELSE (x :> 1) @@ f
Delivered(d) ==
  /\ job.at = "send" /\ d \in job.left /\ d \notin gone
  /\ heard' = IF job.delivered THEN heard ELSE Count(heard, <<job.user, job.reminder>>)
  /\ job' = [job EXCEPT !.left = @ \ {d}, !.delivered = TRUE]
  /\ UNCHANGED <<world, clock, people, outside, sent, faults>>
NotDelivered(d) ==
  /\ job.at = "send" /\ d \in job.left /\ faults < Failures /\ faults' = faults + 1
  /\ job' = [job EXCEPT !.left = @ \ {d}]
  /\ UNCHANGED <<world, clock, people, outside, sent, heard>>
(* Forget: a device that is gone, whoever it is of by now. *)
Forget(d) ==
  /\ job.at = "send" /\ d \in job.left /\ d \in gone
  /\ devices' = Without(devices, {d})
  /\ job' = [job EXCEPT !.left = @ \ {d}, !.forgotten = @ \cup {d}]
  /\ UNCHANGED <<world, clock, gone, prefs, moves, outside, sent, heard, faults>>
Noted == IF job.delivered THEN sent \cup {<<job.user, job.reminder.key>>} ELSE sent
MarkSent == /\ job.at = "send" /\ job.left = {}
            /\ sent' = Noted /\ job' = [job EXCEPT !.at = "pick"]
            /\ UNCHANGED <<world, clock, people, outside, heard, faults>>
Done == /\ job.at = "pick" /\ job.todo = {}
        /\ job' = Idle /\ ran' = TRUE
        /\ UNCHANGED <<world, now, people, outside, sent, heard, faults>>
(* A statement fails, or the process stops: tried again within the hour, or  *)
(* left to the next.                                                         *)
Fails == /\ job # Idle /\ faults < Failures /\ faults' = faults + 1
         /\ job' = Idle /\ ran' \in BOOLEAN
         /\ UNCHANGED <<world, now, people, outside, sent, heard>>

Works == Begin \/ Pick \/ (\E d \in Devices : Delivered(d) \/ Forget(d)) \/ MarkSent \/ Done
Next == \/ Tick \/ (\E kind \in Changing : \E f \in Changed(kind) : Happens(f))
        \/ \E u \in Family, d \in Devices : Subscribe(u, d) \/ Unsubscribe(u, d)
        \/ \E d \in Devices : Lost(d) \/ NotDelivered(d)
        \/ \E u \in Family, quiet \in Quiets, kind \in {{}, {"storage"}} : SetPrefs(u, quiet, kind)
        \/ Works \/ BeginShort \/ Fails
Spec == Init /\ [][Next]_vars
-----------------------------------------------------------------------------
TypeOK == /\ now \in 0..MaxNow /\ ran \in BOOLEAN
          /\ \A d \in DOMAIN devices : d \in Devices /\ devices[d] \in Family
          /\ \A x \in sent : x[1] \in Family
          /\ job.forgotten \cap job.left = {}
          /\ (job.user = "nobody") = (job.reminder = NoReminder)

Times(u, r) == IF <<u, r>> \in DOMAIN heard THEN heard[<<u, r>>] ELSE 0
Had(u, key) == \E x \in DOMAIN heard : x[1] = u /\ x[2].key = key

(* A member has a reminder once, and once more for each failure at most: a   *)
(* crash between the device and the note sends it again.                     *)
HeardOnce == \A x \in DOMAIN heard :
               LET same == {y \in DOMAIN heard : y[1] = x[1] /\ y[2].key = x[2].key}
               IN  MapThenSumSet(LAMBDA y : heard[y], same) <= 1 + faults
(* One noted as sent was had. *)
NotedWasHeard == \A x \in sent : Had(x[1], x[2])

(* Prefs: "the hours from QuietFrom to QuietTo", counted on round the clock. *)
Between(from, to) == IF from = to THEN {} ELSE {h \in 0..Hours - 1 : (h - from) % Hours < (to - from) % Hours}
(* Nothing is sent to a member in the hours they chose to be quiet, unless   *)
(* they chose them while the job ran.                                        *)
QuietKept == \A u \in Family : job.user = u /\ heard' # heard
               => Hour \notin Between(job.prefs[u].quiet[1], job.prefs[u].quiet[2])

(* Who a day's job reaches: a member with a device of their own and an hour  *)
(* that is not quiet.                                                        *)
Reached(u) == /\ \E d \in DOMAIN devices : devices[d] = u
              /\ \E h \in 0..Hours - 1 : h \notin Between(prefs[u].quiet[1], prefs[u].quiet[2])
ForWhom(owner) == {u \in Family : owner \in {u, Everyone} /\ Reached(u)}
ToldOf(u, kind, on, least) ==
  \E x \in DOMAIN heard : x[1] = u /\ x[2].kind = kind /\ x[2].about = on /\ x[2].sum >= least
Due(c) == {GraceOf(c), IF c.missed THEN NoDue ELSE MinimumOf(c)}
(* While nothing fails and nobody moves, no day ends without its warnings: a *)
(* payment of the day, at least in its sum; the end of a rent that is near;  *)
(* a goal's date; a broker that has failed for days (what became so in the   *)
(* course of the day may be told of the next).                               *)
CardWarned == \A due \in Due(facts.card) : due.on = Today /\ due.amount > 0
                => \A u \in ForWhom(facts.card.owner) : ToldOf(u, "card", Today, due.amount)
StorageWarned == facts.storage = morning.storage /\ facts.storage.until # Never /\ facts.storage.until - Today \in 0..storageDays
                   => \A u \in ForWhom(facts.storage.owner) : ToldOf(u, "storage", facts.storage.until, 0)
GoalWarned == facts.goal.on = Today => \A u \in ForWhom(Everyone) : ToldOf(u, "goal", Today, 0)
SyncWarned == facts.sync = morning.sync /\ facts.sync.failing /\ facts.sync.lastOK # Never /\ ~facts.sync.revoked
                /\ Today - facts.sync.lastOK > failingDays
                => \A u \in ForWhom(Everyone) : ToldOf(u, "sync", facts.sync.lastOK, 0)
WarnedInTime == now' # now /\ now' \div Hours # Today /\ moves = 0 /\ faults = 0
                  => CardWarned /\ StorageWarned /\ GoalWarned /\ SyncWarned

(* While nothing changes and nothing fails, a member is not pestered: a rent *)
(* is told of twice, a goal once a month and on its date, a source, a        *)
(* mismatch, a period, a dividend once.                                      *)
HeardOfKind(u, kind) == {x \in DOMAIN heard : x[1] = u /\ x[2].kind = kind}
Allowed(kind) == CASE kind = "storage" -> 2
                   [] kind = "goal" -> Month(Today) + 2
                   [] kind = "card" -> 8
                   [] kind = "budget" -> 2 * (Month(Today) + 1)
                   [] OTHER -> 1
FewPushes == changes = 0 => \A u \in Family, kind \in Kinds : Cardinality(HeardOfKind(u, kind)) <= Allowed(kind)

(* A member hears of what is called for: once, but for failures; what is     *)
(* noted was had; and not too often. *)
HeardRight == TypeOK /\ HeardOnce /\ NotedWasHeard /\ FewPushes
(* Outside the quiet hours, and before it is too late. *)
OnTime == QuietKept /\ WarnedInTime
=============================================================================
