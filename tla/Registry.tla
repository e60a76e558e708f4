------------------------------ MODULE Registry ------------------------------
(***************************************************************************)
(* The registry of corporate actions at work: events recorded, corrected   *)
(* and deleted, hand entries made meanwhile, and the runs that carry the   *)
(* events into the journals (Materializer.ForISIN, ForAccount, All).       *)
(*                                                                         *)
(* A run is a list of tasks of one worker.  Each task is one statement or  *)
(* one transaction: the events of an ISIN are read, its holders are read,  *)
(* and every account is brought into line under its lock with the events   *)
(* read before.  Other workers step in between.  The bounds of a world      *)
(* limit what people and accidents do, never what a run does.              *)
(***************************************************************************)
EXTENDS Materialize

CONSTANTS
  Accounts,     \* the accounts of the family
  Doors,        \* workers that serve a person's requests
  Jobs,         \* workers of the queue
  Worlds        \* by name: what may happen, and how often

VARIABLES
  world,       \* the world this is, for good
  rows, clock,
  events,      \* the table instrument_events
  catalogue,   \* the papers the catalogue has a row for
  run,         \* what each worker is doing
  retries,     \* ISINs with a queued MaterializeISIN job
  changes, faults, crashes

vars == <<world, rows, clock, events, catalogue, run, retries, changes, faults, crashes>>

\* Rows a person may enter, events a person may record or a refresh job may find
\* (without an id), catalogue rows added after the start.
HandRows   == Worlds[world].rows
Recordable == Worlds[world].recordable
Published  == Worlds[world].published
Late       == Worlds[world].late

\* Doors in use; entries, recordings, deletions and publications; transactions
\* that fail; restarts.
OpenDoors  == Worlds[world].doors
MaxChanges == Worlds[world].changes
MaxFaults  == Worlds[world].faults
MaxCrashes == Worlds[world].crashes

Workers == Doors \cup Jobs
Idle == [kind |-> "none", isin |-> NoIsin, todo |-> <<>>, failed |-> FALSE]

Running(kind, isin, todo) ==
  [kind |-> kind, isin |-> isin, todo |-> todo, failed |-> FALSE]

Task(what, isin, acct, papers, seen) ==
  [what |-> what, isin |-> isin, acct |-> acct, papers |-> papers, seen |-> seen]

OfISIN(isin)  == Task("events", isin, 0, {}, <<>>)
OfAccount(a)  == Task("account", NoIsin, a, {}, <<>>)
OfRegistry    == Task("registry", NoIsin, 0, {}, <<>>)

-----------------------------------------------------------------------------
(* The store. *)

SameFact(e, f) == e.isin = f.isin /\ e.kind = f.kind /\ e.on = f.on

\* ByISIN: oldest first, in the order they were recorded on a day.
EventsOf(isin) ==
  SetToSortSeq({e \in events : e.isin = isin},
               LAMBDA e, f : e.on < f.on \/ (e.on = f.on /\ e.id < f.id))

NextEvent == 1 + Max({0} \cup {e.id : e \in events})

PapersOn(a, isin) == {p \in Papers : Isin[p] = isin /\ \E r \in RowsOf(rows, a) : r.paper = p}

\* holders: whoever has recorded an operation on the paper, in order of account.
Holders(isin) ==
  SetToSortSeq({a \in Accounts : PapersOn(a, isin) # {}}, <)

\* eventPapersOfAccount and DistinctISINs, in order of ISIN.
EventIsins     == {e.isin : e \in events}
EventPapers(a) == SetToSortSeq({i \in EventIsins : PapersOn(a, i) # {}}, <)

-----------------------------------------------------------------------------
(* Runs. *)

\* A failed task is reported; the others go on.
Failed(w) == [run[w] EXCEPT !.todo = Tail(@), !.failed = TRUE]

Instead(w, tasks) == [run[w] EXCEPT !.todo = tasks \o Tail(@)]

\* What a task that only reads turns into.
Expanded(t) ==
  CASE t.what = "registry" ->
         [i \in DOMAIN SetToSortSeq(EventIsins, <) |-> OfISIN(SetToSortSeq(EventIsins, <)[i])]
    [] t.what = "events"  -> <<Task("holders", t.isin, 0, {}, EventsOf(t.isin))>>
    [] t.what = "holders" ->
         [i \in DOMAIN Holders(t.isin) |->
            Task("bring", t.isin, Holders(t.isin)[i], PapersOn(Holders(t.isin)[i], t.isin), t.seen)]
    [] t.what = "account" ->
         [i \in DOMAIN EventPapers(t.acct) |->
            Task("paper", EventPapers(t.acct)[i], t.acct,
                 PapersOn(t.acct, EventPapers(t.acct)[i]), <<>>)]
    [] t.what = "paper"   -> <<Task("bring", t.isin, t.acct, t.papers, EventsOf(t.isin))>>

Reads(w) ==
  /\ run[w].todo # <<>>
  /\ Head(run[w].todo).what # "bring"
  /\ run' = [run EXCEPT ![w] = Instead(w, Expanded(Head(run[w].todo)))]
  /\ UNCHANGED <<world, rows, clock, events, catalogue, retries, changes, faults, crashes>>

\* forAccount: one transaction, with the events the task carries.
Brings(w) ==
  /\ run[w].todo # <<>>
  /\ Head(run[w].todo).what = "bring"
  /\ \E t \in {Head(run[w].todo)} :
     \E d \in Brought(rows, clock, t.acct, t.seen, t.papers, catalogue) :
       \/ /\ d.ok
          /\ rows' = (rows \ d.remove) \cup d.add
          /\ clock' = clock + 2 * d.asked
          /\ run' = [run EXCEPT ![w] = Instead(w, <<>>)]
       \/ /\ ~d.ok
          /\ run' = [run EXCEPT ![w] = Failed(w)]
          /\ UNCHANGED <<world, rows, clock>>
  /\ UNCHANGED <<world, events, catalogue, retries, changes, faults, crashes>>

\* A transaction of the run fails for a reason of its own.
Fails(w) ==
  /\ run[w].todo # <<>> /\ faults < MaxFaults
  /\ faults' = faults + 1
  /\ run' = [run EXCEPT ![w] = Failed(w)]
  /\ UNCHANGED <<world, rows, clock, events, catalogue, retries, changes, crashes>>

\* A request that could not finish queues a retry of its paper, a failed retry
\* goes back to the queue; a sweep or a hand entry leaves it to the next sweep.
RetriedBy(r) ==
  IF r.failed /\ r.kind \in {"request", "retry"} THEN {r.isin} ELSE {}

Ends(w) ==
  /\ run[w] # Idle /\ run[w].todo = <<>>
  /\ run' = [run EXCEPT ![w] = Idle]
  /\ retries' = retries \cup RetriedBy(run[w])
  /\ UNCHANGED <<world, rows, clock, events, catalogue, changes, faults, crashes>>

-----------------------------------------------------------------------------
(* What starts a run. *)

Starts(w, r) == run[w] = Idle /\ run' = [run EXCEPT ![w] = r]

Changing == changes < MaxChanges /\ changes' = changes + 1

\* Create: a second event of one kind for one paper on one day is refused.
Record(w) ==
  \E e \in Recordable :
    /\ ~\E f \in events : SameFact(e, f)
    /\ Changing
    /\ events' = events \cup {[e EXCEPT !.id = NextEvent]}
    /\ Starts(w, Running("request", e.isin, <<OfISIN(e.isin)>>))
    /\ UNCHANGED <<world, rows, clock, catalogue, retries, faults, crashes>>

\* Delete: a published event is not a person's to delete.
Strike(w) ==
  \E e \in events :
    /\ e.src = "manual"
    /\ Changing
    /\ events' = events \ {e}
    /\ Starts(w, Running("request", e.isin, <<OfISIN(e.isin)>>))
    /\ UNCHANGED <<world, rows, clock, catalogue, retries, faults, crashes>>

\* Upsert: the same event of the same source takes the new ratio and result; an
\* event someone else recorded is left alone.
Upserted(e) ==
  IF \E f \in events : SameFact(e, f)
  THEN {IF SameFact(e, f) THEN [f EXCEPT !.ratio = e.ratio, !.result = e.result] ELSE f :
          f \in events}
  ELSE events \cup {[e EXCEPT !.id = NextEvent]}

Publish(w) ==
  \E e \in Published :
    /\ \A f \in events : SameFact(e, f) => f.src = e.src
    /\ Changing
    /\ events' = Upserted(e)
    /\ Starts(w, Running("job", e.isin, <<OfISIN(e.isin)>>))
    /\ UNCHANGED <<world, rows, clock, catalogue, retries, faults, crashes>>

\* A hand entry commits, and AfterManualWrite follows it on the same door.
Entry(w, d, ticks, a) ==
  /\ d.ok /\ Changing
  /\ rows' = (rows \ d.remove) \cup d.add
  /\ clock' = clock + ticks
  /\ Starts(w, Running("entry", NoIsin, <<OfAccount(a)>>))
  /\ UNCHANGED <<world, events, catalogue, retries, faults, crashes>>

Enters(w) == \E op \in HandRows : Entry(w, Create(rows, clock, op), 1, op.acct)

Deletes(w) == \E op \in rows : Entry(w, Delete(rows, op), 0, op.acct)

Catalogued ==
  \E p \in Late \ catalogue :
    /\ catalogue' = catalogue \cup {p}
    /\ UNCHANGED <<world, rows, clock, events, run, retries, changes, faults, crashes>>

Retries(w) ==
  \E i \in retries :
    /\ retries' = retries \ {i}
    /\ Starts(w, Running("retry", i, <<OfISIN(i)>>))
    /\ UNCHANGED <<world, rows, clock, events, catalogue, changes, faults, crashes>>

\* The daily sweep; one at a time.
Sweeps(w) ==
  /\ \A v \in Workers : run[v].kind # "sweep"
  /\ Starts(w, Running("sweep", NoIsin, <<OfRegistry>>))
  /\ UNCHANGED <<world, rows, clock, events, catalogue, retries, changes, faults, crashes>>

\* The process restarts: what it was doing is lost, the queue is not.
Crash ==
  /\ crashes < MaxCrashes /\ crashes' = crashes + 1
  /\ run' = [w \in Workers |-> Idle]
  /\ retries' = retries \cup {run[w].isin : w \in {v \in Jobs : run[v].kind = "retry"}}
  /\ UNCHANGED <<world, rows, clock, events, catalogue, changes, faults>>

Init ==
  /\ world \in DOMAIN Worlds
  /\ rows = {} /\ clock = 0 /\ events = {} /\ catalogue = Papers \ Late
  /\ run = [w \in Workers |-> Idle] /\ retries = {}
  /\ changes = 0 /\ faults = 0 /\ crashes = 0

Next ==
  \/ \E w \in OpenDoors : Record(w) \/ Strike(w) \/ Enters(w) \/ Deletes(w)
  \/ \E w \in Jobs : Publish(w) \/ Retries(w) \/ Sweeps(w)
  \/ \E w \in Workers : Reads(w) \/ Brings(w) \/ Fails(w) \/ Ends(w)
  \/ Catalogued \/ Crash

\* The account in hand is done with, one way or the other.
Leaves(w) ==
  /\ run[w].todo # <<>> /\ Head(run[w].todo).what = "bring"
  /\ run' \in {[run EXCEPT ![w] = Instead(w, <<>>)], [run EXCEPT ![w] = Failed(w)]}

\* A worker finishes what it started, and the sweep comes round daily.
Fairness ==
  /\ \A w \in Workers : WF_run(Reads(w)) /\ WF_run(Leaves(w)) /\ WF_run(Ends(w))
  /\ \A w \in Jobs : SF_run(Sweeps(w))

Spec == Init /\ [][Next]_vars /\ Fairness

-----------------------------------------------------------------------------
(* Properties. *)

\* The accounts' journals are folded by every page: no run may leave one that
\* does not fold (applyImportDeltaLocked).
JournalsReplay == \A a \in Accounts : AccountReplays(rows, a)

\* The ISINs the registry has written rows for, recorded still or not.
WrittenFor == {Isin[NamedPaper(r.ext)] : r \in {o \in rows : o.src = "registry"}}

\* What the registry asks of the account for this ISIN.
AsksOf(table, now, a, isin) ==
  Brought(table, now, a, EventsOf(isin), PapersOn(a, isin), catalogue)

Asks(a, isin) == AsksOf(rows, clock, a, isin)

\* It asks nothing more,
InLine(a, isin) == \A d \in Asks(a, isin) : d.ok /\ d.remove = {} /\ d.add = {}

\* And refused nothing it asked.
NothingAsked(a, isin) == \A d \in Asks(a, isin) : d.ok /\ d.remove = {} /\ d.asked = 0

-----------------------------------------------------------------------------
(* What the registry promises, reckoned day by day without a journal. *)

LastDay == Max({0} \cup {r.day : r \in rows})

Bought(a, p, day) ==
  MapThenSumSet(LAMBDA r : IF r.typ = "buy" THEN r.qty ELSE -r.qty,
    {r \in RowsOf(rows, a) : r.typ \in {"buy", "sell"} /\ r.paper = p /\ r.day = day})

\* What every unit of paper p becomes of an event, as units of q.
Becomes(e, p, q, units) ==
  LET made == (units * e.ratio[1]) \div e.ratio[2]
      idle == e.isin # Isin[p] \/ ~Counted(e, catalogue)
      gone == e.kind = "conversion" /\ ~idle /\ made > 0
  IN CASE ~idle /\ e.kind = "split" /\ p = q -> made
       [] ~idle /\ e.kind # "split" /\ q \in Produced(e, catalogue) -> made
       [] OTHER -> IF p = q /\ ~gone THEN units ELSE 0

\* The units of each paper at the end of a day: the events of the day act on
\* what was held the day before, then the day's trades.
Entitled(a) ==
  LET after[day \in 0..LastDay] ==
        IF day = 0 THEN [p \in Papers |-> 0]
        ELSE LET Met(h, e) ==
                   [q \in Papers |->
                      MapThenSumSet(LAMBDA p : Becomes(e, p, q, h[p]), Papers)]
                 today == SetToSortSeq({e \in events : e.on = day},
                                       LAMBDA e, f : e.id < f.id)
                 met   == FoldLeft(Met, after[day - 1], today)
             IN [p \in Papers |-> met[p] + Bought(a, p, day)]
  IN after[LastDay]

\* Once every journal is in line and took what was asked of it, each account
\* holds what the published events make of its purchases and sales, in whatever
\* order the events and the entries were made (ForISIN, ForAccount, diff).
HoldingsAsPublished ==
  (\A a \in Accounts : \A i \in EventIsins \cup WrittenFor : NothingAsked(a, i)) =>
    \A a \in Accounts :
      LET book == Compute(JournalOf(rows, a)).pos
      IN \A p \in Papers : PositionOf(book, p).qty = Entitled(a)[p]

\* Bringing an account into line with the events as they stand leaves nothing
\* more to ask: a second run finds its own rows again, and what was refused is
\* refused again without disturbing them (diff, sameRow).
RunSettles ==
  \A a \in Accounts, i \in EventIsins :
    \A d \in Asks(a, i) : d.ok =>
      \A again \in AsksOf((rows \ d.remove) \cup d.add, clock + 2 * d.asked, a, i) :
        again.ok /\ again.remove = {} /\ again.add = {}

\* Whatever fails or is read too early, the sweeps bring every account into line
\* with every ISIN the registry still has an event for (All, AfterManualWrite).
Converges ==
  <>[](\A a \in Accounts : \A i \in EventIsins : InLine(a, i))

=============================================================================
