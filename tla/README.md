# babki.my, in TLA+

babki.my keeps a family's money in one journal of operations.  Everything it
shows (positions, profit, worth, tax) is a projection of that journal, folded
anew on each read.  An entry that was accepted and later refuses to fold takes a
whole account with it, and a fold in another order gives another profit without
any error.  This project models the journal and everything that writes to it:
the engine that folds it, every door through which a row enters it, the
transactions behind those doors, the registry of corporate actions and the
T-Invest importer that rewrite it in the background; and, beside it, the door of
an instance, its reminders and its background jobs.

## The system's parts

| part | state | operations | what makes it hard | what makes it correct |
|---|---|---|---|---|
| portfolio engine (`internal/portfolio`) | none; a fold from operations to positions with a queue of lots | one applier per operation type, `releaseFIFO`, `releaseRecorded`, `SpinoffPieces` | truncation to a scale at every split, release and share; lots of zero units with cost | the lots add up to the position; a departure replays to what its release left; cost is neither lost nor invented |
| journal and its write check (`internal/operation/service.go`, `foldorder.go`) | table `operations` and its breakdowns | `checkJournal`, `sortJournal`, `validate` | the order a row is judged in and the order it is read back in come from different clocks | every account's journal always folds |
| hand entries (`service.go`, `update.go`, `pairs.go`, `purchases.go`, `arrivals.go`, `money_transfer.go`) | the same table | create, replace, edit, delete, transfers, arrivals, statements of purchases, conversions, spin-offs | one request rewrites journals of several accounts; later moves carry what earlier entries brought | pairs stand whole and agree; basis moves and is never doubled; an edit keeps its place |
| import door (`import.go`) | the same table | one delta of removals and additions | a delta that does not fold whole is offered piece by piece; corrections keep their place in the day | the same, for rows nobody typed |
| transactions and locks (`store.go`) | row locks on `accounts`, open transactions | `withAccountsLocked` and what runs in it | reads on the pool go stale before the locks; opposite transfers; archiving in between; lost connections | every interleaving is a sequence of atomic entries, and every request ends |
| registry of corporate actions (`internal/corporateaction`) | recorded events; the journal's rows of source `registry` | record, correct, delete; `Materializer.ForISIN`, `ForAccount`, `All` | its input holds its own output; runs outside the entry that called for it; failures and restarts | the holdings become what was published, and a run leaves nothing to the next |
| T-Invest mirror (`internal/importer/tinvest/sync.go`) | a copy of the broker's records, explanations by content | `SyncMirror`, `ExplainRows` | readings that overtake each other, lack or repeat records; papers rewritten | the mirror is one reading, and a row keeps its identity and its explanation |
| T-Invest syncs (`jobs.go`, `service.go`, `recheck.go`) | the connection, its job, its log | enqueue, run, park, renew | failures and deaths at every step, runs that River gives up on alive, tokens replaced under a run | runs overlap only where River gave up on one, a log that says running of no other, no refused token offered again |
| T-Invest projection (`projection.go`, `rebuild.go`, `fund_redemption.go`) | the journal's rows of source `tinvest`, verdicts on rows | `Rebuild` | one operation told in several rows, in any order, over days | cash and units are as the broker told them, once |
| sign-in (`internal/family`) | failures per address and name, hash slots, sessions, roles | `wait`, `failed`, `succeeded`, `Setup`, `ChangePassword`, `UpdateMemberRole` | checks and acts in separate critical sections or statements | bounded attempts, one owner, ended sessions stay ended where no other ending overlaps |
| reminders (`internal/notify`) | what was sent, devices, the Telegram offset, links | `Deliver`, `MarkSent`, `ReadUpdates` | a crash between sending and marking; facts that change over night | every due reminder is sent, once but for a crash, and not at night |
| background jobs (`internal/background`, `internal/platform/jobs`) | the River queue, outcomes, progress rows | periodic jobs, unique while unfinished; beats | a failing job holds the slot of its kind; a dead process leaves its row | no tick is lost for ever; the screen shows what runs |

The other packages (market data, credit cards, loans, deposits, budget, forecast,
goals, taxes, export and so on) read the fold and reckon over it, or keep rows
written one at a time; `PROJECT.json` lists each with the reason it is left out.

How they interact: a hand entry goes through `operation.Service` into one
transaction under the locks of the accounts it touches; importers and the
registry apply deltas through the same service and the same locks;
`manualWriteDone` calls the registry after a hand entry has committed; jobs
sync a mirror, then rebuild the journal from it, then bring the registry's rows
into line and ask for a new check of the accounts they wrote to.

## Modules

| module | models | state and actions |
|---|---|---|
| `Engine` | `portfolio/engine.go`, `apply.go`, `operation.go`, `lot_id.go` | operators only; `Compute` folds a sequence of operations into a book of positions |
| `Fold` | `Compute` as a state machine on one account | `book`; `Enter` an operation of the catalogue, `Depart` with a breakdown, `CarveOut` a spin-off |
| `Ledger` | fold order, the write check, validation, breakdowns | operators only; a *delta* is the rows an entry takes out and puts in |
| `HandEntries` | every entry of `operation.Service` a person reaches | operators: table and request to delta |
| `ImportDelta` | `ApplyImportDelta` | operators: table, candidates and removals to delta |
| `Journal` | the service as its callers see it | `rows`, `clock`, `archived`; one atomic action per entry (`DoCreate`, `DoDelete`, `DoImport`, ...) |
| `JournalTx` | the transactions that make `Journal`'s steps | `tx[w]` per writer: `Ask` (read on the pool), `Lock` (one account), `Read`, `Commit`, `Abort`; `ArchiveRow` |
| `Materialize` | what the recorded events ask one account's journal to hold, and the delta to it | operators only, over the two doors |
| `Registry` | the registry at work | events, rows, workers with their tasks; a task is one statement or transaction |
| `BrokerCopy` | what a mirror promises | `copy` (a bag), `heard`, `authorized`; a run reads, a run's reading becomes the copy |
| `Mirror` | `SyncMirror`, rekeying, explanations | `rows`, `broker`, `reading`, `explains`; implements `BrokerCopy` |
| `SyncRuns` | the sync job of a connection | the connection, its one job, `work[w]` per worker (a run step by step, and whether the job is still its own), the log, tokens; `Rescue` frees the job by time alone |
| `Projection`, `Rebuild` | what a row means; the passes of a rebuild and its three writes | the mirror's rows, verdicts, the journal's rows of the importer |
| `SignIn` | setup, members, sign-in, sessions | a request is a process; a step is a critical section, statement or transaction |
| `ReminderCalls`, `Reminders` | what the facts call for; the hourly job | facts, devices, preferences, `sent`, `heard` |
| `Telegram` | a space's bot | bot, offset, codes, the reader and the sender step by step |
| `Jobs` | a periodic job on its clock | the slot, attempts and pauses, outcomes, staleness |
| `JobProgress` | the progress rows of jobs | `rows`, `run`, beats, stages, deaths |
| `MC*` | catalogues and small instances for TLC | `MCNotices` sets `Reminders` beside `Telegram`, `MCJobs` `Jobs` beside `JobProgress` |
| `LedgerProofs` | the lemmas about the operators of the engine, the write check and the doors | no variables |
| `FoldProofs`, `JournalProofs`, `MirrorProofs`, ... | theorems of one component each | |

`Ledger` extends `Engine`; `HandEntries` and `ImportDelta` extend `Ledger`;
`Journal` composes the two doors over one table; `JournalTx` extends `Journal`
and implements it; `Materialize` and `Registry` use the same doors.  `Mirror`,
`SyncRuns` and `Rebuild` each abstract the others: the mirror to the version of
the history it was brought into line with, the journal to what a record produced.

How the state corresponds to the code:

* A row of the journal is what `ListForEngine` reads back.  A transfer's breakdown
  is stored once, beside the arriving leg, and attached to both legs on every
  read; in the model it is on both legs.
* A quantity is counted in the journal's smallest unit, so truncation to the
  scale is integer division; a quotient the code keeps to more digits than the
  journal is rounded to `1/DivScale`.  A day is a positive integer, `NoDay` an
  unknown day of acquisition.
* `clock` is the database's clock in ticks.  Every inserted row takes one tick,
  which is also its id and, for a hand entry, its `created_at`.  The process's
  own clock, from which importers' stamps and the write check start, is
  `AppAhead` ticks ahead.  An importer's delta takes two ticks per candidate,
  used or not.  Rows no key of the order tells apart go by id.
* A lot's number is the row's id, or, for a row with an external id, that id
  negated: the code's two strings `op/<id>` and `<source>/<external id>` never
  meet.  External ids of different sources are taken apart in the catalogues.
* A pair entered by hand is named by the database; importers name theirs after
  their own records.  In the model these are the numbers up to `MaxClock` and the
  others (`RequestsAssumption`).
* The hand entries check the row once more as the table returns it.  Quantities of
  the model are at the stored scale already, and `journalWith` restamps the
  stored row as it did the candidate, so the second check is the first.
* In `JournalTx` a request's page and its read on the pool are one step
  (`Ask`): what goes stale between them goes stale after it as well.  A commit
  writes and ends the transaction in one step: before it, nobody sees its
  inserts.  The locks of a transaction are released with it.
* In the other modules a step is one statement, transaction, critical section or
  call of a service outside, because that is where another process can come in
  between; what a crash interrupts is any sequence of those.
* Left out of a row: categories, parts of a purchase, the member, notes, prices,
  settlement days and trading modes.  No fold reads them.

Modules with `Worlds` choose one small world at the start (who asks for what, and
how often) and keep it: one run then answers one question in several settings.
The bounds of a world limit what people, brokers and accidents do, never what
the program does in answer.

Definitions whose comment begins with *Wrong:* are not the code.  Each stands
before the definition it corrupts, in the way a plausible slip would, and
`PROJECT.json` pairs it with the property that must then fail under the run's
own configuration.

## Runs

Deadlock is checked in `JournalTx`, where a request can always be asked.  In the
other runs the system may stop: with every bound of a world used up nothing more
is entered, booked or sent.

| run | states | question and bounds |
|---|---|---|
| `engine_fold` | 21 581 | From every book that five operations can leave, do a release, its recorded breakdown and a spin-off agree with the queue? Parcels of 2 and 3 units at 5 and 7, a split 2:3, repayments with and without a face, an arrival with an undated piece: nothing divides evenly. |
| `journal` | 18 757 | Four families ask for everything in any order: *traders* (out-of-date-order trades, edits, transfers with released and stated basis, money, archiving), *heirs* (an arrival, a chain of moves over three accounts, statements before, between and after), *clients* (a broker's deltas of up to two events, timed to the instant, and a removal; an upload without times, written and rolled back; among the owner's rows), *holders* (a conversion 3:2, a spin-off of 37/100, an imported split, an amortization). Four to six rows are enough for a purchase, a move, a sale on the far account and a row that changes what the move took. |
| `journal_tx` | 29 818 | Two writers: opposite transfers, deletions, a broker's correction, a statement against a move to an account it did not lock, archiving, every rollback. Two writers on two accounts are the smallest case of a cycle of locks, and every stale read in the code is one transaction's read against one other's commit. |
| `registry` | 57 816 | A split, a conversion and a spin-off over two papers, published, corrected, withdrawn, catalogued late; two doors and the queue at once; a failed transaction and a restart. |
| `mirror` | 186 200 | Two runs whose readings overtake each other, runs that fail, two bodies and two papers under three changes of the broker, two explanations by hand. |
| `syncs` | 556 716 | Two workers and five worlds: a history that grows while the registry asks for checks, and three tokens of which one is revoked and one does not open, each with two failures or deaths at any step; and, with one of either, a run that River gives up on while it lives, as the history grows, as the owner explains the record, and as the token is replaced. Two attempts a job. One rescue makes two runs at once, which is every overlap of two readings, differences and writes; a third run would stand to each as the second does. |
| `rebuild` | 164 840 | Five sets of rows, each row in up to four versions, withdrawn and restored: trades and commissions, a redemption, moves between accounts, a fund's payout, currencies. A stop between any two writes, a catalogue that learns. |
| `signin` | 208 422 | Two requests at a door: five settings for wrong passwords, sessions ended while a password is changed, two endings that overlap and are stored in either order of their moments, members and roles, and slots. |
| `notices` | 460 546 | Families of one or two members over three days of two hours; the bot with one member, one chat, two messages and two codes; one failure at any step. |
| `jobs` | 2 187 712 | Intervals around the sums of River's pauses 1, 17 and 98, a crash, a source that stops; two jobs with a beat of one and rows shown for four moments. |
| `journal_clock`, `rebuild_twice` | violated | two disagreements between the code and its comments, below |

What the properties say is written above each of them.  The main ones:

* `JournalsReplay`: every account's journal folds, always.  An entry is judged on
  the accounts it names; this property is about all of them, after any sequence.
* `PairsAgree`: two legs or none, and the legs describe one parcel, through
  deletions, removals, restatements and partial refusals.
* `BasisConserved`: what was paid for papers equals what is held plus what
  disposals gave up plus what left the family, summed over all accounts.  A move
  whose basis was stated by hand is the code's documented exception, so the
  property speaks of tables without one.
* `PlaceKept` (an action property): two rows that stay on their day stay in their
  order across edits and corrections.
* `LotsSound`: a position is its queue, and a lot's number is its own and names a
  row that brought it.
* `RecordedAsReleased`, `OldestFirst`, `CarvedExactly`, `NothingLost`: the
  arithmetic of the engine, on every reachable book.
* `ImplementsJournal`: `JournalTx` implements `Journal`.  The refinement mapping
  is the identity on `rows`, `clock` and `archived`, and `tx` is hidden: every
  commit is one of `Journal`'s actions, everything else stutters.
* `JudgesWhatStands`: what a transaction judges is what the table holds on the
  accounts it locked, until it ends.
* `HoldingsAsPublished`, `RunSettles`, `Converges` (registry): the accounts hold
  what was published of what was bought; a run that ended undisturbed leaves the
  next nothing to write; left alone, the registry comes to that state.
* `ImplementsBrokerCopy` (a refinement: the bag of the live rows' records is the
  abstract copy), `KeepsRows`, `ExplanationFollows`.
* `SlotHeld`, `LogClosed`, `NotOfferedAgain`, `Settles`: the sync job.  Runs of a
  connection do overlap when River gives up on one that is alive (`jobs.go:53`),
  and an entry of the log does stay open when a worker dies or `FinishRun` fails
  (`jobs.go:391`, `:451`).  `SlotHeld` says that nothing else makes them overlap,
  `LogClosed` that no other entry is open, and `Settles` that what an overtaken run
  wrote over its successor's is made good by a later hour.
* `CashAsTold`, `InStep`, `RedemptionCloses`, `MovesWhole`, `FundsAsTold`: what a
  settled rebuild holds against what the broker's rows say, reckoned apart.
* `FewSlipThrough`, `OneOwner`, `SessionsEnd`, `LocksLengthen`: the door.  An ending
  of sessions stores its moment over whatever is there, so `SessionsEnd` speaks of
  sessions older than every ending under way when one was stored, and of the
  caller's own while no later moment was stored.
* `ToldAsMarked`, `Answered`, `HeardRight`, `HeardInTime`: the notices.
* `ScreenTrue`, `KeepsPace`: the jobs.

### Fairness

* `JournalTx`: weak fairness of `Read` and of `Leave` (a transaction that holds
  its locks goes on, and one that has judged commits, refuses or rolls back: the
  code between has no wait) and strong fairness of `Lock`.  The last is
  PostgreSQL's: waiters on a row lock queue, so a waiter is not overtaken for
  ever although others take the lock in between.  `Abort` has no fairness: a
  lost connection is possible, never promised, so a deadlock is not excused by
  one of the two giving up.  `Ask` and `ArchiveRow` have none either.
* `Registry`: weak fairness of the steps of a run that has begun, strong fairness
  of the daily sweep: River runs a periodic job again and again, although other
  jobs take its worker in between.  Nobody is bound to enter or publish anything.
* `Mirror`: weak fairness of a run's reading and of its leaving: the hourly job
  comes again.  Losses of a run are bounded by the world, because a broker that
  never answers again excuses everything.
* `SyncRuns`: weak fairness of the queue (`Dispatch`, `Taken`), of each run's steps
  and of what the registry has asked for, and of `Rescue` where nobody alive holds
  the job: River dispatches and rescues jobs by a timer.  That it gives up on a run
  that is alive is possible, never promised; nor are failures, deaths and the
  owner's requests.
* `SignIn`: weak fairness of the steps of a request under way, strong fairness of
  taking a slot: a Go channel hands a freed slot to its waiters in turn.
* `Telegram`: weak fairness of the two periodic jobs, `Reads` and `Delivers`.

### Where code and comments part

Two runs show a disagreement as a counterexample:

* `journal_clock`.  `sortJournal` says the write check and a later read cannot
  disagree about order.  They can: the check stamps the candidate last, the
  column takes the database's clock, and an import's rows are stamped from the
  process's clock, which may be ahead (by skew, or by the length of a large
  delta, as `import.go` itself notes).  Stamps decide among rows without a time of
  day: an uploaded table's and a person's, not a broker's.  A sale entered by hand
  then reads back before the uploaded purchase it was judged after, and the
  account no longer folds.  `AppAhead = 3`
  here and 0 in the other runs; the theorem below has `AppAhead = 0` as its
  hypothesis for the same reason.
* `rebuild_twice`.  `feeBooked` is set only where an entry has a fee; a commission
  in another currency is an entry of its own, so a fee that names its trade is
  booked as well.

Others were met while modelling, and the worlds of the runs leave them aside or
the properties say "unless".  Each is a sentence of the source that the code
beside it does not keep:

* `pairs.go:187`: the newest row naming a paper may be a coupon in a currency of
  its own, so `currencyOf` is not the currency of the cost.
* `update.go:13`: the row is judged without its external id, so under another lot
  number than it is stored under; an uploaded purchase whose shares have moved on
  can no longer be edited.
* `materialize.go:168`: `All` walks the papers that still have an event; the rows
  of a paper whose last event was deleted, with the run lost, stay for ever.
* `corporateaction.go:18`: each paper is brought into line alone, in a journal that
  still holds the rows of the others; a correction of the first of two chained
  conversions may never fold.
* `0023_tinvest_mirror_explanations.sql:20`: two equal operations share one
  explanation, which leaves with the one whose paper is rewritten; and an
  explanation written after a sync has rekeyed its row is under a key no row has.
* `recheck.go:55`: a check asked for while a sync has struck its verdict is skipped
  as a duplicate, and waits for the hourly run.
* `service.go:366` of the importer: a run refused with the old token parks the
  connection after the new one was stored.
* `auth.go:244`: of two overlapping sign-outs the earlier moment may be stored last,
  and a session that only the later one ended is let through again.
* `rebuild.go:79`: two rebuilds of a connection must not overlap and "the scheduler
  serializes them"; `jobs.go:53` knows that it does not always.  In the model two
  overlap, a difference that no longer fits the journal is refused whole, and the
  next run starts anew.
* `telegram_store.go:67`, `telegram_worker.go:23` and `:133`: a run under way while
  another bot is given stores the old bot's offset and ties the old bot's chats;
  and one that was refused forgets whichever chat the member has by then.
* `events.go:116`: payouts of one day are one push; one booked late is not told of.
* `rebuild.go:515`: a redemption counts a sale the journal goes on to refuse.
* `projection.go:34`: the withdrawal of a payout the owner explained makes no entry
  and gives no reason.

## Theorems

TLC checks the small instances above; the following hold for any accounts,
requests, worlds and bounds, and are checked by TLAPS.

**Engine** (`LedgerProofs`, `FoldProofs`).

* `NothingIsLost`: `NothingLost` for any operations, papers and length.  The
  invariant is `Books`: every position is its queue of lots (`IsPosition`: typed,
  in order of acquisition, no lot younger than the fold, units and cost of the lots
  adding up to the position's), what a paper holds and gave up is what it
  brought in less what left (`Balanced`), and the lots of a position have numbers of
  their own, each given by a row folded so far (`Apart`).  There is one lemma per kind of operation
  for what it makes of a position (`BuyIs`, `DisposalIs`, `AmortizationIs`,
  `DepartureIs`, `ArrivalIs`, `SpinoffOutIs`, `SplitIs`), and under them one per
  helper that truncates: a release reaches exactly the units asked for
  (`ReachedIs`, `LeftIs`), the sweep takes the cost a split left without units
  (`SweepIs`), the largest remainders fill a share to the last minor unit
  (`AllottedIs`: the remainders add up to the units missing and rank without
  gaps, `RanksFill`), a split's differences add up to the truncated total
  (`SplitIs`), a rescaled breakdown keeps its units and its cost (`QuantizeIs`).
  Sums are recursive functions over sequences; their lemmas go by the least place
  at which they would fail (`SmallestOf`, `Climbing`), because the library's
  induction over naturals cannot be instantiated by these provers.
* `SharesAreExact`: `CarvedExactly`, from `Books` and `AllottedIs`.
* `OldestUnitsFirst`: `OldestFirst`, from `Books`: of the units a release takes, the
  number belonging to a lot grows, place by place, with the units of the queue that
  belong to it (`TakesOldest`), and a swept piece adds none (`OfOneJoin`).
* `DeparturesReplay`: `RecordedAsReleased`, from `Books`.  The released pieces fit
  lots of different numbers (`ReachedFits`; when the last unit goes, the swept lots
  too, `AllFits`), and dropping the spent ones keeps that (`BreakdownFits`).  Such
  pieces can be taken one after another, each from the lot it names and from no
  other (`TakePieceGoes`, `RunGoes`).  What is then left by number is what the
  release left by place (`ByNumberAsByPlace`), but for lots that are spent
  (`CutIs`, `FirstSpent`); when every unit goes, nothing but spent lots is left,
  because units and costs that add up to zero are zero (`NothingLeft`).  `Apart` is
  what the step to the named lot needs: with two lots of one number the replay
  could take the other.

The operations may be any rows the table's columns can hold (`IsEntry`,
`FoldAssumption`); what leaves is what the engine itself released or carved.

**Journal** (`JournalProofs`).

* `TypeCorrect`: for any `AppAhead`.  Every action but archiving applies one delta
  (`NextApplies`), and the rows a delta adds are *recorded*, that is well formed,
  with an id and a stamp within the clocks (`HandRecorded`, `UpdateRecorded`,
  `BreakdownsRecorded`, `ImportRecorded`).  The import door is the long case: a
  correction's stamp is that of a row it removes, a new row's stamp is `Base` plus
  its place in the delta, `Base` is the next tick because no kept row is stamped
  later (`BaseIsNext`), and no place exceeds the number of candidates
  (`PlaceBounds`).  `TypeOK` is inductive as it stands.
* `JournalsAlwaysReplay`: with `AppAhead = 0`, every journal folds at every moment.
  Inductive only together with `TypeOK`: a hand entry is judged with a stamp of
  the check's own, and that is the stamp the row gets only because no stored
  stamp is above the clock (`StampIsClock`, `JudgedIsStored`).  Then each delta
  folds every journal it touches (`HandSound`, `RestateSound`, `ImportSound`) and
  leaves the others as they were (`DeltaReplays`).  The engine itself stays
  opaque: nothing is used of it but that an empty journal folds.
* `LotsAlwaysSound`: with `AppAhead = 0`, `LotsSound` of every position of every
  account.  The engine's lemmas speak of rows as columns hold them, so the table
  needs one more invariant, `ColumnsHold` (`IsEntry` of every row): requests and
  records are told so (`ColumnsAssumption`), and what the program reckons is, too:
  a breakdown released from a folded journal (`TransferColumns`), rescaled for a
  conversion (`ExchangeColumns`) or carved out for a spin-off (`SpinoffColumns`), and
  the breakdowns a statement of purchases settles down the chain of onward moves
  (`AgainEntries`, `SettledEntries`).  Those are reckoned from journals that fold, so
  `ColumnsHold` is inductive only with `JournalsReplay`.  Then every account's
  journal folds into a book of sound positions (`AccountFolds`), with the lots of a
  position numbered apart: row ids are apart in the table, and so are records
  (`OriginsAreOwn`), which is where the unique index and `PairedTable` come in; and
  each lot names a row folded before it (`LotsAreTraced`).
* `BasisAlwaysConserved`: with `AppAhead = 0`, `BasisConserved`, the sums over all
  accounts and all rows included.  A sum over a finite set is told by the function
  that reckons it over the subsets (`Sums`), which gives unions, classes, bijections
  and opposites without induction over data (`SumUnion`, `SumClasses`,
  `SumCarried`, `SumOfPairs`: each by a leanest set at which it would fail,
  `Leanest`).  An entry folded adds to the basis of its book what it brings less
  what it sends (`FoldedBasis`), so a book holds what its journal's rows brought
  less what they sent (`ChainBasis`), so all accounts hold what all rows of the
  table did (`AccountsBalance`).  There the legs of each pair cancel
  (`LegsCancel`, `ShiftsCancel`, from `PairedTable`) and what is left was paid or
  sent away (`RowsWeigh`).  The last needs one more invariant, `PartsHold`: a row
  of no group is no leg of a conversion or a spin-off, and as a departure it tells
  its breakdown, which for imports is a fact about the whole run of events
  (`OfferedLaden`, `ImportParted`).
* `PairsAlwaysAgree`: `PairsAgree` for any accounts, requests and events.  The
  property alone is not inductive: a new row could join a group that stands, and a
  row numbered like another could be restated in its stead.  The invariant is
  `PairedTable`: rows are numbered apart, each row of a group is one of exactly two
  that describe one parcel (`AllPaired`), each group is a number the database
  has given or the name an importer gave the event whose record the row is
  (`Named`), and a record has one row (`Unique`, `Sourced`).  Every action writes a
  delta that keeps it (`KeepsTable`): whole groups
  leave, whole pairs come, under a name no remaining row carries.  A pair entered
  by hand is named after a tick nobody has seen (`NextGroupIsFree`); an import may
  reuse the name of a group, and then the row left under it would be the same
  record twice, which the unique index refuses (`ImportFits`).  That an import
  writes an event whole or not at all (`OfferedWhole`, `WrittenWhole`), and that
  stating purchases rewrites both legs of every onward move alike or neither
  (`RestatingRun`, `RestatedPairs`), are facts about runs over any number of
  events: both go by the least step at which they would fail (`SmallestOf`).
  Assumed of importers is what their code does: one group names one record, and a
  conversion is told with its cost.
* `PlacesAreKept`: `PlaceKept`, for any accounts, requests and events, from the
  same invariant.  What has become of a row is told by its account and its origin,
  so the proof shows that rows of one origin are one row (`OneOrigin`: the index
  over records, the ids, and that a record number belongs to one source), and that
  what a delta puts in for a row has its source and its stamp (`KeepsPlaces`).  An
  edit and a restated breakdown keep both (`RestatedKeepPlaces`), a new row has an
  origin of its own (`NewKeepPlaces`).  A correction does because it may not stand
  beside the row of its record, so that row leaves with it, and its stamp is the
  one the door insists on (`ImportFits`).

**Transactions** (`JournalProofs`, its second part).

* `WhatIsJudgedStands`: `JudgesWhatStands` for any writers.  Mutual exclusion of the
  locks is not enough: a deletion locks the accounts it read on the pool, so one
  must know that the group of its row has no leg elsewhere by the time it judges.
  The invariant `Isolated` says so: every request's accounts cover the rows it
  will touch (`Wanted`), and every delta is `Lawful`, that is, on the accounts
  held, and each of its rows either restates a row in its account and group or
  is new and of a group nobody named before (`Continues`).  One lemma per kind
  of request proves its delta lawful from what was read (`CreateLawful`, ...,
  `ImportLawful`); `KnowsLater` that a lawful write on other accounts leaves what
  a transaction knows.
* `RowsAreNumbered`: the same invariant without the transactions: rows typed, a
  number to a row, and no hand entry in a group an importer named.
* `TransactionsImplementTheJournal`: `ImplementsJournal`, so the refinement, for any
  writers.  A committed delta was reckoned from what the transaction read of the
  accounts it holds; the proof shows that reckoned from the whole table it would be
  the same delta, kind by kind (`HandAlike`, `RestateAlike`, `TransferAlike`,
  `DeleteAlike`, `StateAlike`, `ImportAlike`): the check folds only journals of
  accounts that are held (`CheckedAlike`), the stamp of an instant is that of a row
  on a held account (`StampedAlike`), a group has both its legs there
  (`SamePair`), and the run of onward moves a statement follows, which leaves an
  account only through a pair, ends at the same step (`OnwardLeast`,
  `OnwardAlike`).  Isolation alone is not enough for it.  The invariant `Refining`
  adds `PairedTable`, because a deletion or a statement judged from half a pair
  would differ, and that every request is one `Journal` knows (`Meant`): that the
  accounts of an owner's request are open while it holds them, and that the rows an
  import names stand where the importer read them (`Reported`), for it reads them
  before it locks.  One of them that has gone by the time it judges refuses the
  import; one restated meanwhile has kept its account, record and stamp, so the
  delta still asks what it would ask of the row as it is (`PlaceAlike`,
  `RecordKept`, `ImportAlike`).
* `WritersKeepTheJournal`: what is proved of the atomic steps then holds of the
  transactions: `PairsAgree` and `PlaceKept`.
* `WritersLeaveSoundLots`: and, with `AppAhead = 0`, `JournalsReplay`, `LotsSound`
  and `BasisConserved`.

**Mirror** (`MirrorProofs`).

* `MirrorIsACopy`: `Mirror` implements `BrokerCopy`: whatever the mirror held and
  however readings overtake each other, a sync makes its live rows the records of
  one reading, each as often as read.  The heart is the matching: rows and
  records of a key are paired by age up to the smaller number, the rest of the
  rows go, the rest of the records come (`Typed` is the invariant, with the shape
  of the pairing as lemmas over finite sets and sequences).
* `RowsAreKept`: of the live rows of a key as many stay as the reading has records.
* `ExplanationsFollow`: explanations move with their rows and are neither added nor
  lost by a sync.

**Syncs** (`SyncRunsProofs`): `TypeCorrect`, `SlotIsTheRuns` and `LogIsClosed` from
one invariant `Closed`, for any number of workers.  Its parts are the types and
bounds of what a run carries between its steps (`InOrder`), `Slots` and `LogClosed`
itself.  `SlotHeld` is not inductive: which run has the job must be known.  `Slots`
says that at most one run holds the job, only while the job is running, and that
the runs which no longer hold it (`Overtaken`) are no more than River gave up on
alive.  Each step is one of a few kinds (`StepKinds`): it leaves the runs alone,
moves one on, ends one, takes one up, or changes the job under all of them; what a
kind does to `Slots` and to the count of open entries is proved once
(`SlotsStep`, `LogClosedStep`).  `RefusedStaysRefused` is from `Closed` and `Dead`:
a refused token is one the broker no longer accepts, so it is not the token of an
active connection and does not come back as a new one.

**Sign-in** (`SignInProofs`): `OwnerIsOne` from `Owned` (types, and that what was
checked of a member still holds where it is acted on, which is why the owner
check may stand in a statement of its own); `LocksHold` from `Guarded`: while a
lock is in force, those that slipped through it and those that still may are no
more than were past the gate when it came.

**Telegram** (`TelegramProofs`): `ToldOnceAndMarked` from `Typed`, `Told` (a message
sent and not yet marked is the sender's, and a repeated one has a failure to
account for it) and `Counted` (each time an update was acted on, and the one to
come, has a failure or a bot given to account for it).

**Progress** (`JobProgressProofs`): `ScreenIsTrue` from `Screen`: a job that runs and
was recorded was confirmed within a beat, a row whose job has stopped is no
younger than the end of it, and while no write has failed a row has the stage
written last.  Of the times the proof uses only that a beat is shorter than the
age at which a row is shown no more, and that age no longer than the one at which
it is swept.

The assumptions are the named ones of the modules (`DivScale` is positive,
`AppAhead` a natural number, accounts are finitely many, requests are rows told as
columns hold them, a beat is shorter than a row's age, worlds have positive bounds, and so on); TLC evaluates them in the runs.

Only model-checked:

* the registry, the rebuild, the reminders and the jobs' clock: what they hold is
  reckoned by folds over rows, facts or pauses;
* `LocksLengthen` (a power of two) and `SessionsEnd`;
* everything with fairness: `EveryRequestEnds`, `Converges`, `Settles`, `Answered`.

## What is not modelled, and the plan

1. `SessionsEnd` of `SignIn` and the safety parts of `Registry` (`RunSettles`).
2. Credit cards: the reckoning of debt and grace over journal rows as an algorithm
   against its definition; then deposits, loans and taxes, which are pure.

Other known limits: transactions take statements, transfers and imports from
small catalogues, and arrivals, edits and money transfers, which take the same
path through the locks, are left to `Journal`; the T-Invest projection enters the
journal's model only as the deltas it asks for, and the journal enters the
rebuild's as what folds; currency amounts are small integers, and the 64-bit
width of minor units is not modelled because the code bounds amounts at the door.
