------------------------------ MODULE Journal ------------------------------
(***************************************************************************)
(* The operations journal as its callers see it: a table of rows that      *)
(* every entry of operation.Service changes in one atomic step.  JournalTx *)
(* opens the step into the transaction that makes it, and implements this  *)
(* module.                                                                 *)
(*                                                                         *)
(* What may be asked for comes from small sets, so that a configuration    *)
(* chooses the questions of its run; MaxRows and MaxClock bound the table  *)
(* and the number of rows ever inserted.                                   *)
(***************************************************************************)
EXTENDS HandEntries, ImportDelta

CONSTANTS
  Accounts,       \* the family's accounts
  HandRows,       \* rows a person may enter, or restate a row to
  Transfers,      \* parameters of CreateTransfer
  MoneyTransfers, \* parameters of CreateMoneyTransfer
  ArrivalsAsked,  \* parameters of CreateArrival
  Statements,     \* breakdowns a person may state for an arrival
  Exchanges,      \* parameters of CreateExchange
  Spinoffs,       \* parameters of CreateSpinoff
  Events,         \* candidates of importers
  Closable,       \* accounts the family may archive
  MaxRemoved,     \* how many rows one delta removes
  MaxRows, MaxClock

\* A row has a day and a place in it, or place 0: none was told.
Dated(r) == r.day \in Int /\ r.at \in Int

\* The family has finitely many accounts.
ASSUME AccountsAssumption == IsFiniteSet(Accounts)

\* Requests are rows of the table; an event is one row or the two legs of a
\* pair, and its place in a day is inherited, never chosen.  A row entered by
\* hand belongs to no group; importers name theirs after their own records
\* (transferGroupID, groupFor), and an upload has none.  A conversion is
\* reported with its cost (BuildExchange, BuildSpinoff).  ext stands for a
\* record of one source, as a lot's origin does (lotOrigin); a row entered by
\* hand has none.
ASSUME RequestsAssumption ==
  /\ MaxClock \in Nat /\ Closable \subseteq Accounts
  /\ \A op \in HandRows : IsRow(op) /\ Dated(op) /\ op.group = 0 /\ op.ext = 0
  /\ \A p \in Transfers \cup MoneyTransfers \cup ArrivalsAsked \cup Exchanges \cup Spinoffs :
       p.day \in Int
  /\ \A e \in Events :
       /\ DOMAIN e = {1} \/ DOMAIN e = {1, 2}
       /\ \A k \in DOMAIN e :
            /\ IsRow(e[k]) /\ Dated(e[k]) /\ e[k].stamp = 0 /\ e[k].ext \in Nat
            /\ e[k].group \notin 1..MaxClock
            /\ OwnedByHand(e[k]) => e[k].group = 0
            /\ CorporateLeg(e[k]) => LotsCost(e[k].lots) = e[k].amount
  /\ \A e, f \in Events : e[1].group # 0 /\ e[1].group = f[1].group =>
       \A k \in DOMAIN e \cap DOMAIN f : SameRecord(e[k], f[k])
  /\ \A e, f \in Events : \A k \in DOMAIN e, l \in DOMAIN f :
       e[k].ext # 0 /\ e[k].ext = f[l].ext => e[k].src = f[l].src

\* What a request or a record says is told as columns hold it, the parts of a
\* breakdown too.  A spin-off's terms are checked before a journal is read
\* (checkSpinoffParams).
ASSUME ColumnsAssumption ==
  /\ \A op \in HandRows : IsEntry(op)
  /\ \A e \in Events : \A k \in DOMAIN e : IsEntry(e[k])
  /\ \A p \in Transfers \cup MoneyTransfers \cup ArrivalsAsked \cup Exchanges \cup Spinoffs :
       p.day \in Nat \ {0}
  /\ \A p \in Transfers : {p.qty, p.basis} \subseteq Int
  /\ \A p \in MoneyTransfers : {p.amount, p.cur, p.received, p.receivedCur} \subseteq Int
  /\ \A p \in ArrivalsAsked : {p.qty, p.cur} \subseteq Int /\ p.pieces \in Seq(PieceColumns)
  /\ Statements \subseteq Seq(PieceColumns)
  /\ \A p \in Exchanges : {p.qty, p.toQty} \subseteq Int
  /\ \A p \in Spinoffs : p.ratio \in (Nat \ {0}) \X (Nat \ {0}) /\ p.share \in 0..(DivScale - 1)

VARIABLES
  rows,      \* the table operations, as ListForEngine reads it
  clock,     \* the database clock: the last tick a row was stamped with
  archived   \* the accounts with status archived

vars == <<rows, clock, archived>>

After(d) == (rows \ d.remove) \cup d.add

\* A delta takes effect when it is accepted, whole, on accounts there are.
Accepted(d) ==
  /\ d.ok /\ d.add \cup d.remove # {}
  /\ AcctsOf(d.add \cup d.remove) \subseteq Accounts
  /\ Cardinality(After(d)) <= MaxRows
  /\ rows' = After(d)
  /\ UNCHANGED archived

\* The rows inserted take one tick of the database clock each.
Taking(ticks) == clock + ticks <= MaxClock /\ clock' = clock + ticks

Applied(d, ticks) == Accepted(d) /\ Taking(ticks)

\* A hand entry is refused on an archived account; what an importer or the
\* registry reports is not.
Open(d) == AcctsOf(d.remove \cup d.add) \cap archived = {}

ByHand(d, ticks) == Open(d) /\ Applied(d, ticks)

\* A row restated in place, or deleted, takes no tick.
InPlace(d) == ByHand(d, 0)

-----------------------------------------------------------------------------
Init == rows = {} /\ clock = 0 /\ archived = {}

DoCreate(ops) == \E op \in ops : ByHand(Create(rows, clock, op), 1)

\* An owner's row in place of imported ones.
DoReplace(ops) ==
  \E op \in ops, replace \in SUBSET {r \in rows : r.src # "manual"} :
     /\ replace # {} /\ Cardinality(replace) <= MaxRemoved
     /\ ByHand(CreateReplacing(rows, clock, op, replace), 1)

DoUpdate(ops) == \E old \in rows, op \in ops : InPlace(Update(rows, old, op))

DoDelete == \E op \in rows : InPlace(Delete(rows, op))

DoTransfer(asked) == \E p \in asked : ByHand(CreateTransfer(rows, clock, p), 2)

DoMoneyTransfer(asked) ==
  \E p \in asked : ByHand(CreateMoneyTransfer(rows, clock, p), 2)

DoArrival(asked) == \E p \in asked : ByHand(CreateArrival(rows, clock, p), 1)

\* The locks cover every account the shares went on to, restated or not.
DoStatePurchases(told) ==
  \E op \in rows, pieces \in told :
     /\ op.typ = "transfer_in"
     /\ OnwardAccounts(rows, op) \cap archived = {}
     /\ InPlace(StatePurchases(rows, op, pieces))

DoExchange(asked) == \E p \in asked : Applied(CreateExchange(rows, clock, p), 2)

DoSpinoff(asked) == \E p \in asked : Applied(CreateSpinoff(rows, clock, p), 2)

\* An importer's delta: at most two candidates, each new or the correction of
\* a record it removes, which then keeps its place in the day.
InheritsPlace(leg, remove) ==
  LET old == {r \in remove : r.acct = leg.acct /\ r.src = leg.src /\ r.ext = leg.ext}
  IN IF old = {} THEN leg ELSE [leg EXCEPT !.stamp = (CHOOSE r \in old : TRUE).stamp]

Corrected(candidate, remove) ==
  [k \in DOMAIN candidate |-> InheritsPlace(candidate[k], remove)]

Asked(events, remove) == [i \in DOMAIN events |-> Corrected(events[i], remove)]

AtMostTwo(reported) ==
  {<<>>} \cup {<<e>> : e \in reported}
    \cup {<<e, f>> : e \in reported, f \in reported}

DoImport(reported) ==
  \E events \in AtMostTwo(reported),
     remove \in SUBSET {r \in rows : r.src # "manual"} :
       /\ Cardinality(remove) <= MaxRemoved
       /\ Len(events) = 2 => events[1] # events[2]
       /\ Taking(2 * Len(events))
       /\ Accepted(ApplyImportDelta(rows, clock, Asked(events, remove), remove))

\* A family archives an account, or brings it back, between two entries.
DoArchive(some) ==
  \E a \in some :
     /\ archived' = IF a \in archived THEN archived \ {a} ELSE archived \cup {a}
     /\ UNCHANGED <<rows, clock>>

Next ==
  \/ DoCreate(HandRows) \/ DoReplace(HandRows) \/ DoUpdate(HandRows) \/ DoDelete
  \/ DoTransfer(Transfers) \/ DoMoneyTransfer(MoneyTransfers)
  \/ DoArrival(ArrivalsAsked) \/ DoStatePurchases(Statements)
  \/ DoExchange(Exchanges) \/ DoSpinoff(Spinoffs)
  \/ DoImport(Events) \/ DoArchive(Closable)

Spec == Init /\ [][Next]_vars

-----------------------------------------------------------------------------
(* Properties. *)

Book(a) == Compute(JournalOf(rows, a)).pos
Positions(a) ==
  LET Of(book) == {<<paper, book[paper]>> : paper \in DOMAIN book} IN Of(Book(a))

\* Rows are numbered by the database and stamped by its clock, or by an
\* importer's at most AppAhead ticks ahead of it, on accounts there are.
TypeOK ==
  /\ clock \in 0..MaxClock /\ archived \subseteq Accounts
  /\ \A r \in rows :
       /\ IsRow(r) /\ r.acct \in Accounts
       /\ r.id \in 1..clock /\ r.stamp \in 1..(clock + AppAhead)

\* Every account's journal folds: no entry accepted on one day is refused by a
\* later read (operation.Create, #17).
JournalsReplay == \A a \in Accounts : AccountReplays(rows, a)

\* Two legs describe one parcel: the same pieces on both sides of a transfer,
\* the same money on both sides of a corporate action.
OneParcel(r, s) ==
  /\ r.day = s.day
  /\ TransferLeg(r) =>
       /\ TransferLeg(s) /\ r.typ # s.typ /\ r.acct # s.acct
       /\ r.paper = s.paper /\ r.qty = s.qty
       /\ r.amount = s.amount /\ r.lots = s.lots
  /\ CorporateLeg(r) =>
       /\ {r.typ, s.typ} \in {{"exchange_out", "exchange_in"}, {"spinoff_out", "spinoff_in"}}
       /\ r.acct = s.acct /\ r.paper # s.paper
       /\ r.amount = s.amount /\ LotsCost(r.lots) = LotsCost(s.lots)

\* A transfer, a conversion or a spin-off stands as two legs or not at all, and
\* the legs describe one parcel (CreateTransfer, Delete, StatePurchases,
\* pairedLegs).
PairsAgree ==
  \A r \in rows : r.group # 0 =>
    /\ Cardinality(Legs(rows, r.group)) = 2
    /\ \A s \in Legs(rows, r.group) \ {r} : OneParcel(r, s)

Released(p) ==
  Total([i \in DOMAIN p.realized |-> LotsCost(p.realized[i].released)])

PaidFor(r) ==
  IF r.typ = "buy" THEN r.fee - r.amount
  ELSE IF r.typ = "transfer_in" /\ r.group = 0 THEN r.amount ELSE 0

SentAway(r) == IF r.typ = "transfer_out" /\ r.group = 0 THEN r.amount ELSE 0

\* The sum of what the function w weighs.
Summed(w) == MapThenSumSet(LAMBDA x : w[x], DOMAIN w)

Accounted(a) ==
  LET In(book) == Summed([paper \in DOMAIN book |-> book[paper].cost + Released(book[paper])])
  IN In(Book(a))

\* What the family paid for its papers is held, or was given up by a disposal,
\* or left the family: moving a parcel between accounts, converting it or
\* carving a paper out of it neither loses nor doubles a unit of cost (#60).  A
\* move whose basis was stated by hand is the documented exception.
BasisConserved ==
  (\A r \in rows : r.typ = "transfer_out" /\ r.group # 0 => r.lots # <<>>)
    => Summed([a \in Accounts |-> Accounted(a)])
           = Summed([r \in rows |-> PaidFor(r)]) - Summed([r \in rows |-> SentAway(r)])

\* A position is its queue of lots: the lots add up to it, stand in order of
\* acquisition, undated first, and hold nothing negative (Position.Lots).
QueueSound ==
  \A a \in Accounts : \A pos \in Positions(a) :
    LET p == pos[2]
    IN /\ LotsUnits(p.lots) = p.qty /\ LotsCost(p.lots) = p.cost
       /\ \A i \in DOMAIN p.lots :
            /\ p.lots[i].qty >= 0 /\ p.lots[i].cost >= 0
            /\ i > 1 => p.lots[i - 1].day <= p.lots[i].day

\* A lot's number is permanent and its own: no two lots an account holds share
\* one, and each names a row of that account which brought it (LotID).
LotsTraced ==
  \A a \in Accounts :
    LET OwnNumbers(held) ==
          \A x, y \in held : x.lot = y.lot => x = y
        Brought(x) ==
          \E r \in RowsOf(rows, a) :
            /\ LotOrigin(r) = x.lot[1] /\ r.paper = x.paper
            /\ r.typ \in Arrivals \cup {"buy"}
            /\ x.lot[2] \in 0..Len(r.lots)
        Places(pos) == {[paper |-> pos[1], at |-> i, lot |-> pos[2].lots[i].lot] :
                          i \in DOMAIN pos[2].lots}
        Traced(held) == OwnNumbers(held) /\ \A x \in held : Brought(x)
    IN Traced(UNION {Places(pos) : pos \in Positions(a)})

\* Each position is a sound queue of lots that keep their numbers.
LotsSound == QueueSound /\ LotsTraced

\* What has become of row r, where it has not moved to another moment.
Restated(r) ==
  {x \in rows' : /\ x.acct = r.acct /\ LotOrigin(x) = LotOrigin(r)
                 /\ x.day = r.day /\ x.at = r.at}

\* Two rows that stay on their day stay in their order, whoever rewrites them:
\* an edit and a corrected broker record fold where the original did, so a
\* FIFO tie-break never moves (Update, checkInheritedStamps).
PlaceKept ==
  [][\A r, s \in rows : r.acct = s.acct =>
       \A r2 \in Restated(r), s2 \in Restated(s) :
         FoldsBefore(r, s) <=> FoldsBefore(r2, s2)]_vars
=============================================================================
