------------------------------ MODULE JournalTx ------------------------------
(***************************************************************************)
(* The transactions behind Journal's steps (Store.withAccountsLocked and   *)
(* the entries that run in it).  A request reads on the pool which         *)
(* accounts it will touch, locks them one at a time in order, reads under  *)
(* the locks, judges what it read and commits; other requests, importers   *)
(* and the archiving of an account interleave with every step, and a       *)
(* transaction may be lost at any moment.                                  *)
(*                                                                         *)
(* The row lock of an account is in the hands of the one transaction whose *)
(* held names it.  The page a request was made from and its read on the    *)
(* pool are one step: what goes stale between them goes stale after it as  *)
(* well.  Inserts are seen by nobody before the commit, so a commit writes *)
(* and ends the transaction in one step.                                   *)
(***************************************************************************)
EXTENDS Journal

CONSTANT Writers

VARIABLE tx   \* the transaction each writer is in

txvars == <<rows, clock, archived, tx>>

Idle == [step |-> "idle", req |-> <<>>, want |-> {}, held |-> {}, seen |-> {}]

-----------------------------------------------------------------------------
(* Requests: a kind and its arguments; a stored row is named by its id. *)

RowsNamed(some, ids) == {r \in some : r.id \in ids}

\* An importer works out its delta, stamps included, from rows it read earlier.
ImportsAsked ==
  LET Delta(events, remove) ==
        <<"import", Asked(events, remove), {r.id : r \in remove}>>
  IN {Delta(events, remove) :
        events \in {<<>>} \cup {<<e>> : e \in Events},
        remove \in {s \in SUBSET {r \in rows : r.src # "manual"} :
                      Cardinality(s) <= MaxRemoved}}

Requests ==
  {<<"create", op>> : op \in HandRows} \cup {<<"transfer", p>> : p \in Transfers}
    \cup {<<"delete", r.id>> : r \in rows}
    \cup {<<"state", r.id, pieces>> :
            r \in {x \in rows : x.typ = "transfer_in" /\ x.group = 0}, pieces \in Statements}
    \cup ImportsAsked

ByImporter(req) == req[1] = "import"

OnRow(some, id, Answer(_), missing) ==
  IF RowsNamed(some, {id}) = {} THEN missing
  ELSE Answer(CHOOSE r \in some : r.id = id)

\* The accounts a request will lock, as far as a read of the rows tells.
WantedBy(req) ==
  CASE req[1] = "create"   -> {req[2].acct}
    [] req[1] = "transfer" -> {req[2].from, req[2].to}
    [] req[1] = "delete"   ->
         OnRow(rows, req[2], LAMBDA r : AcctsOf({r} \cup Legs(rows, r.group)), {})
    [] req[1] = "state"    -> OnRow(rows, req[2], LAMBDA r : OnwardAccounts(rows, r), {})
    [] req[1] = "import"   -> AcctsOf(LegsOf(req[2]) \cup RowsNamed(rows, req[3]))

Refusal == [ok |-> FALSE, remove |-> {}, add |-> {}]

\* StatePurchases under its locks: refused when the shares have reached an
\* account the first read did not name.
StatedUnderLocks(seen, held, id, pieces) ==
  OnRow(seen, id,
        LAMBDA r : IF OnwardAccounts(seen, r) \subseteq held
                   THEN StatePurchases(seen, r, pieces) ELSE Refusal,
        Refusal)

\* importRemovals: a row that is gone refuses the delta.
ImportedUnderLocks(seen, add, ids) ==
  IF Cardinality(RowsNamed(seen, ids)) = Cardinality(ids)
  THEN ApplyImportDelta(seen, clock, add, RowsNamed(seen, ids)) ELSE Refusal

\* The delta a request comes to, over the rows read under its locks.
DeltaOf(req, seen, held) ==
  CASE req[1] = "create"   -> Create(seen, clock, req[2])
    [] req[1] = "transfer" -> CreateTransfer(seen, clock, req[2])
    [] req[1] = "delete"   -> OnRow(seen, req[2], LAMBDA r : Delete(seen, r), Refusal)
    [] req[1] = "state"    -> StatedUnderLocks(seen, held, req[2], req[3])
    [] req[1] = "import"   -> ImportedUnderLocks(seen, req[2], req[3])

TicksOf(req) ==
  CASE req[1] = "create"   -> 1
    [] req[1] = "transfer" -> 2
    [] req[1] = "import"   -> 2 * Len(req[2])
    [] OTHER               -> 0

-----------------------------------------------------------------------------
TxInit == Init /\ tx = [w \in Writers |-> Idle]

Ask(w, asked) ==
  /\ tx[w].step = "idle"
  /\ \E req \in asked :
       tx' = [tx EXCEPT ![w] = [Idle EXCEPT !.step = "locking", !.req = req,
                                            !.want = WantedBy(req)]]
  /\ UNCHANGED vars

\* Wrong: the account named last is locked first.
LastFirst(t) ==
  LET left == t.want \ t.held
  IN IF t.req[1] = "transfer" /\ t.req[2].from \in left THEN t.req[2].from ELSE Min(left)

\* The lock a transaction waits for: the lowest account it does not hold.
NextLock(t) == Min(t.want \ t.held)

\* Wrong: the status is not read under the lock.
RefusedOn(t, a) == FALSE

\* A hand entry is refused on an archived account; the status is read with the
\* lock.
ClosedTo(t, a) == ~ByImporter(t.req) /\ a \in archived

Lock(w) ==
  LET Take(t, a) ==
        /\ \A v \in Writers : a \notin tx[v].held
        /\ tx' = [tx EXCEPT ![w] = IF ClosedTo(t, a) THEN Idle
                                   ELSE [t EXCEPT !.held = @ \cup {a}]]
  IN /\ tx[w].step = "locking" /\ tx[w].want # tx[w].held
     /\ Take(tx[w], NextLock(tx[w]))
     /\ UNCHANGED vars

\* Wrong: the journals are read while the locks are still being taken.
ReadEarly(t) == t.step = "locking"

\* Nothing is read before the last lock.
ReadyToRead(t) == t.step = "locking" /\ t.held = t.want

\* A journal is read for each account locked, and beside them what is read by
\* name wherever it stands: the rows a request names, the legs of a group, the
\* moves a statement follows.
Read(w) ==
  /\ ReadyToRead(tx[w])
  /\ tx' = [tx EXCEPT ![w].step = "judging", ![w].seen = rows]
  /\ UNCHANGED vars

Fits(d, ticks) ==
  /\ d.ok /\ d.add \cup d.remove # {}
  /\ Cardinality(After(d)) <= MaxRows /\ clock + ticks <= MaxClock

\* A judged transaction ends, and its locks go with it.
Leave(w) == tx[w].step = "judging" /\ tx' = [tx EXCEPT ![w] = Idle]

\* A request is written whole or refused.
Commit(w) ==
  LET Write(d, ticks) ==
        IF Fits(d, ticks) THEN Accepted(d) /\ Taking(ticks) ELSE UNCHANGED vars
      Judge(t) == Write(DeltaOf(t.req, t.seen, t.held), TicksOf(t.req))
  IN Leave(w) /\ Judge(tx[w])

\* A lost connection or a cancelled request rolls back.
Abort(w) ==
  /\ tx[w].step # "idle"
  /\ tx' = [tx EXCEPT ![w] = Idle]
  /\ UNCHANGED vars

\* Archiving is an update of the account's row: it waits for the row's lock.
ArchiveRow ==
  \E a \in Closable :
    /\ \A w \in Writers : a \notin tx[w].held
    /\ archived' = IF a \in archived THEN archived \ {a} ELSE archived \cup {a}
    /\ UNCHANGED <<rows, clock, tx>>

TxNext ==
  \/ \E w \in Writers : Ask(w, Requests) \/ Lock(w) \/ Read(w) \/ Commit(w) \/ Abort(w)
  \/ ArchiveRow

\* A transaction goes on as long as it can and, once it has judged, ends one way
\* or the other; the database hands a row's lock to its waiters in turn, so one
\* that waits is not passed over for ever.
Fairness ==
  \A w \in Writers : SF_tx(Lock(w)) /\ WF_tx(Read(w)) /\ WF_tx(Leave(w))

TxSpec == TxInit /\ [][TxNext]_txvars /\ Fairness

-----------------------------------------------------------------------------
(* Properties. *)

\* Every interleaving of transactions is a sequence of Journal's atomic steps:
\* no write is judged from rows another has changed since, no pair is written by
\* half, and no hand entry lands on an account archived before it (#17).
ImplementsJournal == Init /\ [][UNCHANGED vars \/ Next]_vars

\* What a transaction is judging is what the table holds, on every account it
\* has locked (WithAccountsLocked).
JudgesWhatStands ==
  \A w \in Writers : tx[w].step = "judging" =>
     {r \in tx[w].seen : r.acct \in tx[w].want} = {r \in rows : r.acct \in tx[w].want}

\* Every request is answered: the order of the locks lets no two transactions
\* wait for each other, opposite transfers included (accountLockSQL).
EveryRequestEnds ==
  \A w \in Writers : tx[w].step # "idle" ~> tx[w].step = "idle"

=============================================================================
