---------------------------- MODULE MCJournalTx ----------------------------
(* Two catalogues of requests for the run of JournalTx. *)
EXTENDS JournalTx

Row(acct, typ, day, qty, amount) ==
  [Blank EXCEPT !.acct = acct, !.typ = typ, !.paper = "A", !.day = day,
                !.qty = qty, !.amount = amount]

Move(from, to, day, qty) ==
  [from |-> from, to |-> to, paper |-> "A", day |-> day, qty |-> qty, basis |-> -1]

Nothing == {}

\* One parcel, wanted on both accounts at once.
Parcel == {Row(1, "buy", 1, 1, -4)}
BothWays == {Move(1, 2, 1, 1), Move(2, 1, 1, 1)}

\* A broker's record and its correction.
Report(amount) ==
  <<[Row(1, "buy", 1, 1, amount) EXCEPT !.src = "tinvest", !.ext = 1, !.at = 1]>>
Reports == {Report(-4), Report(-3)}

\* Shares that came from elsewhere, moved on while their purchases are stated.
Gift ==
  {<<[Row(1, "transfer_in", 1, 2, 0) EXCEPT !.src = "tinvest", !.ext = 1, !.at = 1]>>}
Onward == {Move(1, 2, 2, 1)}
Told == {<<[lot |-> NoLot, qty |-> 2, cost |-> 5, day |-> 1]>>}

Asks ==
  [traders |-> [rows |-> Parcel, moves |-> BothWays, told |-> {}, sums |-> {-4, -3}, until |-> 3],
   heirs   |-> [rows |-> {}, moves |-> Onward, told |-> Told, sums |-> {0}, until |-> 4]]

AllMoves  == BothWays \cup Onward
AllEvents == Reports \cup Gift

VARIABLE family   \* the family whose members are writing

OfFamily(req) ==
  CASE req[1] = "create"   -> req[2] \in Asks[family].rows
    [] req[1] = "transfer" -> req[2] \in Asks[family].moves
    [] req[1] = "state"    -> req[3] \in Asks[family].told
    [] req[1] = "import"   -> \A i \in DOMAIN req[2] : req[2][i][1].amount \in Asks[family].sums
    [] OTHER               -> TRUE

\* What is asked of a stored row may be asked by anyone, as long as the family
\* is watched.
AskedBy(req) ==
  /\ clock + TicksOf(req) <= Asks[family].until
  /\ OfFamily(req)

FamiliesInit == TxInit /\ family \in DOMAIN Asks

FamiliesNext ==
  \/ \E w \in Writers : Ask(w, {req \in Requests : AskedBy(req)}) /\ UNCHANGED family
  \/ \E w \in Writers : Lock(w) /\ UNCHANGED family
  \/ \E w \in Writers : Read(w) /\ UNCHANGED family
  \/ \E w \in Writers : Commit(w) /\ UNCHANGED family
  \/ \E w \in Writers : Abort(w) /\ UNCHANGED family
  \/ ArchiveRow /\ UNCHANGED family

FamiliesSpec == FamiliesInit /\ [][FamiliesNext]_<<txvars, family>> /\ Fairness

=============================================================================
