---------------------------- MODULE ImportDelta ----------------------------
(***************************************************************************)
(* The import door (internal/operation/import.go): one delta of an         *)
(* importer, a set of rows to remove and a sequence of candidates to add,  *)
(* judged together, then one at a time when the whole does not replay.     *)
(*                                                                         *)
(* A candidate is a sequence of legs, the departing leg first: one row, or *)
(* the two legs of one event sharing a group.  A leg with a stamp inherits *)
(* it from a row the delta removes.                                        *)
(***************************************************************************)
EXTENDS Ledger

LegSet(legs) == {legs[i] : i \in DOMAIN legs}

LegsOf(candidates) == UNION {LegSet(candidates[c]) : c \in DOMAIN candidates}

\* importCandidates: day, instant, then the caller's order.
Place(candidates, i) ==
  LET b == candidates[i][1]
      Sooner(j) ==
        LET a == candidates[j][1]
        IN \/ a.day < b.day
           \/ a.day = b.day /\ (SoonerInstant(a, b) \/ (a.at = b.at /\ j < i))
  IN Cardinality({j \in DOMAIN candidates : j = i \/ Sooner(j)})

Ordered(candidates, key) ==
  [k \in DOMAIN candidates |->
     key[CHOOSE i \in DOMAIN candidates : Place(candidates, i) = k]]

\* checkImportContract and pairedLegs: what an importer promises.
ImportContract(legs) ==
  /\ \A i \in DOMAIN legs :
       LET o == legs[i]
       IN /\ o.src # "manual" /\ o.ext # 0
          /\ o.lots # <<>> => CorporateLeg(o) \/ (o.typ = "transfer_in" /\ o.group = 0)
          /\ o.group # 0 => CarriesBasis(o)
          /\ CorporateLeg(o) => o.src = "registry" /\ o.group # 0 /\ o.lots # <<>>
          /\ TransferLeg(o) /\ (o.typ = "transfer_out" \/ o.group # 0) => o.amount = 0
  /\ legs[1].group = 0 => Len(legs) = 1
  /\ legs[1].group # 0 =>
       /\ Len(legs) = 2
       /\ legs[2].group = legs[1].group
       /\ legs[1].day = legs[2].day /\ legs[1].cur = legs[2].cur
       /\ IF CorporateLeg(legs[1])
          THEN /\ <<legs[1].typ, legs[2].typ>> \in {<<"exchange_out", "exchange_in">>,
                                                    <<"spinoff_out", "spinoff_in">>}
               /\ legs[1].acct = legs[2].acct /\ legs[1].paper # legs[2].paper
               /\ legs[1].amount = legs[2].amount
          ELSE /\ legs[1].typ = "transfer_out" /\ legs[2].typ = "transfer_in"
               /\ legs[1].acct # legs[2].acct /\ legs[1].paper = legs[2].paper
               /\ legs[1].qty = legs[2].qty

\* Wrong: half of a pair may go.
RemovableAlone(rows, remove) ==
  remove \subseteq rows /\ \A r \in remove : r.src # "manual"

\* importRemovals: nothing entered by hand, no half of a pair.
Removable(rows, remove) ==
  /\ remove \subseteq rows
  /\ \A r \in remove : r.src # "manual"
  /\ Whole(rows, remove)

\* checkInheritedStamps: a stated place in a day is a removed row's.
StampsInherited(legs, remove) ==
  \A leg \in legs : leg.stamp # 0 =>
     \E r \in remove : r.acct = leg.acct /\ r.stamp = leg.stamp

\* Wrong: one tick past what the delta was given.
BaseTooLate(kept, clock, legs) ==
  2 + Max({clock + AppAhead} \cup {r.stamp : r \in kept \cup legs})

\* The importer's stamps start from its own clock, or after the youngest row.
Base(kept, clock, legs) ==
  1 + Max({clock + AppAhead} \cup {r.stamp : r \in kept \cup legs})

\* Wrong: a corrected row goes to the end of its day.
StampedAnew(leg, tick, clock, base) ==
  [leg EXCEPT !.id = clock + tick, !.stamp = base + tick - 1]

\* stamped: a leg keeps the stamp it inherits or takes the next; two ticks are
\* set aside for every candidate, at its place in the delta.
StampedLeg(leg, tick, clock, base) ==
  [leg EXCEPT !.id = clock + tick, !.stamp = IF @ # 0 THEN @ ELSE base + tick - 1]

Stamped(candidates, clock, base) ==
  [i \in DOMAIN candidates |->
     [k \in DOMAIN candidates[i] |->
        StampedLeg(candidates[i][k], 2 * Place(candidates, i) + k - 2, clock, base)]]

OnEveryLeg(legs, lots) ==
  [k \in DOMAIN legs |-> [legs[k] EXCEPT !.lots = lots, !.amount = LotsCost(lots)]]

\* releaseBasis: a departing leg's parcel is released at its own place in the
\* journal and put on the arriving leg too.
ReleaseBasis(pending, legs) ==
  LET out == legs[1]
      Released(r) == Provided(r.ok, OnEveryLeg(legs, r.lots))
  IN IF out.typ # "transfer_out" THEN Provided(TRUE, legs)
     ELSE Released(Release({x \in RowsOf(pending, out.acct) : FoldsBefore(x, out)},
                           out.paper, out.qty))

\* offerTogether: every candidate over what the removals leave, but those that
\* are not valid.
WithLegs(pending, b) ==
  Provided(b.ok, IF b.ok THEN pending \cup LegSet(b.pos) ELSE pending)

Offer(pending, legs) ==
  IF \A k \in DOMAIN legs : ValidImported(legs[k])
  THEN WithLegs(pending, ReleaseBasis(pending, legs))
  ELSE Provided(TRUE, pending)

OfferTogether(kept, candidates) == Run(Offer, kept, candidates)

\* offerOneAtATime: the candidate a journal cannot hold is left out.
JournalsFold(rows, accts) == \A a \in accts : AccountReplays(rows, a)

IfHeld(pending, legs, after) ==
  Provided(TRUE, IF after.ok /\ JournalsFold(after.pos, AcctsOf(LegSet(legs)))
                 THEN after.pos ELSE pending)

OfferIfHeld(pending, legs) == IfHeld(pending, legs, Offer(pending, legs))

OfferOneAtATime(kept, candidates) == Run(OfferIfHeld, kept, candidates)

\* The whole delta when every journal folds with it; otherwise, when the journals
\* fold without it, the candidates that fit.
IfTogether(kept, candidates, accts, together) ==
  IF together.ok /\ JournalsFold(together.pos, accts) THEN together
  ELSE IF JournalsFold(kept, accts) THEN OfferOneAtATime(kept, candidates)
  ELSE Provided(FALSE, kept)

Offered(kept, candidates, accts) ==
  IfTogether(kept, candidates, accts, OfferTogether(kept, candidates))

\* The unique index over account, source and record.
SameRecord(r, s) == r.acct = s.acct /\ r.src = s.src /\ r.ext = s.ext

Unique(rows) == \A r, s \in rows : r.ext # 0 /\ SameRecord(r, s) => r = s

\* importCandidates: a delta names a record once.
NamedOnce(add) ==
  \A i, j \in DOMAIN add : \A k \in DOMAIN add[i], l \in DOMAIN add[j] :
     SameRecord(add[i][k], add[j][l]) => i = j /\ k = l

\* What is inserted: the candidates' legs that were accepted, with the breakdowns
\* the offer settled.
Inserted(legs, accepted) ==
  WithBreakdowns({leg \in legs : \E x \in accepted : x.id = leg.id}, accepted)

\* insertBatch and the removals: the outcome, every journal touched folded once
\* more as stored.
Written(rows, add, remove, kept, offer, stored) ==
  [ok     |-> /\ \A i \in DOMAIN add : ImportContract(add[i])
              /\ NamedOnce(add)
              /\ Removable(rows, remove)
              /\ StampsInherited(LegsOf(add), remove)
              /\ offer.ok /\ Unique(kept \cup stored)
              /\ Checked(rows, remove, stored, AcctsOf(remove \cup stored)),
   remove |-> remove, add |-> stored]

WrittenOf(rows, add, remove, kept, stamped, offer) ==
  Written(rows, add, remove, kept, offer, Inserted(LegsOf(stamped), offer.pos))

ImportAsked(rows, add, remove, kept, accts, stamped) ==
  WrittenOf(rows, add, remove, kept, stamped,
            Offered(kept, Ordered(add, stamped), accts))

ImportOver(rows, clock, add, remove, kept, accts) ==
  ImportAsked(rows, add, remove, kept, accts,
         Stamped(add, clock, Base(kept, clock, LegsOf(add))))

\* applyImportDeltaLocked: over the journals the delta touches.
ImportIn(rows, clock, add, remove, accts) ==
  ImportOver(rows, clock, add, remove, {r \in rows \ remove : r.acct \in accts}, accts)

ApplyImportDelta(rows, clock, add, remove) ==
  ImportIn(rows, clock, add, remove, AcctsOf(remove \cup LegsOf(add)))

=============================================================================
