---------------------------- MODULE Materialize ----------------------------
(***************************************************************************)
(* The registry of corporate actions as a function of one account's        *)
(* journal (internal/corporateaction/materialize.go): the rows the         *)
(* recorded events ask the journal to hold, and the delta that brings the  *)
(* rows written last time into line with them.                             *)
(*                                                                         *)
(* An event is a record [id, kind, isin, on, ratio, result, share, src]:   *)
(* ratio is <<to, from>>, result the ISIN of the paper produced (NoIsin    *)
(* for a split), share the part of the basis a spin-off moves, in          *)
(* 1/DivScale.  ISINs are numbers in code order.  Notes on the rows, which *)
(* repeat the ratio and the source, are left out.                          *)
(***************************************************************************)
EXTENDS HandEntries, ImportDelta, SequencesExt

CONSTANTS
  PaperNo,   \* the catalogue rows, numbered in the order of their ids
  Isin,      \* the ISIN of each
  Roubles    \* the currency code of the rouble

Papers == DOMAIN PaperNo
NoIsin == 0

ASSUME RegistryAssumption ==
  /\ \A p \in Papers : PaperNo[p] \in 1..Cardinality(Papers) /\ Isin[p] \in Nat \ {NoIsin}
  /\ \A p, q \in Papers : PaperNo[p] = PaperNo[q] => p = q

\* A set of catalogue rows in the order of their ids.
InIdOrder(papers) == SetToSortSeq(papers, LAMBDA p, q : PaperNo[p] < PaperNo[q])

-----------------------------------------------------------------------------
(* Names. *)

\* externalIDFor: the event and the paper it happened to name both legs.
ExternalID(e, paper, leg) ==
  2 * (e.id * (Cardinality(Papers) + 1) + PaperNo[paper]) + leg - 1

\* groupFor: derived from the same parts, and from the account.
GroupFor(e, a, paper) == -(100 * ExternalID(e, paper, 1) + a)

NamedPaper(ext) ==
  CHOOSE p \in Papers : PaperNo[p] = (ext \div 2) % (Cardinality(Papers) + 1)

\* Wrong: ownership is read off the paper the row stands on.
OwnedByItsPaper(o, papers) == o.src = "registry" /\ o.paper \in papers

\* ownedByThisPaper: the name tells whose event wrote the row, on both legs.
Owned(o, papers) == o.src = "registry" /\ NamedPaper(o.ext) \in papers

-----------------------------------------------------------------------------
(* What the registry asks for. *)

\* The holding at the start of the day, and whether the journal folds.
HeldAtStartOf(working, paper, day) ==
  LET Of(book) == Provided(book.ok, PositionOf(book.pos, paper))
  IN Of(Compute(Sorted(FoldedBefore(working, day))))

HeldInRoubles(working, paper) ==
  LET First(rows) == rows # <<>> /\ rows[1].cur = Roubles
  IN First(SelectSeq(Sorted(working), LAMBDA r : r.paper = paper))

HasForeignSplit(working, paper, day) ==
  \E r \in working :
    r.typ = "split" /\ r.src # "registry" /\ r.paper = paper /\ r.day = day

\* An event waits while the catalogue has no row for the paper it produces.
Produced(e, catalogue) == {p \in catalogue : Isin[p] = e.result}

Counted(e, catalogue) == e.result = NoIsin \/ Produced(e, catalogue) # {}

Concerns(e, paper, working, held) ==
  /\ held.qty > 0
  /\ e.src = "known" /\ e.kind = "conversion" => HeldInRoubles(working, paper)
  /\ e.kind = "split" => ~HasForeignSplit(working, paper, e.on)

SplitRow(e, a, paper, held) ==
  [Blank EXCEPT !.acct = a, !.typ = "split", !.paper = paper, !.day = e.on,
                !.src = "registry", !.cur = held.cur, !.ratio = e.ratio]

\* The two legs of a conversion or a spin-off; a conversion takes the whole
\* holding.
BuiltPair(e, a, paper, result, held, working) ==
  IF e.kind = "conversion"
  THEN BuildExchange(working,
         [acct |-> a, from |-> paper, to |-> result, day |-> e.on, qty |-> held.qty,
          toQty |-> (held.qty * e.ratio[1]) \div e.ratio[2]])
  ELSE BuildSpinoff(working,
         [acct |-> a, from |-> paper, to |-> result, day |-> e.on, ratio |-> e.ratio,
          share |-> e.share])

Named(e, a, paper, legs) ==
  [k \in DOMAIN legs |->
     [legs[k] EXCEPT !.ext = ExternalID(e, paper, k),
                     !.group = IF Len(legs) = 2 THEN GroupFor(e, a, paper) ELSE 0]]

\* rowsFor: one split row, or the pair; ok tells whether the holding can take it.
PairRows(e, a, paper, b) == Provided(b.ok, Named(e, a, paper, <<b.out, b.in>>))

RowsFor(e, a, paper, catalogue, held, working) ==
  IF e.kind = "split"
  THEN Provided(TRUE, Named(e, a, paper, <<SplitRow(e, a, paper, held)>>))
  ELSE PairRows(e, a, paper,
         BuiltPair(e, a, paper, CHOOSE p \in Produced(e, catalogue) : TRUE, held, working))

\* The working journal with the rows of an event, which fold after the rows
\* asked for before them.
WithRows(working, unit, n) ==
  working \cup {[unit[k] EXCEPT !.id = n + k] : k \in DOMAIN unit}

\* The events oldest first, each on every catalogue row of its ISIN.
Pairings(events, papers, catalogue) ==
  LET Pairs(counted, rowsOf) ==
        FlattenSeq([i \in DOMAIN counted |->
                      [j \in DOMAIN rowsOf |-> <<counted[i], rowsOf[j]>>]])
  IN Pairs(SelectSeq(events, LAMBDA e : Counted(e, catalogue)), InIdOrder(papers))

\* desired: events act in date order over a growing journal, so each acts on the
\* holding the earlier ones left.  It answers a sequence of units, the rows of
\* one event each, and fails when the journal does not fold.
Asking(st, unit) ==
  IF unit.ok
  THEN [want |-> Append(st.want, unit.pos),
        working |-> WithRows(st.working, unit.pos, 2 * Len(st.want))]
  ELSE st

AskedOn(st, e, a, paper, catalogue, held) ==
  IF held.ok /\ Concerns(e, paper, st.working, held.pos)
  THEN Provided(TRUE, Asking(st, RowsFor(e, a, paper, catalogue, held.pos, st.working)))
  ELSE Provided(held.ok, st)

Desired(base, a, events, papers, catalogue) ==
  LET Act(st, ep) ==
        AskedOn(st, ep[1], a, ep[2], catalogue,
                HeldAtStartOf(st.working, ep[2], ep[1].on))
  IN Run(Act, [want |-> <<>>, working |-> base], Pairings(events, papers, catalogue))

-----------------------------------------------------------------------------
(* The difference from what was written last time. *)

SameRow(want, stored) ==
  /\ want.ext = stored.ext /\ want.typ = stored.typ /\ want.cur = stored.cur
  /\ want.amount = stored.amount /\ want.day = stored.day
  /\ want.paper = stored.paper /\ want.qty = stored.qty
  /\ want.ratio = stored.ratio /\ want.lots = stored.lots

\* Wrong: a row of the same name is taken for the same row.
StandsByName(unit, owned) ==
  \A k \in DOMAIN unit : \E o \in owned : o.ext = unit[k].ext

\* An event is compared whole: both legs stand, or both are rewritten.
Stands(unit, owned) ==
  \A k \in DOMAIN unit : \E o \in owned : SameRow(unit[k], o)

\* A rewritten row keeps its place in the day.
InPlaceOf(leg, owned) ==
  LET old == {o \in owned : o.ext = leg.ext}
  IN IF old = {} THEN leg ELSE [leg EXCEPT !.stamp = (CHOOSE o \in old : TRUE).stamp]

Difference(want, owned) ==
  LET Called(unit) == {unit[k].ext : k \in DOMAIN unit}
      Kept == {o \in owned : \E i \in DOMAIN want :
                 o.ext \in Called(want[i]) /\ Stands(want[i], owned)}
      Rewritten(changed) ==
        [i \in DOMAIN changed |->
           [k \in DOMAIN changed[i] |-> InPlaceOf(changed[i][k], owned)]]
  IN [remove |-> owned \ Kept,
      add    |-> Rewritten(SelectSeq(want, LAMBDA u : ~Stands(u, owned)))]

\* Wrong: the registry's own rows stay in the journal it decides from.
HoldingNothingOut(rows, a, papers) == RowsOf(rows, a)

\* The registry's own rows for these papers are held out of the journal, or a
\* split would be decided on a holding that already has it.
HeldOut(rows, a, papers) == {o \in RowsOf(rows, a) : ~Owned(o, papers)}

\* The delta is applied unless it is empty.
Untouched == [ok |-> TRUE, remove |-> {}, add |-> {}, asked |-> 0]

Counting(x, asked) == [ok |-> x.ok, remove |-> x.remove, add |-> x.add, asked |-> asked]

AppliedTo(rows, clock, d) ==
  IF d.remove = {} /\ d.add = <<>> THEN Untouched
  ELSE Counting(ApplyImportDelta(rows, clock, d.add, d.remove), Len(d.add))

InLineWith(rows, clock, r, owned) ==
  IF r.ok THEN AppliedTo(rows, clock, Difference(r.pos.want, owned))
  ELSE [Untouched EXCEPT !.ok = FALSE]

\* forAccount, under the account's lock: the rows its events ask for, and the
\* difference from those it holds.  The one outcome, as a set.
Brought(rows, clock, a, events, papers, catalogue) ==
  {InLineWith(rows, clock, Desired(HeldOut(rows, a, papers), a, events, papers, catalogue),
           {o \in RowsOf(rows, a) : Owned(o, papers)})}

=============================================================================
