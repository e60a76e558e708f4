------------------------------- MODULE Mirror -------------------------------
(* The mirror of one broker account (importer/tinvest/sync.go): the stored   *)
(* copy of the broker's records, brought into agreement with one reading of  *)
(* the account's whole history by SyncMirror, and the explanations the owner *)
(* wrote for records, which are keyed by content and not by row.             *)
(*                                                                           *)
(* A record is [id, body, paper, mark]: the broker's id, which may drift;    *)
(* the moment, type, currency, amount and quantity, which never change; the  *)
(* paper's identifiers, which the broker rewrites; and every attribute the   *)
(* content key is not built from (commission, state, price, ...).            *)
EXTENDS Naturals, Sequences, FiniteSets, Bags, FiniteSetsExt, SequencesExt

CONSTANTS Ids, Papers, Marks,         \* fields of a record
          MaxReadings,                \* moments told apart; later ones share the last
          Runs,                       \* syncs that may be under way at once
          Entries,                    \* manual operations that explain
          Requests,                   \* requests to explain, at once
          Worlds                      \* by name: what the broker and the owner may do

ASSUME MirrorAssumption == Ids \subseteq Nat \ {0}

VARIABLES world,     \* the world this is, for good
          broker,    \* the broker's history, a set of records
          changes,   \* how often it changed
          lost,      \* runs that ended without their write
          reading,   \* what each run read and when: NoReading outside a run
          clock,     \* readings so far: the runs' clocks, in their order
          rows,      \* the mirror, a sequence of rows
          explains,  \* content key -> the manual operation that explains it
          asked,     \* what each request to explain has checked
          connected  \* the connection exists

vars == <<world, broker, changes, lost, reading, clock, rows, explains, asked, connected>>

Bodies     == Worlds[world].bodies
MaxRecords == Worlds[world].records   \* records the broker holds at a time
MaxChanges == Worlds[world].changes   \* changes of the broker's history
MaxLost    == Worlds[world].lost      \* runs that fail
Using      == Worlds[world].runs      \* syncs made
Explaining == Worlds[world].entries   \* operations the owner explains with

Record == [id : Ids, body : Bodies, paper : Papers, mark : Marks]
Keys == Bodies \X Papers
NoReading == [at |-> 0, items |-> <<>>]
NothingAsked == [entry |-> "none", keys |-> {}]

(* contentKey: what a record is recognised by. *)
KeyOf(it) == <<it.body, it.paper>>
(* keyWithoutPaper *)
BodyOf(key) == key[1]

(* Wrong: copies recognised by content, so two equal operations become one. *)
DedupedByContent(items) ==
  [i \in {j \in DOMAIN items : \A k \in 1..(j - 1) : KeyOf(items[k]) # KeyOf(items[j])} |-> items[i]]

(* dedupInPage: the first copy of each broker id; an item keeps its number   *)
(* in the reading.                                                           *)
Deduped(items) ==
  [i \in {j \in DOMAIN items : \A k \in 1..(j - 1) : items[k].id # items[j].id} |-> items[i]]

(* Wrong: gone rows before live ones. *)
BeforeIfGone(a, b) == \/ rows[a].gone /\ ~rows[b].gone
                      \/ /\ rows[a].gone = rows[b].gone
                         /\ \/ rows[a].seen < rows[b].seen
                            \/ rows[a].seen = rows[b].seen /\ a < b

(* The order rows are compared in (readMirrorMatches): live rows before gone *)
(* ones, the oldest first. Rows of one sync have one first_seen_at and       *)
(* random ids, which stand in the order of the sequence (see Inserted).      *)
Before(a, b) == \/ ~rows[a].gone /\ rows[b].gone
                \/ /\ rows[a].gone = rows[b].gone
                   /\ \/ rows[a].seen < rows[b].seen
                      \/ rows[a].seen = rows[b].seen /\ a < b

(* The n-th item of a key finds the n-th row filed under it; an item beyond  *)
(* the last row finds none.                                                  *)
Standing(r) == Cardinality({q \in DOMAIN rows : rows[q].key = rows[r].key /\ (q = r \/ Before(q, r))})
Place(items, j) == Cardinality({i \in DOMAIN items : i <= j /\ KeyOf(items[i]) = KeyOf(items[j])})
Found(items) ==
  {m \in (DOMAIN rows) \X (DOMAIN items) :
     rows[m[1]].key = KeyOf(items[m[2]]) /\ Standing(m[1]) = Place(items, m[2])}

(* Live rows that no item found, and items that found no row. *)
Leftover(items) == {r \in DOMAIN rows : ~rows[r].gone} \ {m[1] : m \in Found(items)}
Unfiled(items)  == DOMAIN items \ {m[2] : m \in Found(items)}

(* reidentify: a row left over and an item without a row that differ in the  *)
(* paper alone, when there is exactly one of each.                           *)
Reidentified(items) ==
  {p \in Leftover(items) \X Unfiled(items) :
     /\ {r \in Leftover(items) : BodyOf(rows[r].key) = items[p[2]].body} = {p[1]}
     /\ {j \in Unfiled(items) : items[j].body = items[p[2]].body} = {p[2]}}
(* Wrong: a row that returns stays marked as gone. *)
ConfirmedAsItStood(row, it) == [row EXCEPT !.id = it.id, !.mark = it.mark]

(* mirrorConfirmSQL: a matched row takes what the reading says of it and     *)
(* keeps its key and its age; mirrorRekeySQL files it under its new key.     *)
Confirmed(row, it) == [row EXCEPT !.id = it.id, !.mark = it.mark, !.gone = FALSE]
Rekeyed(row, it) == [Confirmed(row, it) EXCEPT !.key = KeyOf(it)]

(* What becomes of a stored row under a reading. *)
Kept(r, items) ==
  IF \E m \in Found(items) : m[1] = r
  THEN Confirmed(rows[r], items[(CHOOSE m \in Found(items) : m[1] = r)[2]])
  ELSE IF \E p \in Reidentified(items) : p[1] = r
  THEN Rekeyed(rows[r], items[(CHOOSE p \in Reidentified(items) : p[1] = r)[2]])
  ELSE [rows[r] EXCEPT !.gone = TRUE]

(* The items that become rows, in the order of their new ids: any order. *)
Fresh(items) == Unfiled(items) \ {p[2] : p \in Reidentified(items)}
Row(it, at) == [key |-> KeyOf(it), gone |-> FALSE, seen |-> at, id |-> it.id, mark |-> it.mark]
Inserted(items, at) ==
  {[n \in DOMAIN order |-> Row(items[order[n]], at)] :
     order \in Bijection(1..Cardinality(Fresh(items)), Fresh(items))}

(* Wrong: the explanation stays behind, under the key the row had. *)
LeftBehind(items) == explains

(* rekeyMirrorRows: a row's explanation follows it to its new key, unless    *)
(* that key has one already.                                                 *)
Moves(items) ==
  {m \in {[from |-> rows[p[1]].key, to |-> KeyOf(items[p[2]])] : p \in Reidentified(items)} :
     m.from \in DOMAIN explains /\ m.to \notin DOMAIN explains}
Moved(items) ==
  [k \in (DOMAIN explains \ {m.from : m \in Moves(items)}) \cup {m.to : m \in Moves(items)} |->
     IF k \in DOMAIN explains THEN explains[k]
     ELSE explains[(CHOOSE m \in Moves(items) : m.to = k).from]]
Init == /\ world \in DOMAIN Worlds
        /\ broker = {} /\ changes = 0 /\ lost = 0
        /\ reading = [r \in Runs |-> NoReading] /\ clock = 0
        /\ rows = <<>>
        /\ explains = <<>>
        /\ asked = [q \in Requests |-> NothingAsked]
        /\ connected = TRUE

(* The broker books an operation, takes one back, or rewrites one: its id,   *)
(* its paper's identifiers, or an attribute.                                 *)
Holds(records) == /\ Cardinality(records) <= MaxRecords
                  /\ \A a, b \in records : a.id = b.id => a = b
                  /\ broker' = records
Rewritten(it) ==
  {[it EXCEPT !.id = i] : i \in Ids} \cup {[it EXCEPT !.paper = p] : p \in Papers} \cup {[it EXCEPT !.mark = m] : m \in Marks}
BrokerChanges ==
  /\ changes < MaxChanges /\ changes' = changes + 1
  /\ \/ \E it \in Record \ broker : Holds(broker \cup {it})
     \/ \E it \in broker : Holds(broker \ {it})
     \/ \E it \in broker : \E new \in Rewritten(it) \ {it} : Holds((broker \ {it}) \cup {new})
  /\ UNCHANGED <<world, lost, reading, clock, rows, explains, asked, connected>>

(* OperationsAll: the whole history, page by page; a page may repeat an      *)
(* operation of an earlier one. Called before the transaction opens.         *)
History == [n \in 1..Cardinality(broker) |-> CHOOSE it \in broker : Cardinality({b \in broker : b.id <= it.id}) = n]
Read(r) ==
  /\ connected /\ r \in Using /\ reading[r] = NoReading
  /\ clock' = IF clock < MaxReadings THEN clock + 1 ELSE clock
  /\ \E again \in {<<>>} \cup {<<it>> : it \in broker} :
       reading' = [reading EXCEPT ![r] = [at |-> clock', items |-> History \o again]]
  /\ UNCHANGED <<world, broker, changes, lost, rows, explains, asked, connected>>

(* SyncMirror, one transaction: it locks the connection before it reads the  *)
(* mirror, so two runs never see each other's half; a reading of an earlier  *)
(* moment may still come after one of a later moment.                        *)
SyncMirror(r) ==
  LET items == Deduped(reading[r].items) IN
  /\ connected /\ reading[r] # NoReading
  /\ \E new \in Inserted(items, reading[r].at) :
       rows' = [n \in DOMAIN rows |-> Kept(n, items)] \o new
  /\ explains' = Moved(items)
  /\ reading' = [reading EXCEPT ![r] = NoReading]
  /\ UNCHANGED <<world, broker, changes, lost, clock, asked, connected>>

(* A run that ends without its write: the transaction failed and was rolled  *)
(* back, the process stopped, or the connection was gone.                    *)
RunLost(r) ==
  /\ reading[r] # NoReading
  /\ connected => lost < MaxLost
  /\ lost' = IF connected THEN lost + 1 ELSE lost
  /\ reading' = [reading EXCEPT ![r] = NoReading]
  /\ UNCHANGED <<world, broker, changes, clock, rows, explains, asked, connected>>

(* ExplainRows: the keys are checked against the link's rows, gone ones too, *)
(* and against the explanations; the explanation is written later, outside   *)
(* the journal's transaction, and is refused only by the unique index.       *)
CheckRows(q, entry, keys) ==
  /\ connected /\ asked[q] = NothingAsked
  /\ entry \notin Range(explains) \cup {asked[p].entry : p \in Requests}
  /\ keys \subseteq {rows[r].key : r \in DOMAIN rows}
  /\ keys \cap DOMAIN explains = {}
  /\ asked' = [asked EXCEPT ![q] = [entry |-> entry, keys |-> keys]]
  /\ UNCHANGED <<world, broker, changes, lost, reading, clock, rows, explains, connected>>
CreateExplanations(q) ==
  /\ connected /\ asked[q] # NothingAsked
  /\ explains' = IF asked[q].keys \cap DOMAIN explains # {} THEN explains
                 ELSE [k \in asked[q].keys \cup DOMAIN explains |->
                         IF k \in asked[q].keys THEN asked[q].entry ELSE explains[k]]
  /\ asked' = [asked EXCEPT ![q] = NothingAsked]
  /\ UNCHANGED <<world, broker, changes, lost, reading, clock, rows, connected>>

(* RemoveExplanation, or the operation deleted from the journal: all the     *)
(* explanations it stands for go with it.                                    *)
Unexplain(entry) ==
  /\ entry \in Range(explains)
  /\ explains' = [k \in {j \in DOMAIN explains : explains[j] # entry} |-> explains[k]]
  /\ UNCHANGED <<world, broker, changes, lost, reading, clock, rows, asked, connected>>

(* DeleteConnection: links, mirror rows and explanations go by cascade. *)
DeleteConnection ==
  /\ connected /\ connected' = FALSE
  /\ rows' = <<>> /\ explains' = <<>>
  /\ UNCHANGED <<world, broker, changes, lost, reading, clock, asked>>

Syncs(r) == Read(r) \/ SyncMirror(r) \/ RunLost(r)
Explains == \/ \E q \in Requests, entry \in Explaining, keys \in (SUBSET Keys) \ {{}} : CheckRows(q, entry, keys)
            \/ \E q \in Requests : CreateExplanations(q)
            \/ \E entry \in Entries : Unexplain(entry)
Next == BrokerChanges \/ (\E r \in Runs : Syncs(r)) \/ Explains \/ DeleteConnection

Leaves(r) == reading[r] # NoReading /\ reading' = [reading EXCEPT ![r] = NoReading]

(* The hourly run: a reading is made whenever one can be, and its run ends;  *)
(* transactions that fail are few.                                           *)
Fairness == \A r \in Runs : WF_vars(Read(r)) /\ WF_reading(Leaves(r))
Spec == Init /\ [][Next]_vars /\ Fairness

TypeOK == /\ broker \subseteq Record
          /\ \A r \in Runs : reading[r].at \in 0..MaxReadings /\ Range(reading[r].items) \subseteq Record
          /\ \A n \in DOMAIN rows : /\ rows[n].key \in Keys /\ rows[n].gone \in BOOLEAN
                                   /\ rows[n].seen \in 1..MaxReadings
                                   /\ rows[n].id \in Ids /\ rows[n].mark \in Marks
          /\ DOMAIN explains \subseteq Keys /\ Range(explains) \subseteq Entries
          /\ connected \in BOOLEAN

(* The live rows as a bag of records; a reading is each record it names, once. *)
Shown(n) == [id |-> rows[n].id, body |-> rows[n].key[1], paper |-> rows[n].key[2], mark |-> rows[n].mark]
LiveRows == {n \in DOMAIN rows : ~rows[n].gone}
Live == [it \in {Shown(n) : n \in LiveRows} |-> Cardinality({n \in LiveRows : Shown(n) = it})]
Unread == SetToBag({[id |-> 0, body |-> 0, paper |-> 0, mark |-> 0]})

(* SyncMirror implements the copy it promises: whatever the mirror held, and *)
(* however readings overtake each other, its live rows become the records of *)
(* one reading, each as often as it was read and with all it said.           *)
Copy == INSTANCE BrokerCopy WITH
          copy <- Live, authorized <- connected, NoReading <- Unread,
          heard <- [r \in Runs |-> IF reading[r] = NoReading THEN Unread ELSE SetToBag(Range(reading[r].items))]
ImplementsBrokerCopy == Copy!Spec

(* A row is the identity of an operation: the journal's entry is named after *)
(* it. Of the live rows of a key as many stay as the reading has records of  *)
(* it; none is given up for a row that had gone, or for a new one.           *)
LiveOf(mirror, k) == {n \in DOMAIN mirror : mirror[n].key = k /\ ~mirror[n].gone}
KeepsRows ==
  [][connected' => \A k \in Keys :
       Cardinality(LiveOf(rows, k) \cap LiveOf(rows', k)) =
         Min({Cardinality(LiveOf(rows, k)), Cardinality(LiveOf(rows', k))})]_rows

(* A row the broker rewrote is still explained under its new key, and a sync *)
(* neither adds to nor takes from what an operation stands for.              *)
ExplanationFollows ==
  [][connected' =>
       /\ \A n \in DOMAIN rows : rows'[n].key # rows[n].key /\ rows[n].key \in DOMAIN explains
                                 => rows'[n].key \in DOMAIN explains'
       /\ \A e \in Entries : Cardinality({k \in DOMAIN explains : explains[k] = e})
                               = Cardinality({k \in DOMAIN explains' : explains'[k] = e})]_rows

(* Once the broker's history stays as it is, the mirror comes to agree with  *)
(* it and stays so, though runs fail and old readings arrive late.           *)
Agrees == ~connected \/ Live = SetToBag(broker)
Converges == <>[]Agrees
=============================================================================
