------------------------------ MODULE MCMirror ------------------------------
(* Small instances of Mirror: records of one or two bodies and two papers,   *)
(* equal but for their broker ids.                                           *)
EXTENDS Mirror

CONSTANTS r1, r2, e1, e2

One == {1}
Two == {1, 2}

Copied(bodies, most, often) ==
  [bodies |-> bodies, records |-> most, changes |-> often, lost |-> 0,
   runs |-> {r1}, entries |-> {}]

\* Readings that overtake each other; runs that fail and come again; records
\* explained by hand while their papers are rewritten.
MCWorlds ==
  [overtaking |-> [Copied(One, 2, 3) EXCEPT !.runs = {r1, r2}],
   hourly     |-> [Copied(One, 1, 2) EXCEPT !.lost = 2, !.runs = {r1, r2}],
   explained  |-> [Copied(Two, 2, 3) EXCEPT !.entries = {e1, e2}]]
=============================================================================
