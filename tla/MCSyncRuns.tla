----------------------------- MODULE MCSyncRuns -----------------------------
(* A connection whose history grows, one whose tokens come and go, and three *)
(* where River gives up on a run that is alive: while the history grows,     *)
(* while the owner explains the record, and while the token is replaced.     *)
EXTENDS SyncRuns

MCWorlds ==
  [growing   |-> [tokens |-> {1}, lost |-> {}, booked |-> 2, events |-> 1, asked |-> 1, faults |-> 2, rescues |-> 0],
   renewed   |-> [tokens |-> {1, 2, 3}, lost |-> {3}, booked |-> 1, events |-> 0, asked |-> 1, faults |-> 2, rescues |-> 0],
   overtaken |-> [tokens |-> {1}, lost |-> {}, booked |-> 2, events |-> 1, asked |-> 0, faults |-> 1, rescues |-> 1],
   explained |-> [tokens |-> {1}, lost |-> {}, booked |-> 1, events |-> 0, asked |-> 2, faults |-> 1, rescues |-> 1],
   replaced  |-> [tokens |-> {1, 2}, lost |-> {}, booked |-> 1, events |-> 0, asked |-> 0, faults |-> 1, rescues |-> 1]]
=============================================================================
