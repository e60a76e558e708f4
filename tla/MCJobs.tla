------------------------------- MODULE MCJobs -------------------------------
(* A periodic job on its clock, and what the running jobs show of            *)
(* themselves. The two share no state: in each world one of them moves and   *)
(* the other stands where it began.                                          *)
EXTENDS JobProgress

CONSTANTS Never, Worlds
VARIABLES world, clock, every, up, next, job, answers, since, success, failed,
          ticks, ever, lost, crashes, turns

Clock == INSTANCE Jobs WITH now <- clock
rowsShown == vars
clockwork == <<world, clock, every, up, next, job, answers, since, success, failed,
               ticks, ever, lost, crashes, turns>>

(* Intervals about the sums of River's pauses, 1, 17 and 98; a process that  *)
(* dies and a source that stops; and the rows of the screen.                 *)
MCWorlds ==
  [attempts |-> [intervals |-> {1, 2, 16, 17, 18, 60, 98, 99}, maxRun |-> 0, rescueAfter |-> 60, downtime |-> 0,
                 maxNow |-> 120, crashes |-> 0, turns |-> 1],
   health   |-> [intervals |-> {4, 6}, maxRun |-> 1, rescueAfter |-> 8, downtime |-> 2,
                 maxNow |-> 32, crashes |-> 1, turns |-> 2],
   screen   |-> [intervals |-> {1}, maxRun |-> 0, rescueAfter |-> 0, downtime |-> 0,
                 maxNow |-> 0, crashes |-> 0, turns |-> 0]]

BothInit == Init /\ Clock!Init
BothNext == IF world = "screen" THEN Next /\ UNCHANGED clockwork ELSE Clock!Next /\ UNCHANGED rowsShown
BothSpec == BothInit /\ [][BothNext]_<<rowsShown, clockwork>>
-----------------------------------------------------------------------------
(* What a periodic job keeps in every world, as Jobs states it: its ticks,   *)
(* what is said of its source, and its recovery.                             *)
KeepsPace == Clock!KeepsPace
=============================================================================
