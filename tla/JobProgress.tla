----------------------------- MODULE JobProgress -----------------------------
(* What a running job the screen shows says of itself (platform/jobs,        *)
(* progress.go): a row written when it starts, confirmed by a beat while it  *)
(* runs, told its stages, deleted when it ends. The process may die with the *)
(* row standing, writes may fail, and River runs a job again under its id.   *)
EXTENDS Integers, FiniteSets

CONSTANTS Jobs, Stages,
          MaxUnits,      \* units of a stage
          beat, ProgressStale, Swept,  \* the beat; when a row is shown no more; when it is deleted
          Throttle,      \* no more than one write of a stage in this time
          MaxNow, MaxRuns, MaxFaults, MaxDeaths

ASSUME ProgressAssumption ==
  /\ {MaxUnits, beat, ProgressStale, Swept, Throttle, MaxNow, MaxRuns, MaxFaults, MaxDeaths} \subseteq Nat
  /\ beat < ProgressStale /\ ProgressStale <= Swept

VARIABLES now, rows,     \* job_progress: job -> its row
          run,           \* job -> the execution under way, or NotRunning
          ended,         \* job -> when it last stopped running
          runs, faults, deaths

vars == <<now, rows, run, ended, runs, faults, deaths>>

NotRunning == [on |-> FALSE]
Running(j) == run[j].on
Row == [stage |-> "", done |-> 0, total |-> 0, updated |-> now]
Starting == [on |-> TRUE, recorded |-> TRUE, beaten |-> now, stage |-> "", done |-> 0, total |-> 0,
             kept |-> "", written |-> -Throttle]

Init == /\ now = 0 /\ rows = <<>> /\ run = [j \in Jobs |-> NotRunning]
        /\ ended = [j \in Jobs |-> 0] /\ runs = 0 /\ faults = 0 /\ deaths = 0

Without(f, x) == [y \in DOMAIN f \ {x} |-> f[y]]
With(f, x, v) == [y \in DOMAIN f \cup {x} |-> IF y = x THEN v ELSE f[y]]
Fault == faults < MaxFaults /\ faults' = faults + 1
-----------------------------------------------------------------------------
StartsOver(j) == Row
(* Work: the row starts over; rows long dead go. When it cannot be written   *)
(* the job runs without one.                                                 *)
Start(j) ==
  /\ ~Running(j) /\ runs < MaxRuns /\ runs' = runs + 1
  /\ rows' = With([x \in {y \in DOMAIN rows : rows[y].updated >= now - Swept} |-> rows[x]], j, StartsOver(j))
  /\ run' = [run EXCEPT ![j] = Starting]
  /\ UNCHANGED <<now, ended, faults, deaths>>
StartUnrecorded(j) ==
  /\ ~Running(j) /\ runs < MaxRuns /\ runs' = runs + 1 /\ Fault
  /\ run' = [run EXCEPT ![j] = [Starting EXCEPT !.recorded = FALSE]]
  /\ UNCHANGED <<now, rows, ended, deaths>>
(* The beat: every so often, whatever the job does. *)
Confirmed(j) == IF j \in DOMAIN rows THEN [rows EXCEPT ![j].updated = now] ELSE rows
Beat(j) ==
  /\ Running(j) /\ run[j].recorded /\ now = run[j].beaten + beat
  /\ run' = [run EXCEPT ![j].beaten = now]
  /\ \/ rows' = Confirmed(j) /\ UNCHANGED faults
     \/ Fault /\ UNCHANGED rows
  /\ UNCHANGED <<now, ended, runs, deaths>>

skip(r, stage, done, total) ==
  stage = r.kept /\ now - r.written < Throttle /\ (total = 0 \/ done < total)
(* Stage: within a stage at most one write in a while, and always the last   *)
(* unit.                                                                     *)
Stage(j, stage, done, total) ==
  LET r == [run[j] EXCEPT !.stage = stage, !.done = done, !.total = total]
      skipped == skip(run[j], stage, done, total)
  IN  /\ Running(j) /\ (stage = r.kept => done >= run[j].done /\ total = run[j].total)
      /\ run' = [run EXCEPT ![j] = IF skipped THEN r ELSE [r EXCEPT !.kept = stage, !.written = now]]
      /\ \/ /\ rows' = IF skipped \/ ~r.recorded \/ j \notin DOMAIN rows THEN rows
                       ELSE [rows EXCEPT ![j] = [stage |-> stage, done |-> done, total |-> total, updated |-> now]]
            /\ UNCHANGED faults
         \/ ~skipped /\ Fault /\ UNCHANGED rows
      /\ UNCHANGED <<now, ended, runs, deaths>>

(* Wrong: the row is deleted only when the job was not cancelled. *)
DeletedUnlessStopped(j, stopped) == IF stopped THEN rows ELSE Without(rows, j)
Deleted(j, stopped) == Without(rows, j)
(* The job ends, or is stopped by a shutdown: either way its row goes. *)
End(j) == /\ Running(j) /\ run' = [run EXCEPT ![j] = NotRunning] /\ ended' = [ended EXCEPT ![j] = now]
          /\ \E stopped \in BOOLEAN :
               \/ rows' = (IF run[j].recorded THEN Deleted(j, stopped) ELSE rows) /\ UNCHANGED faults
               \/ Fault /\ UNCHANGED rows
          /\ UNCHANGED <<now, runs, deaths>>
(* The process dies, all its jobs with it. *)
Die == /\ deaths < MaxDeaths /\ deaths' = deaths + 1
       /\ run' = [j \in Jobs |-> NotRunning]
       /\ ended' = [j \in Jobs |-> IF Running(j) THEN now ELSE ended[j]]
       /\ UNCHANGED <<now, rows, runs, faults>>

Urgent == \E j \in Jobs : Running(j) /\ run[j].recorded /\ now = run[j].beaten + beat
Pass == /\ now < MaxNow /\ ~Urgent /\ now' = now + 1
        /\ UNCHANGED <<rows, run, ended, runs, faults, deaths>>

Next == \/ \E j \in Jobs : Start(j) \/ StartUnrecorded(j) \/ Beat(j) \/ End(j)
        \/ \E j \in Jobs, s \in Stages, done, total \in 0..MaxUnits :
             (total = 0 \/ done <= total) /\ Stage(j, s, done, total)
        \/ Die \/ Pass
Spec == Init /\ [][Next]_vars
-----------------------------------------------------------------------------
(* RunningFor: "a row not confirmed for ProgressStale is left out". *)
Shown(j) == j \in DOMAIN rows /\ rows[j].updated > now - ProgressStale

TypeOK == /\ now \in 0..MaxNow /\ DOMAIN rows \subseteq Jobs
          /\ \A j \in DOMAIN rows : rows[j].updated \in 0..now /\ rows[j].done \in 0..MaxUnits
          /\ \A j \in Jobs : Running(j) /\ run[j].recorded => now <= run[j].beaten + beat

(* A job that runs is on the screen, though some of its beats are lost.      *)
RunningIsShown == \A j \in Jobs : Running(j) /\ run[j].recorded /\ beat * (faults + 1) < ProgressStale => Shown(j)
(* What the screen shows runs; unless its process died or its row could not  *)
(* be deleted, and then it is gone from the screen in a while.               *)
ShownIsRunning == \A j \in Jobs : Shown(j) /\ ~Running(j)
                    => /\ now < ended[j] + ProgressStale
                       /\ deaths > 0 \/ faults > 0
(* While no write fails, the screen has the stage the job is in, never more  *)
(* of it than is done, and its last unit at once.                            *)
StageIsTrue ==
  \A j \in Jobs : Running(j) /\ run[j].recorded /\ faults = 0
    => /\ rows[j].stage = run[j].stage /\ rows[j].done <= run[j].done
       /\ run[j].total > 0 /\ run[j].done = run[j].total => rows[j].done = run[j].done

(* The screen says what runs, and of what runs where it is. *)
ScreenTrue == TypeOK /\ RunningIsShown /\ ShownIsRunning /\ StageIsTrue
=============================================================================
