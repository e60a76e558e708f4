-------------------------------- MODULE Jobs --------------------------------
(* A periodic job of the queue (platform/jobs, background): it is queued on  *)
(* its clock and at every start of the process, one at a time, tried again   *)
(* after its failures with a growing pause, and how its attempts end is      *)
(* recorded; from the record a source is said to be stale. River, the queue, *)
(* is external: what it does is taken from how the code configures it.       *)
(*                                                                           *)
(* Time is counted in the units of River's pause (the fourth power of the    *)
(* attempt). A step that is due is taken before time passes.                 *)
EXTENDS Naturals

CONSTANTS Never,
          Worlds       \* name -> a job's clock and how far it is followed

VARIABLES world,           \* chosen once
          now, every,
          up, next,          \* the process, and its next tick of the clock
          job,               \* the one unfinished job of the kind
          answers, since,    \* whether the source answers, and since when
          success, failed,   \* job_outcomes: when, and whether ever
          ticks, ever, lost, \* ticks since the last success; whether there was one; whether a
                     \* tick found the slot taken
          crashes, turns

vars == <<world, now, every, up, next, job, answers, since, success, failed, ticks, ever, lost, crashes, turns>>
Intervals == Worlds[world].intervals      \* what "every" may be
MaxRun == Worlds[world].maxRun            \* the longest an attempt takes
RescueAfter == Worlds[world].rescueAfter  \* River's wait before it takes up a job left running
Downtime == Worlds[world].downtime        \* the longest the process is down
LastMoment == Worlds[world].maxNow
MaxCrashes == Worlds[world].crashes       \* times the process dies
MaxTurns == Worlds[world].turns           \* times the source stops or recovers

process == <<up, next, crashes>>
source == <<answers, since, turns>>
outcomes == <<success, failed, ticks, ever>>

NoJob == [state |-> "none", attempt |-> 0, at |-> 0]

Init == /\ world \in DOMAIN Worlds /\ now = 0 /\ every \in Intervals /\ up = TRUE /\ next = 0 /\ job = NoJob
        /\ answers \in BOOLEAN /\ since = 0 /\ success = Never /\ failed = FALSE
        /\ ticks = 0 /\ ever = FALSE /\ lost = FALSE /\ crashes = 0 /\ turns = 0

-----------------------------------------------------------------------------
Pause(attempt) == attempt * attempt * attempt * attempt
(* Wrong: River's own number of attempts. *)
RiverAttempts(interval) == 25
(* AttemptsWithin: how many fit in the interval. *)
AttemptsWithin(interval) ==
  LET Waited[n \in 0..interval] == IF n = 0 THEN 0 ELSE Waited[n - 1] + Pause(n)
  IN  CHOOSE n \in 1..interval : Waited[n] >= interval /\ Waited[n - 1] < interval

(* ScheduledOpts: a job of the kind in flight, one waiting to be tried again *)
(* too, keeps another from being queued.                                     *)
Unfinished == job.state \in {"available", "running", "stuck", "retryable"}
Queue == IF Unfinished THEN job ELSE [state |-> "available", attempt |-> 0, at |-> now]
Tick == /\ up /\ next = now
        /\ job' = Queue /\ lost' = (lost \/ Unfinished)
        /\ next' = now + every /\ ticks' = ticks + 1
        /\ UNCHANGED <<world, now, every, up, source, success, failed, ever, crashes>>

Begin == /\ up /\ \/ job.state = "available"
                  \/ job.state = "retryable" /\ job.at <= now
         /\ job' = [state |-> "running", attempt |-> job.attempt + 1, at |-> now]
         /\ UNCHANGED <<world, now, every, process, source, outcomes, lost>>
(* WorkEnd: how the attempt ended. *)
Succeed == /\ up /\ job.state = "running" /\ answers
           /\ job' = NoJob /\ success' = now /\ ticks' = 0 /\ ever' = TRUE
           /\ UNCHANGED <<world, now, every, process, source, failed, lost>>
SuccessKept == success
(* An attempt that fails is tried again after its pause, until its last. *)
Again == IF job.attempt < AttemptsWithin(every)
         THEN [job EXCEPT !.state = "retryable", !.at = now + Pause(job.attempt)] ELSE NoJob
Fail == /\ up /\ job.state = "running" /\ ~answers
        /\ failed' = TRUE /\ success' = SuccessKept /\ job' = Again
        /\ UNCHANGED <<world, now, every, process, source, ticks, ever, lost>>

(* The process dies with its job running: nobody ends it till River takes it *)
(* up. At the next start the clocks tick at once.                            *)
Die == /\ up /\ crashes < MaxCrashes /\ up' = FALSE /\ crashes' = crashes + 1 /\ next' = now
       /\ job' = IF job.state = "running" THEN [job EXCEPT !.state = "stuck"] ELSE job
       /\ UNCHANGED <<world, now, every, source, outcomes, lost>>
Restart == /\ ~up /\ up' = TRUE /\ next' = now
           /\ UNCHANGED <<world, now, every, job, crashes, source, outcomes, lost>>
(* A stuck job is queued again while attempts are left. *)
Rescue == /\ up /\ job.state = "stuck" /\ now >= job.at + RescueAfter
          /\ job' = IF job.attempt < AttemptsWithin(every) THEN [job EXCEPT !.state = "retryable", !.at = now] ELSE NoJob
          /\ UNCHANGED <<world, now, every, process, source, outcomes, lost>>

Turn == /\ turns < MaxTurns /\ turns' = turns + 1 /\ answers' = ~answers /\ since' = now
        /\ UNCHANGED <<world, now, every, process, job, outcomes, lost>>

Urgent == \/ up /\ next = now
          \/ up /\ (job.state = "available" \/ (job.state = "retryable" /\ job.at <= now))
          \/ up /\ job.state = "stuck" /\ now >= job.at + RescueAfter
          \/ up /\ job.state = "running" /\ now >= job.at + MaxRun
          \/ ~up /\ now >= next + Downtime
Pass == /\ now < LastMoment /\ ~Urgent /\ now' = now + 1
        /\ UNCHANGED <<world, every, process, job, source, outcomes, lost>>

Next == Tick \/ Begin \/ Succeed \/ Fail \/ Die \/ Restart \/ Rescue \/ Turn \/ Pass
Spec == Init /\ [][Next]_vars
-----------------------------------------------------------------------------
(* Source.Stale: not for three of its intervals, or never while it failed. *)
Stale == IF success = Never THEN failed ELSE now - success > 3 * every

TypeOK == /\ now \in 0..LastMoment /\ every \in Intervals /\ up \in BOOLEAN
          /\ job.state \in {"none", "available", "running", "retryable", "stuck"}
          /\ job.attempt <= AttemptsWithin(every)
          /\ success \in 0..now \cup {Never}

(* ScheduledOpts: "bounds its attempts to fit inside the interval: otherwise *)
(* River's growing backoff would park a failing job, holding the slot, past  *)
(* several ticks". While the process lives and attempts are short, no tick   *)
(* finds the slot taken.                                                     *)
NoTickLost == crashes = 0 => ~lost
(* A source is stale only when two ticks in a row brought nothing, or the    *)
(* process was down; one that never succeeded, when it failed.               *)
StaleMeansFailing == Stale /\ crashes = 0 /\ ever => ticks >= 2
(* Once the source answers and the process lives, the kind succeeds within   *)
(* an interval: or within River's wait and an interval, when the process had *)
(* died in the middle of an attempt.                                         *)
Within == every + MaxRun + IF crashes = 0 THEN 0 ELSE RescueAfter + Downtime + every
RecoversInTime == answers /\ up /\ now > since + Within => success # Never /\ success >= since

(* A kind of job keeps its pace: no tick is lost, a source is said to be     *)
(* stale when it is, and recovers with its source.                           *)
KeepsPace == TypeOK /\ NoTickLost /\ StaleMeansFailing /\ RecoversInTime
=============================================================================
