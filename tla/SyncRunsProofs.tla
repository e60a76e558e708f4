--------------------------- MODULE SyncRunsProofs ---------------------------
(* For any worlds, workers, attempts, events and failures: what the state of *)
(* a connection and of its job can be, how many runs may overlap, what the   *)
(* log says of them, and that a refused token is not offered again.          *)
EXTENDS SyncRuns, FiniteSetTheorems, TLAPS

Stages == {"idle", "fetch", "mirror", "project", "difference", "write", "align", "reconcile",
           "finish", "refused", "park"}
Verdicts == [row : Nat, hand : BOOLEAN, reg : Nat, booked : Nat]
Runs == [at : Stages, token : Tokens \cup {0}, slot : {"held", "given", "lost"}, read : Nat,
         seen : Nat, found : Verdicts]
JobStates == [state : {"none", "available", "running", "retryable"}, tries : 0..MaxTries]
Over == {j \in JobStates : j = NoJob \/ (j.state = "retryable" /\ j.tries < MaxTries)}

(* What a run has read is not ahead of what the broker has booked; a job's   *)
(* attempts leave room for the next; and a worker without a run has no job.  *)
InOrder ==
  /\ world \in DOMAIN Worlds /\ work \in [Workers -> Runs] /\ job \in JobStates
  /\ events \in Nat /\ unclosed \in Nat /\ rescued \in Nat
  /\ \A w \in Workers :
       /\ work[w].at \in {"mirror", "difference", "write"} => work[w].read <= booked
       /\ work[w].at = "idle" => work[w] = Idle
  /\ job.state = "available" => job.tries = 0
  /\ job.state = "retryable" => job.tries < MaxTries
Typed == TypeOK /\ InOrder
(* At most one run has the slot, while the job runs; River gave up on the    *)
(* others that go on, or on the one that ended their job.                    *)
Overtaken == {w \in Workers : Running(w) /\ work[w].slot # "held"}
Slots == /\ \A w \in Workers : work[w].slot = "held" => job.state = "running"
         /\ \A v, w \in Workers : work[v].slot = "held" /\ work[w].slot = "held" => v = w
         /\ Cardinality(Overtaken) <= rescued
Closed == Typed /\ Slots /\ LogClosed

USE SyncAssumption

(* The parameters are those of the world, which stays as it was chosen. *)
LEMMA WorldStays ==
  ASSUME [Next]_vars PROVE world' = world
<1>1. CASE World BY <1>1 DEF World, BrokerBooks, EventRecorded, BrokerRevokes
<1>2. CASE Owner BY <1>2 DEF Owner, Ask, Remove, NewToken, Switch
<1>3. CASE Requested BY <1>3 DEF Requested, CreateReplacing, CreateExplanation, AskForSync
<1>4. CASE Registry BY <1>4 DEF Registry, RegistryWrites, QueueRecheck
<1>5. ASSUME NEW w \in Workers, Step(w) PROVE world' = world
  BY <1>5 DEF Step, Fetch, BringIntoLine, Project, Difference, WriteJournal, Align, Reconcile,
              Finish, CloseRefused, Park
<1>6. ASSUME NEW w \in Workers, Take(w) \/ Fails(w) \/ Crash(w) PROVE world' = world
  BY <1>6 DEF Take, Fails, Crash
<1>7. CASE Dispatch \/ TakeFails \/ Rescue BY <1>7 DEF Dispatch, TakeFails, Rescue
<1>8. CASE UNCHANGED vars BY <1>8 DEF vars
<1> QED BY <1>1, <1>2, <1>3, <1>4, <1>5, <1>6, <1>7, <1>8 DEF Next, Taken

LEMMA ParametersStay ==
  ASSUME [Next]_vars
  PROVE  Tokens' = Tokens /\ Lost' = Lost /\ MaxBooked' = MaxBooked /\ Runs' = Runs
BY WorldStays DEF Tokens, Lost, MaxBooked, Runs

LEMMA IdleIsARun ==
  Idle \in Runs /\ Idle.at = "idle" /\ Idle.token = 0 /\ Idle.slot = "lost"
BY DEF Idle, NotChecked, Runs, Stages, Verdicts

(* A job that is over, or waits for its next attempt. *)
LEMMA FailureIsOver ==
  ASSUME NEW t \in Nat PROVE AfterFailure(t) \in Over /\ NoJob \in Over
BY DEF AfterFailure, NoJob, Over, JobStates
LEMMA OverStates ==
  ASSUME NEW j \in Over
  PROVE  /\ j \in JobStates /\ j.state \in {"none", "retryable"}
         /\ j.state = "retryable" => j.tries < MaxTries
BY DEF Over, NoJob, JobStates

(* A run that is given up on keeps everything but its hold on the job.       *)
LEMMA HoldFacts ==
  ASSUME NEW r \in Runs, NEW j
  PROVE  /\ Hold(r, j) \in Runs /\ Hold(r, j).at = r.at /\ Hold(r, j).token = r.token
         /\ Hold(r, j).read = r.read
         /\ r.at = "idle" => Hold(r, j) = r
         /\ r.at # "idle" => Hold(r, j).slot # "held"
BY DEF Hold, Runs
(* A run that goes on keeps its token and its hold on the job. *)
LEMMA AtFacts ==
  ASSUME work \in [Workers -> Runs], NEW w \in Workers, NEW s \in Stages, NEW n \in Nat
  PROVE  /\ At(w, s, n) \in Runs /\ At(w, s, n).at = s /\ At(w, s, n).token = work[w].token
         /\ At(w, s, n).slot = work[w].slot /\ At(w, s, n).read = n
BY DEF At, Idle, NotChecked, Runs, Verdicts
LEMMA SeenFacts ==
  ASSUME NEW r \in Runs, NEW m \in Nat
  PROVE  LET q == [r EXCEPT !.seen = m]
         IN  q \in Runs /\ q.at = r.at /\ q.token = r.token /\ q.slot = r.slot /\ q.read = r.read
BY DEF Runs
LEMMA FoundFacts ==
  ASSUME NEW r \in Runs, NEW f \in Verdicts
  PROVE  LET q == [r EXCEPT !.found = f]
         IN  q \in Runs /\ q.at = r.at /\ q.token = r.token /\ q.slot = r.slot /\ q.read = r.read
BY DEF Runs

(* What a step of the worker w makes of the runs: its own goes on, or it     *)
(* ends, and with it perhaps the job; the log gains or loses no entry but    *)
(* the one of that run.                                                      *)
GoesOn(w) == /\ work' \in [Workers -> Runs] /\ \A v \in Workers \ {w} : work'[v] = work[v]
             /\ work'[w].at # "idle" /\ work'[w].slot = work[w].slot
             /\ work'[w].token = work[w].token /\ UNCHANGED <<job, rescued>>
             /\ work'[w].at \in {"mirror", "difference", "write"} => work'[w].read <= booked
Leaves(w) == /\ work' \in [Workers -> Runs] /\ work'[w] = Idle /\ UNCHANGED rescued
             /\ \/ UNCHANGED job /\ \A v \in Workers \ {w} : work'[v] = work[v]
                \/ job' \in Over /\ \A v \in Workers \ {w} : work'[v] = Hold(work[v], job')
LogStep(w) ==
  \/ (UnderWay(w) <=> UnderWay(w)') /\ UNCHANGED <<open, unclosed>>
  \/ /\ UnderWay(w) /\ ~UnderWay(w)'
     /\ (open' = open - 1 /\ unclosed' = unclosed) \/ (open' = open /\ unclosed' = unclosed + 1)

LEMMA MovesGoesOn ==
  ASSUME Typed, NEW w \in Workers, NEW s \in Stages \ {"idle"}, NEW n \in Nat,
         s \in {"mirror", "difference", "write"} => n <= booked, Moves(w, s, n)
  PROVE  GoesOn(w) /\ work'[w].at = s
<1>1. work \in [Workers -> Runs] BY DEF Typed, InOrder
<1>2. work' = [work EXCEPT ![w] = At(w, s, n)] /\ UNCHANGED <<job, rescued>> BY DEF Moves
<1>3. /\ At(w, s, n) \in Runs /\ At(w, s, n).at = s /\ At(w, s, n).token = work[w].token
      /\ At(w, s, n).slot = work[w].slot /\ At(w, s, n).read = n
  <2>1. s \in Stages OBVIOUS
  <2> QED BY <1>1, <2>1 DEF At, Idle, NotChecked, Runs, Verdicts
<1>4. /\ work' \in [Workers -> Runs] /\ work'[w] = At(w, s, n)
      /\ \A v \in Workers \ {w} : work'[v] = work[v]
  BY <1>1, <1>2, <1>3
<1>5. n \in Nat /\ s # "idle" OBVIOUS
<1> QED BY <1>2, <1>3, <1>4, <1>5 DEF GoesOn
LEMMA EndsLeaves ==
  ASSUME Typed, NEW w \in Workers, NEW j \in Over, Ends(w, j), UNCHANGED rescued
  PROVE  Leaves(w)
<1>1. work \in [Workers -> Runs] BY DEF Typed, InOrder
<1>2. Idle \in Runs BY IdleIsARun
<1>3. CASE job' = j /\ work' = [v \in Workers |-> IF v = w THEN Idle ELSE Hold(work[v], j)]
  <2>1. \A v \in Workers : Hold(work[v], j) \in Runs BY <1>1, HoldFacts
  <2>2. work' \in [Workers -> Runs] BY <1>2, <1>3, <2>1
  <2>3. work'[w] = Idle /\ \A v \in Workers \ {w} : work'[v] = Hold(work[v], j) BY <1>3
  <2> QED BY <1>3, <2>2, <2>3 DEF Leaves
<1>4. CASE work' = [work EXCEPT ![w] = Idle] /\ UNCHANGED job
  BY <1>1, <1>2, <1>4 DEF Leaves
<1> QED BY <1>3, <1>4 DEF Ends

LEMMA RunStep ==
  ASSUME Typed, NEW w \in Workers, Step(w) \/ Fails(w) \/ Crash(w)
  PROVE  Running(w) /\ (GoesOn(w) \/ Leaves(w)) /\ LogStep(w)
<1>t. /\ work \in [Workers -> Runs] /\ work[w] \in Runs /\ booked \in Nat /\ mirror \in Nat /\ row \in Nat
      /\ mirror <= booked /\ reg \in Nat /\ hand \in BOOLEAN /\ job.tries \in Nat
      /\ open \in Nat /\ unclosed \in Nat
  BY DEF Typed, TypeOK, InOrder, MaxBooked
<1>r. work[w].read \in Nat /\ (work[w].at \in {"mirror", "difference", "write"} => work[w].read <= booked)
  BY <1>t DEF Typed, InOrder, Runs
<1>i. Idle \in Runs /\ Idle.at = "idle" BY IdleIsARun
<1>f. AfterFailure(job.tries) \in Over /\ NoJob \in Over BY <1>t, FailureIsOver
<1>1. CASE Fetch(w)
  <2>1. CASE Moves(w, "mirror", booked)
    <3>1. booked <= booked /\ "mirror" \in Stages \ {"idle"} BY <1>t DEF Stages
    <3>2. GoesOn(w) /\ work'[w].at = "mirror" BY <1>t, <2>1, <3>1, MovesGoesOn
    <3> QED BY <1>1, <3>2 DEF Fetch, Running, UnderWay, LogStep, log
  <2>2. CASE Moves(w, "refused", 0)
    BY <1>t, <1>1, <2>2, MovesGoesOn DEF Fetch, Running, UnderWay, LogStep, log, Stages
  <2> QED BY <1>1, <2>1, <2>2 DEF Fetch
<1>2. CASE BringIntoLine(w)
  <2>1. Moves(w, "project", 0) /\ work[w].at = "mirror" /\ UNCHANGED log BY <1>2 DEF BringIntoLine
  <2>2. GoesOn(w) /\ work'[w].at = "project" BY <2>1, MovesGoesOn DEF Stages
  <2> QED BY <2>1, <2>2 DEF Running, UnderWay, LogStep, log
<1>3. CASE Project(w)
  <2>1. Wanted \in Nat /\ Wanted <= booked BY <1>t DEF Wanted, Nothing
  <2>2. Moves(w, "difference", Wanted) /\ work[w].at = "project" /\ UNCHANGED log BY <1>3 DEF Project
  <2>3. GoesOn(w) /\ work'[w].at = "difference" BY <2>1, <2>2, MovesGoesOn DEF Stages
  <2> QED BY <2>2, <2>3 DEF Running, UnderWay, LogStep, log
<1>4. CASE Difference(w)
  <2> DEFINE a == At(w, "write", work[w].read)
             q == [a EXCEPT !.seen = row]
  <2>1. a \in Runs /\ a.at = "write" /\ a.token = work[w].token /\ a.slot = work[w].slot /\ a.read = work[w].read
    BY <1>t, <1>r, AtFacts DEF Stages
  <2>2. q \in Runs /\ q.at = "write" /\ q.token = work[w].token /\ q.slot = work[w].slot /\ q.read = work[w].read
    <3> HIDE DEF a
    <3> QED BY <1>t, <2>1, SeenFacts
  <2>3. work' = [work EXCEPT ![w] = q] /\ UNCHANGED <<job, rescued, open, unclosed>> /\ work[w].at = "difference"
    BY <1>4 DEF Difference, log
  <2> HIDE DEF q
  <2>4. GoesOn(w) /\ work'[w].at = "write" BY <1>t, <1>r, <2>2, <2>3 DEF GoesOn
  <2> QED BY <2>3, <2>4 DEF Running, UnderWay, LogStep
<1>5. CASE WriteJournal(w)
  <2>1. CASE Moves(w, "align", 0) /\ UNCHANGED <<open, unclosed>>
    BY <1>t, <1>5, <2>1, MovesGoesOn DEF WriteJournal, Running, UnderWay, LogStep, Stages
  <2>2. CASE Ends(w, AfterFailure(job.tries)) /\ (ClosesFailed \/ CloseFails) /\ UNCHANGED rescued
    <3>1. Leaves(w) BY <1>f, <2>2, EndsLeaves
    <3> QED BY <1>5, <1>i, <2>2, <3>1
            DEF Leaves, WriteJournal, Running, UnderWay, LogStep, ClosesFailed, Closes, CloseFails, StaysOpen
  <2> QED BY <1>5, <2>1, <2>2 DEF WriteJournal
<1>6. CASE Align(w)
  BY <1>t, <1>6, MovesGoesOn DEF Align, Running, UnderWay, LogStep, log, Stages
<1>7. CASE Reconcile(w)
  <2>0. work[w].at = "reconcile" /\ UNCHANGED <<open, unclosed>> BY <1>7 DEF Reconcile, log
  <2>1. CASE Moves(w, "refused", 0)
    BY <1>t, <2>0, <2>1, MovesGoesOn DEF Running, UnderWay, LogStep, Stages
  <2>2. CASE work' = [work EXCEPT ![w] = [At(w, "finish", 0) EXCEPT !.found = Struck]] /\ UNCHANGED <<job, rescued>>
    <3> DEFINE a == At(w, "finish", 0)
               q == [a EXCEPT !.found = Struck]
    <3>1. a \in Runs /\ a.at = "finish" /\ a.token = work[w].token /\ a.slot = work[w].slot
      BY <1>t, AtFacts DEF Stages
    <3>2. Struck \in Verdicts BY <1>t DEF Struck, Verdicts
    <3>3. q \in Runs /\ q.at = "finish" /\ q.token = work[w].token /\ q.slot = work[w].slot
      <4> HIDE DEF a
      <4> QED BY <3>1, <3>2, FoundFacts
    <3>4. work' = [work EXCEPT ![w] = q] BY <2>2
    <3> HIDE DEF q
    <3>5. GoesOn(w) /\ work'[w].at = "finish" BY <1>t, <2>2, <3>3, <3>4 DEF GoesOn
    <3> QED BY <2>0, <3>5 DEF Running, UnderWay, LogStep
  <2> QED BY <1>7, <2>1, <2>2 DEF Reconcile
<1>8. CASE Finish(w)
  <2>1. Leaves(w) BY <1>8, <1>f, EndsLeaves DEF Finish
  <2> QED BY <1>8, <1>i, <2>1 DEF Leaves, Finish, Running, UnderWay, LogStep, Closes, CloseFails, StaysOpen
<1>9. CASE CloseRefused(w)
  BY <1>t, <1>9, MovesGoesOn
     DEF CloseRefused, Running, UnderWay, LogStep, Closes, CloseFails, StaysOpen, Stages
<1>10. CASE Park(w)
  <2>1. Leaves(w) BY <1>10, <1>f, EndsLeaves DEF Park
  <2> QED BY <1>10, <1>i, <2>1 DEF Leaves, Park, Running, UnderWay, LogStep, log
<1>11. CASE Fails(w)
  <2>1. Leaves(w) BY <1>11, <1>f, EndsLeaves DEF Fails
  <2> QED BY <1>11, <1>i, <2>1 DEF Leaves, Fails, Running, UnderWay, LogStep, ClosesFailed, Closes, StaysOpen
<1>12. CASE Crash(w)
  BY <1>t, <1>12, <1>i DEF Crash, Leaves, Running, UnderWay, LogStep
<1> QED BY <1>1, <1>2, <1>3, <1>4, <1>5, <1>6, <1>7, <1>8, <1>9, <1>10, <1>11, <1>12 DEF Step

(* The steps that concern no run: a job may be queued where there was none.  *)
Quiet == /\ UNCHANGED <<work, rescued, open, unclosed>>
         /\ \/ UNCHANGED job
            \/ job.state = "none" /\ job' \in JobStates /\ job'.state = "available" /\ job'.tries = 0
(* The steps that take the job from every run.                               *)
HoldsAll == /\ job' \in Over /\ work' = [v \in Workers |-> Hold(work[v], job')]
            /\ UNCHANGED <<open, unclosed>>
            /\ (Holders = {} /\ UNCHANGED rescued) \/ (Holders # {} /\ rescued' = rescued + 1)
(* A run begins.                                                             *)
Begins(w) == /\ ~Running(w) /\ job.state # "running"
             /\ work' \in [Workers -> Runs] /\ \A v \in Workers \ {w} : work'[v] = work[v]
             /\ work'[w].at = "fetch" /\ work'[w].slot = "held" /\ work'[w].token = token
             /\ job' \in JobStates /\ job'.state = "running"
             /\ open' = open + 1 /\ UNCHANGED <<unclosed, rescued>> /\ MayRun
LEMMA QuietSteps ==
  ASSUME Typed, World \/ Owner \/ Requested \/ Registry \/ Dispatch \/ UNCHANGED vars
  PROVE  Quiet
<1>1. Queued = job \/ (job.state = "none" /\ Queued \in JobStates /\ Queued.state = "available" /\ Queued.tries = 0)
  BY DEF Queued, Unfinished, JobStates
<1>2. CASE World BY <1>2 DEF World, BrokerBooks, BrokerRevokes, EventRecorded, Quiet, queue, log
<1>3. CASE Owner BY <1>3 DEF Owner, Ask, Remove, NewToken, Switch, Quiet, queue, log
<1>4. CASE Requested
  BY <1>1, <1>4 DEF Requested, CreateReplacing, CreateExplanation, AskForSync, Quiet, queue, log
<1>5. CASE Registry BY <1>1, <1>5 DEF Registry, RegistryWrites, QueueRecheck, Quiet, queue, log
<1>6. CASE Dispatch BY <1>1, <1>6 DEF Dispatch, Quiet, log
<1>7. CASE UNCHANGED vars BY <1>7 DEF vars, Quiet
<1> QED BY <1>2, <1>3, <1>4, <1>5, <1>6, <1>7
LEMMA JobSteps ==
  ASSUME Typed, Slots
  PROVE  /\ Rescue \/ TakeFails => HoldsAll
         /\ \A w \in Workers : Take(w) => HoldsAll \/ Begins(w)
<1>1. job.tries \in Nat /\ job.tries + 1 \in Nat /\ work \in [Workers -> Runs] BY DEF Typed, TypeOK, InOrder
<1>2. Due => Holders = {} BY DEF Due, Slots, Holders
<1>3. Rescue => HoldsAll BY <1>1, FailureIsOver DEF Rescue, HoldsAll, log
<1>4. TakeFails => HoldsAll BY <1>1, <1>2, FailureIsOver DEF TakeFails, HoldsAll, log
<1>5. ASSUME NEW w \in Workers, Take(w) PROVE HoldsAll \/ Begins(w)
  <2>1. Due /\ ~Running(w) /\ UNCHANGED <<rescued, unclosed>> BY <1>5 DEF Take
  <2>2. CASE Drops /\ UNCHANGED open
    BY <1>1, <1>2, <2>1, <2>2, FailureIsOver DEF Drops, HoldsAll
  <2>3. CASE /\ job' = [state |-> "running", tries |-> job.tries + 1]
             /\ work' = [work EXCEPT ![w] = [Idle EXCEPT !.at = "fetch", !.slot = "held", !.token = token]]
             /\ open' = open + 1 /\ MayRun
    <3> DEFINE r == [Idle EXCEPT !.at = "fetch", !.slot = "held", !.token = token]
    <3>1. r \in Runs /\ r.at = "fetch" /\ r.slot = "held" /\ r.token = token
      BY DEF Typed, TypeOK, Idle, NotChecked, Runs, Stages, Verdicts
    <3>2. work' = [work EXCEPT ![w] = r] BY <2>3
    <3> HIDE DEF r
    <3>3. /\ work' \in [Workers -> Runs] /\ work'[w] = r
          /\ \A v \in Workers \ {w} : work'[v] = work[v]
      BY <1>1, <3>1, <3>2
    <3>4. job.tries + 1 <= MaxTries /\ job.state # "running" BY <1>1, <2>1 DEF Due, Typed, InOrder
    <3>5. job' \in JobStates /\ job'.state = "running" BY <1>1, <2>3, <3>4 DEF JobStates
    <3> QED BY <2>1, <2>3, <3>1, <3>3, <3>4, <3>5 DEF Begins
  <2> QED BY <1>5, <2>1, <2>2, <2>3 DEF Take
<1> QED BY <1>3, <1>4, <1>5

(* How many runs were given up on, when one more is, or one has ended.       *)
LEMMA SmallSets ==
  /\ \A S \in SUBSET Workers : IsFiniteSet(S) /\ Cardinality(S) \in Nat
  /\ \A S, T \in SUBSET Workers : S \subseteq T => Cardinality(S) <= Cardinality(T)
  /\ \A S \in SUBSET Workers, w \in Workers :
       /\ w \notin S => Cardinality(S \cup {w}) = Cardinality(S) + 1
       /\ w \in S => Cardinality(S \ {w}) = Cardinality(S) - 1
<1>1. \A S \in SUBSET Workers : IsFiniteSet(S) /\ Cardinality(S) \in Nat
  BY FS_Subset, FS_CardinalityType
<1>2. ASSUME NEW S \in SUBSET Workers, NEW T \in SUBSET Workers, S \subseteq T
      PROVE  Cardinality(S) <= Cardinality(T)
  BY <1>1, <1>2, FS_Subset
<1>3. ASSUME NEW S \in SUBSET Workers, NEW w \in Workers
      PROVE  /\ w \notin S => Cardinality(S \cup {w}) = Cardinality(S) + 1
             /\ w \in S => Cardinality(S \ {w}) = Cardinality(S) - 1
  BY <1>1, FS_AddElement, FS_RemoveElement
<1> QED BY <1>1, <1>2, <1>3

LEMMA SlotsStep ==
  ASSUME Typed, Slots,
         \/ Quiet
         \/ HoldsAll
         \/ \E w \in Workers : Begins(w)
         \/ \E w \in Workers : Running(w) /\ (GoesOn(w) \/ Leaves(w))
  PROVE  Slots'
<1> USE DEF Slots
<1>t. /\ work \in [Workers -> Runs] /\ rescued \in Nat /\ Idle.slot = "lost" /\ Idle.at = "idle"
      /\ \A v \in Workers : work[v].at = "idle" => work[v].slot = "lost"
  BY IdleIsARun DEF Typed, InOrder
<1>o. Overtaken \in SUBSET Workers /\ Overtaken' \in SUBSET Workers
      /\ Cardinality(Overtaken) \in Nat /\ Cardinality(Overtaken') \in Nat
  BY SmallSets DEF Overtaken
(* It is enough to see whom it gains. *)
<1>k. ASSUME \A v \in Workers : work'[v].slot = "held" => job'.state = "running",
             \A v, u \in Workers : work'[v].slot = "held" /\ work'[u].slot = "held" => v = u,
             Overtaken' \subseteq Overtaken, rescued' = rescued
      PROVE  Slots'
  <2>1. Cardinality(Overtaken') <= Cardinality(Overtaken) BY <1>o, <1>k, SmallSets
  <2> QED BY <1>t, <1>o, <1>k, <2>1
<1>h. ASSUME NEW j, NEW v \in Workers
      PROVE  /\ Hold(work[v], j).at = work[v].at /\ Hold(work[v], j).slot # "held"
  BY <1>t, HoldFacts
<1>1. CASE Quiet
  BY <1>1, <1>k, <1>t DEF Quiet, Overtaken, Running
<1>2. CASE HoldsAll
  <2>1. \A v \in Workers : work'[v].at = work[v].at /\ work'[v].slot # "held"
    BY <1>2, <1>h DEF HoldsAll
  <2>2. CASE Holders = {} /\ UNCHANGED rescued
    <3>1. Overtaken' \subseteq Overtaken BY <2>1, <2>2 DEF Overtaken, Running, Holders
    <3> QED BY <2>1, <2>2, <3>1, <1>k
  <2>3. CASE Holders # {} /\ rescued' = rescued + 1
    <3>1. PICK h \in Workers : work[h].slot = "held" BY <2>3 DEF Holders
    <3>2. h \notin Overtaken /\ Overtaken' \subseteq Overtaken \cup {h}
      BY <2>1, <3>1 DEF Overtaken, Running
    <3>3. Cardinality(Overtaken') <= Cardinality(Overtaken \cup {h}) BY <1>o, <3>2, SmallSets
    <3>4. Cardinality(Overtaken \cup {h}) = Cardinality(Overtaken) + 1 BY <1>o, <3>2, SmallSets
    <3> QED BY <1>t, <1>o, <2>1, <2>3, <3>3, <3>4
  <2> QED BY <1>2, <2>2, <2>3 DEF HoldsAll
<1>3. ASSUME NEW w \in Workers, Begins(w) PROVE Slots'
  <2>1. \A v \in Workers : work[v].slot # "held" BY <1>3 DEF Begins
  <2>2. Overtaken' \subseteq Overtaken BY <1>3 DEF Begins, Overtaken, Running
  <2>3. rescued' = rescued /\ job'.state = "running" /\ \A v \in Workers \ {w} : work'[v] = work[v]
    BY <1>3 DEF Begins
  <2> QED BY <2>1, <2>2, <2>3, <1>k
<1>4. ASSUME NEW w \in Workers, Running(w), GoesOn(w) PROVE Slots'
  <2>1. /\ \A v \in Workers \ {w} : work'[v] = work[v]
        /\ work'[w].at # "idle" /\ work'[w].slot = work[w].slot /\ UNCHANGED <<job, rescued>>
    BY <1>4 DEF GoesOn
  <2>2. \A v \in Workers : work'[v].slot = work[v].slot BY <2>1
  <2>3. Overtaken' \subseteq Overtaken BY <1>4, <2>1, <2>2 DEF Overtaken, Running
  <2> QED BY <2>1, <2>2, <2>3, <1>k
<1>5. ASSUME NEW w \in Workers, Running(w), Leaves(w) PROVE Slots'
  <2>0. work'[w] = Idle /\ rescued' = rescued BY <1>5 DEF Leaves
  <2>1. CASE UNCHANGED job /\ \A v \in Workers \ {w} : work'[v] = work[v]
    <3>1. \A v \in Workers : work'[v].slot = "held" => work[v].slot = "held" BY <1>t, <2>0, <2>1
    <3>2. Overtaken' \subseteq Overtaken BY <1>t, <2>0, <2>1 DEF Overtaken, Running
    <3> QED BY <2>0, <2>1, <3>1, <3>2, <1>k
  <2>2. CASE \A v \in Workers \ {w} : work'[v] = Hold(work[v], job')
    <3>1. \A v \in Workers : work'[v].slot # "held" BY <1>t, <1>h, <2>0, <2>2
    <3>2. \A v \in Workers \ {w} : work'[v].at = work[v].at BY <1>h, <2>2
    <3>3. w \notin Overtaken' BY <1>t, <2>0 DEF Overtaken, Running
    <3>4. CASE \E h \in Workers \ {w} : work[h].slot = "held"
      <4>1. PICK h \in Workers \ {w} : work[h].slot = "held" BY <3>4
      <4>2. w \in Overtaken /\ h \notin Overtaken BY <4>1, <1>5 DEF Overtaken
      <4>3. Overtaken' \subseteq (Overtaken \ {w}) \cup {h}
        <5> SUFFICES ASSUME NEW v \in Overtaken' PROVE v \in (Overtaken \ {w}) \cup {h}
          OBVIOUS
        <5>1. v \in Workers /\ v # w /\ work'[v].at # "idle" BY <3>3 DEF Overtaken, Running
        <5>2. work[v].at # "idle" BY <3>2, <5>1
        <5> QED BY <4>1, <5>1, <5>2 DEF Overtaken, Running
      <4>4. Cardinality((Overtaken \ {w}) \cup {h}) = Cardinality(Overtaken \ {w}) + 1
        <5>1. Overtaken \ {w} \in SUBSET Workers /\ h \notin Overtaken \ {w} BY <1>o, <4>2
        <5> QED BY <5>1, SmallSets
      <4>5. Cardinality(Overtaken \ {w}) = Cardinality(Overtaken) - 1 BY <1>o, <4>2, SmallSets
      <4>6. Cardinality(Overtaken') <= Cardinality((Overtaken \ {w}) \cup {h})
        <5>1. (Overtaken \ {w}) \cup {h} \in SUBSET Workers BY <1>o
        <5> QED BY <1>o, <4>3, <5>1, SmallSets
      <4>7. Cardinality(Overtaken') <= Cardinality(Overtaken) BY <1>o, <4>4, <4>5, <4>6
      <4> QED BY <1>t, <1>o, <2>0, <3>1, <4>7
    <3>5. CASE \A h \in Workers \ {w} : work[h].slot # "held"
      <4>1. Overtaken' \subseteq Overtaken BY <3>2, <3>3, <3>5 DEF Overtaken, Running
      <4> QED BY <2>0, <3>1, <4>1, <1>k
    <3> QED BY <3>4, <3>5
  <2> QED BY <1>5, <2>1, <2>2 DEF Leaves
<1> QED BY <1>1, <1>2, <1>3, <1>4, <1>5

(* One entry is opened, or one that says "running" ends: every other run     *)
(* stays where it was for the log.                                           *)
LEMMA LogClosedStep ==
  ASSUME Typed, LogClosed,
         \/ Quiet
         \/ HoldsAll
         \/ \E w \in Workers : Begins(w)
         \/ \E w \in Workers : (GoesOn(w) \/ Leaves(w)) /\ LogStep(w)
  PROVE  LogClosed'
<1> DEFINE U == {v \in Workers : UnderWay(v)}
           V == {v \in Workers : UnderWay(v)'}
<1>t. /\ work \in [Workers -> Runs] /\ open \in Nat /\ unclosed \in Nat
      /\ Idle.at = "idle" /\ open = Cardinality(U) + unclosed
      /\ U \in SUBSET Workers /\ V \in SUBSET Workers /\ Cardinality(U) \in Nat /\ Cardinality(V) \in Nat
  BY IdleIsARun, SmallSets DEF Typed, TypeOK, InOrder, LogClosed
<1>v. ASSUME open' = Cardinality(V) + unclosed' PROVE LogClosed' BY <1>v DEF LogClosed, UnderWay
<1>1. CASE Quiet
  <2>1. V = U BY <1>1 DEF Quiet, UnderWay
  <2> QED BY <1>1, <1>t, <1>v, <2>1 DEF Quiet
<1>2. CASE HoldsAll
  <2>1. \A v \in Workers : work'[v].at = work[v].at BY <1>2, <1>t, HoldFacts DEF HoldsAll
  <2>2. V = U BY <2>1 DEF UnderWay
  <2> QED BY <1>2, <1>t, <1>v, <2>2 DEF HoldsAll
<1>3. ASSUME NEW w \in Workers, Begins(w) PROVE LogClosed'
  <2>1. w \notin U /\ V = U \cup {w} BY <1>3 DEF Begins, UnderWay, Running
  <2>2. Cardinality(V) = Cardinality(U) + 1 BY <1>t, <2>1, SmallSets
  <2>3. open' = open + 1 /\ unclosed' = unclosed BY <1>3 DEF Begins
  <2> HIDE DEF U, V
  <2> QED BY <1>t, <1>v, <2>2, <2>3
<1>4. ASSUME NEW w \in Workers, GoesOn(w) \/ Leaves(w), LogStep(w) PROVE LogClosed'
  <2>1. \A v \in Workers \ {w} : work'[v].at = work[v].at
    BY <1>4, <1>t, HoldFacts DEF GoesOn, Leaves
  <2>2. CASE (UnderWay(w) <=> UnderWay(w)') /\ UNCHANGED <<open, unclosed>>
    <3>1. V = U BY <2>1, <2>2 DEF UnderWay
    <3> QED BY <1>t, <1>v, <2>2, <3>1
  <2>3. CASE UnderWay(w) /\ ~UnderWay(w)'
    <3>1. w \in U /\ V = U \ {w} BY <2>1, <2>3 DEF UnderWay
    <3>2. Cardinality(V) = Cardinality(U) - 1 BY <1>t, <3>1, SmallSets
    <3>3. \/ open' = open - 1 /\ unclosed' = unclosed
          \/ open' = open /\ unclosed' = unclosed + 1
      BY <1>4, <2>3 DEF LogStep
    <3> HIDE DEF U, V
    <3> QED BY <1>t, <1>v, <3>2, <3>3
  <2> QED BY <1>4, <2>2, <2>3 DEF LogStep
<1> QED BY <1>1, <1>2, <1>3, <1>4

(* Every step is one of these. *)
LEMMA StepKinds ==
  ASSUME Typed, Slots, [Next]_vars
  PROVE  \/ Quiet
         \/ HoldsAll
         \/ \E w \in Workers : Begins(w)
         \/ \E w \in Workers : Running(w) /\ (GoesOn(w) \/ Leaves(w)) /\ LogStep(w)
BY QuietSteps, JobSteps, RunStep DEF Next, Taken

(* What lies outside the runs keeps its shape: the mirror and the journal    *)
(* are not ahead of the broker, whichever run writes them last.              *)
Around == /\ status \in {"active", "token_revoked", "disabled"} /\ token \in Tokens
          /\ good \subseteq Tokens /\ booked \in 1..MaxBooked \cup {1} /\ mirror \in 0..booked
          /\ row \in 0..booked /\ hand \in BOOLEAN /\ reg \in 0..events /\ explained \in BOOLEAN
          /\ events \in Nat
LEMMA AroundStep ==
  ASSUME Typed, [Next]_vars PROVE Around' /\ booked' >= booked
<1>w. Tokens' = Tokens /\ MaxBooked' = MaxBooked BY ParametersStay
<1>a. Around BY DEF Typed, TypeOK, InOrder, Around
<1>b. MaxBooked \in Nat /\ booked \in Nat BY <1>a DEF Around, Typed, InOrder, MaxBooked
<1>r. \A w \in Workers : /\ work[w].read \in Nat
                         /\ work[w].at \in {"mirror", "difference", "write"} => work[w].read <= booked
  BY DEF Typed, InOrder, Runs
<1> USE DEF Around, outside, connection, journal, owner
<1>1. CASE World BY <1>w, <1>a, <1>b, <1>1 DEF World, BrokerBooks, EventRecorded, BrokerRevokes
<1>2. CASE Owner
  <2>1. CASE Ask \/ Remove
    <3>1. UNCHANGED <<status, token, good, booked, events, mirror, row, reg>> BY <2>1 DEF Ask, Remove
    <3>2. hand' \in BOOLEAN /\ explained' \in BOOLEAN BY <1>a, <2>1, Zenon DEF Ask, Remove
    <3> QED BY <1>w, <1>a, <1>b, <3>1, <3>2
  <2>2. ASSUME NEW t \in Tokens, NewToken(t) PROVE Around' /\ booked' >= booked
    BY <1>w, <1>a, <1>b, <2>2 DEF NewToken
  <2>3. ASSUME NEW s \in {"active", "disabled"}, Switch(s) PROVE Around' /\ booked' >= booked
    BY <1>w, <1>a, <1>b, <2>3 DEF Switch
  <2> QED BY <1>2, <2>1, <2>2, <2>3 DEF Owner
<1>3. CASE Requested
  <2>1. CASE CreateReplacing
    <3>1. row' = row \/ row' = 0 BY <2>1 DEF CreateReplacing, Nothing
    <3>3. hand' \in BOOLEAN BY <1>a, <2>1, Zenon DEF CreateReplacing
    <3>2. UNCHANGED <<status, token, good, booked, events, mirror, reg, explained>> BY <2>1 DEF CreateReplacing
    <3> QED BY <1>w, <1>a, <1>b, <3>1, <3>2, <3>3
  <2>2. CASE CreateExplanation BY <1>w, <1>a, <1>b, <2>2 DEF CreateExplanation
  <2>3. CASE AskForSync BY <1>w, <1>a, <1>b, <2>3 DEF AskForSync
  <2> QED BY <1>3, <2>1, <2>2, <2>3 DEF Requested
<1>4. CASE Registry BY <1>w, <1>a, <1>b, <1>4 DEF Registry, RegistryWrites, QueueRecheck
<1>5. CASE Dispatch \/ TakeFails \/ Rescue \/ UNCHANGED vars
  BY <1>w, <1>a, <1>b, <1>5 DEF Dispatch, TakeFails, Rescue, vars
<1>6. ASSUME NEW w \in Workers, Take(w) PROVE Around' /\ booked' >= booked
  BY <1>w, <1>a, <1>b, <1>6 DEF Take
<1>7. ASSUME NEW w \in Workers, BringIntoLine(w) PROVE Around' /\ booked' >= booked
  BY <1>w, <1>a, <1>b, <1>r, <1>7 DEF BringIntoLine
<1>8. ASSUME NEW w \in Workers, WriteJournal(w) PROVE Around' /\ booked' >= booked
  <2>1. row' = row \/ row' = work[w].read \/ row' = 0 BY <1>8 DEF WriteJournal, Nothing
  <2>2. UNCHANGED <<status, token, good, booked, events, mirror, hand, reg, explained>> BY <1>8 DEF WriteJournal
  <2>3. work[w].at = "write" BY <1>8 DEF WriteJournal
  <2> QED BY <1>w, <1>a, <1>b, <1>r, <2>1, <2>2, <2>3
<1>9. ASSUME NEW w \in Workers, Fetch(w) \/ Project(w) \/ Difference(w) \/ Align(w) \/ Reconcile(w) \/ Finish(w)
      PROVE  Around' /\ booked' >= booked
  BY <1>w, <1>a, <1>b, <1>9 DEF Fetch, Project, Difference, Align, Reconcile, Finish
<1>10. ASSUME NEW w \in Workers, CloseRefused(w) \/ Park(w) \/ Fails(w) \/ Crash(w)
       PROVE  Around' /\ booked' >= booked
  BY <1>w, <1>a, <1>b, <1>10 DEF CloseRefused, Park, Parked, Fails, Crash
<1> QED BY <1>1, <1>2, <1>3, <1>4, <1>5, <1>6, <1>7, <1>8, <1>9, <1>10 DEF Next, Taken, Step

LEMMA ClosedStep ==
  ASSUME Closed, [Next]_vars PROVE Closed'
<1>c. Typed /\ Slots /\ LogClosed BY DEF Closed
<1>w. world' = world /\ Runs' = Runs BY WorldStays, ParametersStay
<1>k. \/ Quiet
      \/ HoldsAll
      \/ \E w \in Workers : Begins(w)
      \/ \E w \in Workers : Running(w) /\ (GoesOn(w) \/ Leaves(w)) /\ LogStep(w)
  BY <1>c, StepKinds
<1>1. Slots' BY <1>c, <1>k, SlotsStep
<1>2. LogClosed' BY <1>c, <1>k, LogClosedStep
<1>a. Around' /\ booked' >= booked /\ booked \in Nat /\ booked' \in Nat
  <2>1. Around' /\ booked' >= booked BY <1>c, AroundStep
  <2>2. MaxBooked \in Nat /\ MaxBooked' \in Nat /\ booked \in Nat BY <1>c, <1>w DEF Typed, TypeOK, InOrder, MaxBooked
  <2> QED BY <2>1, <2>2 DEF Around
<1>t. /\ work \in [Workers -> Runs] /\ job \in JobStates /\ rescued \in Nat /\ unclosed \in Nat
      /\ \A v \in Workers : /\ work[v].read \in Nat
                            /\ work[v].at \in {"mirror", "difference", "write"} => work[v].read <= booked
                            /\ work[v].at = "idle" => work[v] = Idle
      /\ job.state = "available" => job.tries = 0
      /\ job.state = "retryable" => job.tries < MaxTries
      /\ Idle.at = "idle" /\ Idle \in Runs
  BY <1>c, IdleIsARun DEF Typed, InOrder, Runs
<1> DEFINE Fine(v) == /\ work'[v].at \in {"mirror", "difference", "write"} => work'[v].read <= booked
                      /\ work'[v].at = "idle" => work'[v] = Idle
           GoodJob == /\ job' \in JobStates /\ (job'.state = "available" => job'.tries = 0)
                      /\ (job'.state = "retryable" => job'.tries < MaxTries)
<1>h. ASSUME NEW v \in Workers, NEW j, work'[v] = Hold(work[v], j) PROVE Fine(v)
  BY <1>t, <1>h, HoldFacts
<1>3. /\ work' \in [Workers -> Runs] /\ (\A v \in Workers : Fine(v)) /\ GoodJob
      /\ rescued' \in Nat /\ unclosed' \in Nat
  <2>1. CASE Quiet BY <1>t, <2>1 DEF Quiet
  <2>2. CASE HoldsAll
    <3>1. \A v \in Workers : work'[v] = Hold(work[v], job') BY <2>2 DEF HoldsAll
    <3>2. work' \in [Workers -> Runs]
      <4>1. \A v \in Workers : Hold(work[v], job') \in Runs BY <1>t, HoldFacts
      <4> QED BY <2>2, <4>1 DEF HoldsAll
    <3>3. GoodJob BY <2>2, OverStates DEF HoldsAll
    <3>4. rescued' \in Nat /\ unclosed' \in Nat BY <1>t, <2>2 DEF HoldsAll
    <3>5. \A v \in Workers : Fine(v) BY <3>1, <1>h
    <3> HIDE DEF Fine, GoodJob
    <3> QED BY <3>2, <3>3, <3>4, <3>5
  <2>3. ASSUME NEW w \in Workers, Begins(w)
        PROVE  /\ work' \in [Workers -> Runs] /\ (\A v \in Workers : Fine(v)) /\ GoodJob
               /\ rescued' \in Nat /\ unclosed' \in Nat
    BY <1>t, <2>3 DEF Begins
  <2>4. ASSUME NEW w \in Workers, GoesOn(w), LogStep(w)
        PROVE  /\ work' \in [Workers -> Runs] /\ (\A v \in Workers : Fine(v)) /\ GoodJob
               /\ rescued' \in Nat /\ unclosed' \in Nat
    BY <1>t, <2>4 DEF GoesOn, LogStep
  <2>5. ASSUME NEW w \in Workers, Leaves(w), LogStep(w)
        PROVE  /\ work' \in [Workers -> Runs] /\ (\A v \in Workers : Fine(v)) /\ GoodJob
               /\ rescued' \in Nat /\ unclosed' \in Nat
    <3>1. work' \in [Workers -> Runs] /\ rescued' \in Nat /\ unclosed' \in Nat
      BY <1>t, <2>5 DEF Leaves, LogStep
    <3>2. GoodJob BY <1>t, <2>5, OverStates DEF Leaves
    <3>3. ASSUME NEW v \in Workers PROVE Fine(v)
      <4>1. CASE work'[v] = Idle BY <1>t, <4>1
      <4>2. CASE work'[v] = work[v] BY <1>t, <4>2
      <4>3. CASE work'[v] = Hold(work[v], job') BY <4>3, <1>h
      <4> HIDE DEF Fine
      <4> QED BY <2>5, <4>1, <4>2, <4>3 DEF Leaves
    <3> HIDE DEF Fine, GoodJob
    <3> QED BY <3>1, <3>2, <3>3
  <2> HIDE DEF Fine, GoodJob
  <2> QED BY <1>k, <2>1, <2>2, <2>3, <2>4, <2>5
<1>4. InOrder'
  <2>1. \A v \in Workers : /\ work'[v].at \in {"mirror", "difference", "write"} => work'[v].read <= booked'
                           /\ work'[v].at = "idle" => work'[v] = Idle
    <3>1. \A v \in Workers : work'[v].read \in Nat BY <1>3 DEF Runs
    <3> QED BY <1>a, <1>3, <3>1
  <2>2. world' \in DOMAIN Worlds /\ events' \in Nat BY <1>c, <1>w, <1>a DEF Typed, InOrder, Around
  <2> QED BY <1>w, <1>3, <2>1, <2>2 DEF InOrder
<1>5. TypeOK'
  <2>1. open' \in Nat
    <3>1. {w \in Workers : UnderWay(w)'} \in SUBSET Workers OBVIOUS
    <3>2. Cardinality({w \in Workers : UnderWay(w)'}) \in Nat BY <3>1, SmallSets
    <3> QED BY <1>2, <1>3, <3>2 DEF LogClosed, UnderWay
  <2>2. job'.state \in {"none", "available", "running", "retryable"} /\ job'.tries \in 0..MaxTries
    BY <1>3 DEF JobStates
  <2> QED BY <1>a, <2>1, <2>2 DEF TypeOK, Around
<1> QED BY <1>1, <1>2, <1>4, <1>5 DEF Closed, Typed

(* At the start there is no job, no run, and a silent log.                   *)
LEMMA ClosedInit ==
  ASSUME Init PROVE Closed
<1>1. /\ world \in DOMAIN Worlds /\ 1 \in Tokens /\ MaxBooked \in Nat
  BY DEF Init, Tokens, MaxBooked
<1>2. /\ work \in [Workers -> Runs] /\ \A w \in Workers : work[w] = Idle /\ work[w].at = "idle" /\ work[w].slot = "lost"
  BY IdleIsARun DEF Init
<1>3. job \in JobStates /\ job.state = "none" /\ job.tries = 0 BY DEF Init, NoJob, JobStates
<1>4. /\ status = "active" /\ token = 1 /\ good = Tokens /\ booked = 1 /\ mirror = 0 /\ row = 0
      /\ hand = FALSE /\ reg = 0 /\ explained = FALSE /\ events = 0 /\ open = 0 /\ unclosed = 0 /\ rescued = 0
  BY DEF Init, Nothing
<1>5. TypeOK
  <2>1. job.tries \in 0..MaxTries /\ open \in Nat /\ row \in 0..booked /\ reg \in 0..events /\ mirror \in 0..booked
    BY <1>3, <1>4
  <2> QED BY <1>1, <1>3, <1>4, <2>1 DEF TypeOK
<1>6. InOrder BY <1>1, <1>2, <1>3, <1>4 DEF InOrder
<1>7. Slots
  <2>1. Overtaken = {} BY <1>2 DEF Overtaken, Running
  <2> QED BY <1>2, <1>4, <2>1, FS_EmptySet DEF Slots
<1>8. LogClosed
  <2>0. \A w \in Workers : ~UnderWay(w) BY <1>2 DEF UnderWay
  <2>1. {w \in Workers : UnderWay(w)} = {} BY <2>0
  <2>2. Cardinality({w \in Workers : UnderWay(w)}) = 0 BY <2>1, FS_EmptySet
  <2> QED BY <1>4, <2>2 DEF LogClosed
<1> QED BY <1>5, <1>6, <1>7, <1>8 DEF Closed, Typed

(* What the connection, its job and its runs can be, whatever happens: the   *)
(* mirror and the journal are never ahead of the broker, however runs        *)
(* overtake one another, and a job has no more attempts than it is allowed.  *)
THEOREM TypeCorrect == Spec => []TypeOK
<1>1. Init => Closed BY ClosedInit
<1>2. Closed /\ [Next]_vars => Closed' BY ClosedStep
<1>3. Closed => TypeOK BY DEF Closed, Typed
<1> QED BY <1>1, <1>2, <1>3, PTL DEF Spec

(* EnqueueSync's uniqueness: beside the run that has the connection's slot   *)
(* go at most as many as River gave up on while they were alive, whoever     *)
(* asks for a sync, whatever fails or dies, and although a run that was      *)
(* given up on may end the job of the run that followed it.                  *)
THEOREM SlotIsTheRuns == Spec => []SlotHeld
<1>1. Init => Closed BY ClosedInit
<1>2. Closed /\ [Next]_vars => Closed' BY ClosedStep
<1>3. ASSUME Closed PROVE SlotHeld
  <2> DEFINE L == {w \in Workers : Running(w)}
  <2>1. /\ L \in SUBSET Workers /\ Overtaken \in SUBSET Workers /\ rescued \in Nat
        /\ Cardinality(Overtaken) <= rescued
        /\ \A w \in Workers : work[w].slot = "held" => job.state = "running"
        /\ \A v, w \in Workers : work[v].slot = "held" /\ work[w].slot = "held" => v = w
    BY <1>3 DEF Closed, Typed, InOrder, Slots, Overtaken
  <2>2. Cardinality(L) \in Nat /\ Cardinality(Overtaken) \in Nat BY <2>1, SmallSets
  <2>3. CASE \A w \in Workers : work[w].slot # "held"
    <3>1. L \subseteq Overtaken BY <2>3 DEF Overtaken
    <3>2. Cardinality(L) <= Cardinality(Overtaken) BY <2>1, <3>1, SmallSets
    <3> QED BY <2>1, <2>2, <3>2 DEF SlotHeld
  <2>4. CASE \E w \in Workers : work[w].slot = "held"
    <3>1. PICK h \in Workers : work[h].slot = "held" BY <2>4
    <3>2. L \subseteq Overtaken \cup {h} /\ h \notin Overtaken BY <2>1, <3>1 DEF Overtaken
    <3>3. Cardinality(L) <= Cardinality(Overtaken \cup {h}) BY <2>1, <3>2, SmallSets
    <3>4. Cardinality(Overtaken \cup {h}) = Cardinality(Overtaken) + 1 BY <2>1, <3>2, SmallSets
    <3>5. job.state = "running" BY <2>1, <3>1
    <3> QED BY <2>1, <2>2, <3>3, <3>4, <3>5 DEF SlotHeld
  <2> QED BY <2>3, <2>4
<1> QED BY <1>1, <1>2, <1>3, PTL DEF Spec

(* StartRun and FinishRun pair off, also for runs that overlap: the entries  *)
(* that say "running" are those of the runs under way, and one for each run  *)
(* that died or that FinishRun failed for; no run is closed twice.           *)
THEOREM LogIsClosed == Spec => []LogClosed
<1>1. Init => Closed BY ClosedInit
<1>2. Closed /\ [Next]_vars => Closed' BY ClosedStep
<1>3. Closed => LogClosed BY DEF Closed
<1> QED BY <1>1, <1>2, <1>3, PTL DEF Spec

(* A token a run was refused with is one the broker does not accept any      *)
(* more, so it is neither the token of an active connection nor comes back   *)
(* as a new one; a run that has been refused holds such a token until it has *)
(* parked the connection.                                                    *)
Dead == /\ refused \cap good = {}
        /\ \A w \in Workers : work[w].at \in {"refused", "park"} => work[w].token \notin good
        /\ status = "active" => token \notin refused
LEMMA DeadInit ==
  ASSUME Init PROVE Dead
BY IdleIsARun DEF Init, Dead
LEMMA DeadStep ==
  ASSUME Closed, Dead, [Next]_vars PROVE Dead'
<1> USE DEF Dead
<1>c. Typed /\ Slots /\ work \in [Workers -> Runs] BY DEF Closed, Typed, InOrder
<1>i. Idle.at = "idle" BY IdleIsARun
(* A run that stays as it was, or ends, or is given up on. *)
<1>k. ASSUME UNCHANGED good, NEW v \in Workers, NEW j,
             work'[v] = work[v] \/ work'[v] = Idle \/ work'[v] = Hold(work[v], j)
      PROVE  work'[v].at \in {"refused", "park"} => work'[v].token \notin good'
  BY <1>c, <1>i, <1>k, HoldFacts
<1>1. CASE World
  BY <1>1 DEF World, BrokerBooks, EventRecorded, BrokerRevokes, connection, queue
<1>2. CASE Owner
  BY <1>2 DEF Owner, Ask, Remove, NewToken, Switch, connection, outside, queue
<1>3. CASE Requested \/ Registry \/ Dispatch
  BY <1>3 DEF Requested, CreateReplacing, CreateExplanation, AskForSync, Registry, RegistryWrites,
              QueueRecheck, Dispatch, connection, outside, queue
<1>4. CASE TakeFails \/ Rescue
  <2>1. HoldsAll /\ UNCHANGED <<good, refused, status, token>>
    BY <1>4, <1>c, JobSteps DEF TakeFails, Rescue, connection, outside
  <2>2. \A v \in Workers : work'[v] = Hold(work[v], job') BY <2>1 DEF HoldsAll
  <2> QED BY <2>1, <2>2, <1>k
<1>5. ASSUME NEW w \in Workers, Take(w) PROVE Dead'
  <2>1. UNCHANGED <<token, good, refused>> BY <1>5 DEF Take, outside
  <2>2. status' \in {status, "token_revoked"} BY <1>5 DEF Take
  <2>3. CASE HoldsAll
    <3>1. \A v \in Workers : work'[v] = Hold(work[v], job') BY <2>3 DEF HoldsAll
    <3> QED BY <2>1, <2>2, <3>1, <1>k
  <2>4. CASE Begins(w) BY <2>1, <2>2, <2>4 DEF Begins
  <2> QED BY <1>5, <1>c, <2>3, <2>4, JobSteps
<1>6. ASSUME NEW w \in Workers, Step(w) \/ Fails(w) \/ Crash(w) PROVE Dead'
  <2>1. UNCHANGED <<token, good>>
    BY <1>6 DEF Step, Fetch, BringIntoLine, Project, Difference, WriteJournal, Align, Reconcile,
                Finish, CloseRefused, Park, Fails, Crash, connection, outside
  <2>2. Running(w) /\ (GoesOn(w) \/ Leaves(w)) BY <1>6, <1>c, RunStep
  <2>3. \A v \in Workers \ {w} : work'[v] = work[v] \/ work'[v] = Hold(work[v], job')
    BY <2>2 DEF GoesOn, Leaves
  <2>4. \A v \in Workers \ {w} : work'[v].at \in {"refused", "park"} => work'[v].token \notin good'
    BY <2>1, <2>3, <1>k
  <2>5. CASE Park(w)
    <3>1. work'[w].at = "idle"
      <4>1. job.tries \in Nat BY <1>c DEF Typed, TypeOK
      <4>2. Leaves(w) BY <1>c, <2>5, <4>1, EndsLeaves, FailureIsOver DEF Park
      <4> QED BY <4>2, <1>i DEF Leaves
    <3>2. /\ refused' = refused \/ refused' = refused \cup {work[w].token}
          /\ work[w].at = "park"
          /\ status' = "token_revoked" \/ (status' = status /\ refused' = refused)
      BY <2>5 DEF Park, Parked
    <3> QED BY <2>1, <2>4, <3>1, <3>2
  <2>6. CASE ~Park(w)
    <3>1. UNCHANGED <<refused, status>>
      BY <1>6, <2>6 DEF Step, Fetch, BringIntoLine, Project, Difference, WriteJournal, Align, Reconcile,
                Finish, CloseRefused, Fails, Crash, connection
    <3>2. work'[w].at \in {"refused", "park"} => work'[w].token \notin good
      <4>1. CASE Leaves(w) BY <4>1, <1>i DEF Leaves
      <4>2. CASE GoesOn(w)
        <5>1. work'[w].token = work[w].token BY <4>2 DEF GoesOn
        <5> SUFFICES ASSUME work'[w].at \in {"refused", "park"} PROVE work[w].token \notin good
          BY <5>1
        <5>n. \A s \in Stages \ {"refused", "park"}, n \in Nat : ~Moves(w, s, n)
          BY <1>c, AtFacts DEF Moves, Stages
        <5>2. CASE CloseRefused(w) BY <5>2 DEF CloseRefused
        <5>3. CASE Fetch(w)
          <6>1. booked \in Nat BY <1>c DEF Typed, TypeOK, InOrder, MaxBooked
          <6> QED BY <5>3, <5>n, <6>1 DEF Fetch, Stages
        <5>4. CASE Reconcile(w)
          <6>1. ASSUME work' = [work EXCEPT ![w] = [At(w, "finish", 0) EXCEPT !.found = Struck]]
                PROVE  FALSE
            <7>1. At(w, "finish", 0) \in Runs /\ At(w, "finish", 0).at = "finish" BY <1>c, AtFacts DEF Stages
            <7>2. [At(w, "finish", 0) EXCEPT !.found = Struck].at = "finish" BY <7>1 DEF Runs
            <7> QED BY <1>c, <6>1, <7>2
          <6> QED BY <5>4, <6>1 DEF Reconcile
        <5>5. CASE BringIntoLine(w) \/ Align(w)
          BY <5>5, <5>n DEF BringIntoLine, Align, Stages
        <5>6. CASE Project(w)
          <6>1. Wanted \in Nat BY <1>c DEF Wanted, Nothing, Typed, TypeOK
          <6> QED BY <5>6, <5>n, <6>1 DEF Project, Stages
        <5>7. CASE Difference(w)
          <6>1. /\ work' = [work EXCEPT ![w] = [At(w, "write", work[w].read) EXCEPT !.seen = row]]
                /\ work[w].read \in Nat
            BY <5>7, <1>c DEF Difference, Runs
          <6>2. At(w, "write", work[w].read) \in Runs /\ At(w, "write", work[w].read).at = "write"
            BY <1>c, <6>1, AtFacts DEF Stages
          <6>3. [At(w, "write", work[w].read) EXCEPT !.seen = row].at = "write" BY <6>2 DEF Runs
          <6> QED BY <1>c, <6>1, <6>3
        <5>8. CASE WriteJournal(w) \/ Finish(w) \/ Fails(w)
          <6>1. ASSUME NEW j, Ends(w, j) PROVE FALSE
            <7>1. work'[w] = Idle BY <1>c, <6>1 DEF Ends
            <7> QED BY <7>1, <1>i
          <6> QED BY <5>8, <5>n, <6>1 DEF WriteJournal, Finish, Fails, Stages
        <5>9. CASE Crash(w) BY <1>c, <1>i, <5>9 DEF Crash
        <5> QED BY <1>6, <2>6, <5>2, <5>3, <5>4, <5>5, <5>6, <5>7, <5>8, <5>9 DEF Step
      <4> QED BY <2>2, <4>1, <4>2
    <3> QED BY <2>1, <2>4, <3>1, <3>2
  <2> QED BY <2>5, <2>6
<1>7. CASE UNCHANGED vars
  BY <1>7 DEF vars
<1> QED BY <1>1, <1>2, <1>3, <1>4, <1>5, <1>6, <1>7 DEF Next, Taken
(* failed parks the connection: no later run offers the broker a token it    *)
(* refused, unless the owner switched the connection on with it again.       *)
THEOREM RefusedStaysRefused == Spec => NotOfferedAgain
<1> DEFINE Offers == \A w \in Workers : Starts(w) => work'[w].token \notin refused
<1>1. Init => Closed /\ Dead BY ClosedInit, DeadInit
<1>2. Closed /\ Dead /\ [Next]_vars => (Closed /\ Dead)' BY ClosedStep, DeadStep
<1>3. ASSUME Closed, Dead, [Next]_vars PROVE Offers
  <2> SUFFICES ASSUME NEW w \in Workers, Starts(w) PROVE work'[w].token \notin refused
    OBVIOUS
  <2>c. Typed /\ Slots /\ work \in [Workers -> Runs] BY <1>3 DEF Closed, Typed, InOrder
  <2>s. work[w].at = "idle" /\ work'[w].at = "fetch" BY DEF Starts
  <2>1. CASE Quiet BY <2>1, <2>s DEF Quiet
  <2>2. CASE HoldsAll BY <2>2, <2>c, <2>s, HoldFacts DEF HoldsAll
  <2>3. ASSUME NEW u \in Workers, Begins(u) PROVE work'[w].token \notin refused
    BY <1>3, <2>3, <2>s DEF Begins, Dead, MayRun
  <2>4. ASSUME NEW u \in Workers, Running(u), GoesOn(u) \/ Leaves(u) PROVE work'[w].token \notin refused
    <3>1. w # u BY <2>4, <2>s DEF Running
    <3> QED BY <2>4, <2>c, <2>s, <3>1, HoldFacts DEF GoesOn, Leaves
  <2> QED BY <1>3, <2>c, <2>1, <2>2, <2>3, <2>4, StepKinds
<1> HIDE DEF Offers
<1>4. Closed /\ Dead /\ [Next]_vars => [Offers]_vars BY <1>3
<1>5. Spec => [][Offers]_vars BY <1>1, <1>2, <1>4, PTL DEF Spec
<1> QED BY <1>5 DEF NotOfferedAgain, Offers
=============================================================================
