------------------------------ MODULE SyncRuns ------------------------------
(* The syncs of one broker connection: the queue's single slot for them, the *)
(* workers that carry them out step by step (importer/tinvest/jobs.go), also *)
(* beside one another once River gives up on a run that is alive, and        *)
(* everyone who changes what they read while they run: the broker, the owner *)
(* who replaces the token and explains a record by hand (service.go,         *)
(* explain_service.go), and the registry of corporate actions, which asks    *)
(* for a new check of the accounts it wrote to (recheck.go).                 *)
(*                                                                           *)
(* The connection has one link. Its mirror is the version of the broker's    *)
(* history it was last brought into line with; one record of it may be       *)
(* explained by hand. The journal is what that record produced (the version  *)
(* it was read from, or Nothing), the manual operation, and the registry's   *)
(* rows. A verdict is what the reconciliation compared.                      *)
EXTENDS Naturals, FiniteSets

CONSTANTS MaxTries,   \* attempts of one job (SyncMaxAttempts)
          Workers,    \* who carries out runs
          Worlds      \* by name: the connection, and what happens around it

ASSUME SyncAssumption ==
  /\ MaxTries \in Nat \ {0} /\ Workers \subseteq Nat /\ IsFiniteSet(Workers)
  /\ \A w \in DOMAIN Worlds :
       /\ Worlds[w].tokens \subseteq Nat \ {0} /\ 1 \in Worlds[w].tokens
       /\ Worlds[w].lost \subseteq Worlds[w].tokens
       /\ {Worlds[w].booked, Worlds[w].events, Worlds[w].asked, Worlds[w].faults,
           Worlds[w].rescues} \subseteq Nat

VARIABLES world,             \* the world this is, for good
          status, token,     \* the connection
          good,              \* tokens the broker accepts
          booked,            \* the broker's history, as a version
          mirror,            \* the version the mirror was brought into line with
          row, hand, reg,    \* the journal
          explained,         \* the record is explained by hand
          events,            \* the registry's events, as a version
          job,               \* the connection's job: its state and its attempts
          work,              \* each worker's run
          open,              \* entries of the log of runs that say "running"
          verdict,           \* the last reconciliation the log shows
          request,           \* the owner's request to explain the record
          owed,              \* the registry wrote and has yet to ask for a check
          asked, faults,     \* bounds
          unclosed,          \* runs that ended and could not close their entry
          rescued,           \* runs River gave up on while they were alive
          refused            \* tokens a run parked the connection for

connection == <<status, token>>
journal    == <<row, hand, reg>>
queue      == <<job, work, rescued>>
log        == <<open, unclosed, verdict>>
outside    == <<good, booked, events>>
owner      == <<explained, request, asked>>
vars == <<world, status, token, good, booked, mirror, row, hand, reg, explained, events, job,
          work, open, verdict, request, owed, asked, faults, unclosed, rescued, refused>>

Tokens     == Worlds[world].tokens   \* broker tokens, the first one stored at the start
Lost       == Worlds[world].lost     \* those sealed with a key this process does not have
MaxBooked  == Worlds[world].booked   \* versions of the broker's history
MaxEvents  == Worlds[world].events   \* events of the registry
MaxAsked   == Worlds[world].asked    \* requests of the owner about the record
MaxFaults  == Worlds[world].faults   \* failures of a step, and deaths of a worker
MaxRescues == Worlds[world].rescues  \* times River gives up on a run that is alive

Nothing == 0
NotChecked == [row |-> 0, hand |-> FALSE, reg |-> 0, booked |-> 0]
(* A run: where it stands, the token it read, whether its job is still its   *)
(* own ("held"), one it was given up on ("given") or over ("lost"), what it  *)
(* read from the broker or asks of the journal, what it found there, and     *)
(* what it struck.                                                           *)
Idle == [at |-> "idle", token |-> 0, slot |-> "lost", read |-> 0, seen |-> 0, found |-> NotChecked]
NoJob == [state |-> "none", tries |-> 0]

Unfinished == job.state # "none"
(* Wrong: a job that waits out its backoff does not count as unfinished, and *)
(* one that runs does not either: a second one would run beside it.          *)
Afresh == IF job.state = "available" THEN job ELSE [state |-> "available", tries |-> 0]
(* EnqueueSync: unique over every unfinished state of the connection's job.  *)
Queued == IF Unfinished THEN job ELSE [state |-> "available", tries |-> 0]

Init ==
  /\ world \in DOMAIN Worlds
  /\ status = "active" /\ token = 1 /\ good = Tokens
  /\ booked = 1 /\ mirror = 0
  /\ row = Nothing /\ hand = FALSE /\ reg = 0 /\ explained = FALSE
  /\ events = 0
  /\ job = NoJob /\ work = [w \in Workers |-> Idle] /\ open = 0
  /\ verdict = NotChecked
  /\ request = [at |-> "none", row |-> 0] /\ owed = FALSE
  /\ asked = 0 /\ faults = 0 /\ unclosed = 0 /\ rescued = 0 /\ refused = {}

(* The broker and the registry, outside. *)
BrokerBooks   == /\ booked < MaxBooked /\ booked' = booked + 1
                 /\ UNCHANGED <<world, connection, good, mirror, journal, events, queue, log, owner, owed, faults, refused>>
BrokerRevokes(t) == /\ t \in good /\ \E u \in good : u > t
                    /\ good' = good \ {t}
                    /\ UNCHANGED <<world, connection, booked, mirror, journal, events, queue, log, owner, owed, faults, refused>>
EventRecorded == /\ events < MaxEvents /\ events' = events + 1
                 /\ UNCHANGED <<world, connection, good, booked, mirror, journal, queue, log, owner, owed, faults, refused>>

(* dispatchWorker.Work, every hour: active connections only. *)
Dispatch == /\ status = "active" /\ ~Unfinished /\ job' = Queued
            /\ UNCHANGED <<world, connection, outside, mirror, journal, work, rescued, log, owner, owed, faults, refused>>

Running(w) == work[w].at # "idle"
(* What is left of the other runs' hold on the job when it becomes j: while  *)
(* it is the same job, whoever held it has been given up on.                 *)
Hold(r, j) == IF r.at = "idle" THEN r
              ELSE [r EXCEPT !.slot = IF j = NoJob THEN "lost" ELSE IF @ = "held" THEN "given" ELSE @]
(* River writes how a run ended where its job is running. A job is known by  *)
(* its id, so a run that was given up on may speak for the attempt that      *)
(* followed it; whether River lets it is left open.                          *)
Ends(w, j) ==
  \/ /\ work[w].slot = "held" \/ (work[w].slot = "given" /\ job.state = "running")
     /\ job' = j /\ work' = [v \in Workers |-> IF v = w THEN Idle ELSE Hold(work[v], j)]
  \/ /\ work[w].slot # "held"
     /\ work' = [work EXCEPT ![w] = Idle] /\ UNCHANGED job
(* Every failure but a refused token is retried until the attempts run out.  *)
AfterFailure(tries) == IF tries < MaxTries THEN [state |-> "retryable", tries |-> tries] ELSE NoJob

(* FinishRun: the log's entry is closed, or stays "running" for good.        *)
Closes     == open' = open - 1 /\ UNCHANGED unclosed
StaysOpen  == open' = open /\ unclosed' = unclosed + 1
CloseFails == faults < MaxFaults /\ faults' = faults + 1 /\ StaysOpen
(* Wrong: only a run that went through is closed in the log. *)
ClosesNot    == UNCHANGED <<open, unclosed>>
ClosesFailed == Closes

(* Wrong: the status is not looked at. *)
MayAlwaysRun == TRUE
(* syncWorker.Work: the connection is read once, at the start; one that is   *)
(* not active is not synced, and one whose token does not open is parked.    *)
MayRun == status = "active"
Due == job.state \in {"available", "retryable"}
Drops == job' = NoJob /\ work' = [v \in Workers |-> Hold(work[v], NoJob)]
(* Workers are alike, so the first that is free takes the job.               *)
Take(w) ==
  /\ Due /\ ~Running(w) /\ \A v \in Workers : v < w => Running(v)
  /\ IF ~MayRun THEN Drops /\ UNCHANGED <<status, open>>
     ELSE IF token \in Lost THEN Drops /\ status' = "token_revoked" /\ UNCHANGED open
     ELSE /\ job' = [state |-> "running", tries |-> job.tries + 1]
          /\ work' = [work EXCEPT ![w] = [Idle EXCEPT !.at = "fetch", !.slot = "held", !.token = token]]
          /\ open' = open + 1                                   \* StartRun
          /\ UNCHANGED status
  /\ UNCHANGED <<world, token, outside, mirror, journal, unclosed, verdict, rescued, owner, owed, faults, refused>>
(* Reading the connection, parking it or opening the log's entry fails.      *)
TakeFails ==
  /\ Due /\ (\E w \in Workers : ~Running(w)) /\ faults < MaxFaults /\ faults' = faults + 1
  /\ LET j == AfterFailure(job.tries + 1)
     IN  job' = j /\ work' = [v \in Workers |-> Hold(work[v], j)]
  /\ UNCHANGED <<world, connection, outside, mirror, journal, rescued, log, owner, owed, refused>>

(* The run goes on to stage s, with n for what it has to carry there.        *)
At(w, s, n) == [Idle EXCEPT !.at = s, !.token = work[w].token, !.slot = work[w].slot, !.read = n]
Moves(w, s, n) == work' = [work EXCEPT ![w] = At(w, s, n)] /\ UNCHANGED <<job, rescued>>

(* OperationsAll: asks the broker with the token read at the start. *)
Fetch(w) ==
  /\ work[w].at = "fetch"
  /\ IF work[w].token \in good THEN Moves(w, "mirror", booked) ELSE Moves(w, "refused", 0)
  /\ UNCHANGED <<world, connection, outside, mirror, journal, log, owner, owed, faults, refused>>
(* SyncMirror, which module Mirror has in full: one transaction, so a run    *)
(* that asked the broker earlier may take the mirror back.                   *)
BringIntoLine(w) ==
  /\ work[w].at = "mirror"
  /\ mirror' = work[w].read /\ Moves(w, "project", 0)
  /\ UNCHANGED <<world, connection, outside, journal, log, owner, owed, faults, refused>>
(* projectAll: reads the mirror and what is explained by hand. *)
(* Wrong: an explained record is still projected. *)
WantedAnyway == mirror
Wanted == IF explained THEN Nothing ELSE mirror
Project(w) ==
  /\ work[w].at = "project" /\ Moves(w, "difference", Wanted)
  /\ UNCHANGED <<world, connection, outside, mirror, journal, log, owner, owed, faults, refused>>
(* difference: what the record produced so far, read without a lock.         *)
Difference(w) ==
  /\ work[w].at = "difference"
  /\ work' = [work EXCEPT ![w] = [At(w, "write", work[w].read) EXCEPT !.seen = row]]
  /\ UNCHANGED <<world, connection, outside, mirror, journal, job, rescued, log, owner, owed, faults, refused>>
(* ApplyImportDelta: what the record asks for replaces what it had produced; *)
(* the journal may refuse it beside the manual operation, and refuses the    *)
(* whole difference, failing the run, where an entry to remove is gone or    *)
(* one to add is there already.                                              *)
Stands(w) == work[w].seen = row
WriteJournal(w) ==
  /\ work[w].at = "write"
  /\ \/ work[w].read = work[w].seen /\ Moves(w, "align", 0) /\ UNCHANGED <<row, open, unclosed, faults>>
     \/ /\ work[w].read # work[w].seen /\ Stands(w)
        /\ row' \in {work[w].read} \cup {v \in {Nothing} : hand}
        /\ Moves(w, "align", 0) /\ UNCHANGED <<open, unclosed, faults>>
     \/ /\ work[w].read # work[w].seen /\ ~Stands(w)
        /\ Ends(w, AfterFailure(job.tries))
        /\ (ClosesFailed /\ UNCHANGED faults) \/ CloseFails
        /\ UNCHANGED <<row, rescued>>
  /\ UNCHANGED <<world, connection, outside, mirror, hand, reg, verdict, owner, owed, refused>>
(* alignWithRegistry: a failure does not fail the run. *)
Align(w) ==
  /\ work[w].at = "align"
  /\ \/ reg' = events
     \/ faults < MaxFaults /\ UNCHANGED reg
  /\ Moves(w, "reconcile", 0)
  /\ UNCHANGED <<world, connection, outside, mirror, row, hand, log, owner, owed, faults, refused>>
(* ReconcileLink: the broker's holdings against the journal as it is now. *)
Struck == [row |-> row, hand |-> hand, reg |-> reg, booked |-> booked]
Reconcile(w) ==
  /\ work[w].at = "reconcile"
  /\ IF work[w].token \in good
     THEN work' = [work EXCEPT ![w] = [At(w, "finish", 0) EXCEPT !.found = Struck]] /\ UNCHANGED <<job, rescued>>
     ELSE Moves(w, "refused", 0)
  /\ UNCHANGED <<world, connection, outside, mirror, journal, log, owner, owed, faults, refused>>
(* FinishRun of a run that went through; where it fails, the run is retried  *)
(* for the log's sake.                                                       *)
Finish(w) ==
  /\ work[w].at = "finish"
  /\ \/ Closes /\ verdict' = work[w].found /\ Ends(w, NoJob) /\ UNCHANGED faults
     \/ CloseFails /\ Ends(w, AfterFailure(job.tries)) /\ UNCHANGED verdict
  /\ UNCHANGED <<world, connection, outside, mirror, journal, rescued, owner, owed, refused>>

(* failed: the log's entry is closed, and what River is told depends on why. *)
(* A refused token parks the connection and is not retried, unless parking   *)
(* it fails.                                                                 *)
Parked == "token_revoked"
CloseRefused(w) ==
  /\ work[w].at = "refused" /\ Moves(w, "park", 0)
  /\ (Closes /\ UNCHANGED faults) \/ CloseFails
  /\ UNCHANGED <<world, connection, outside, mirror, journal, verdict, owner, owed, refused>>
Park(w) ==
  /\ work[w].at = "park"
  /\ \/ /\ status' = Parked /\ refused' = refused \cup {work[w].token}
        /\ Ends(w, NoJob) /\ UNCHANGED faults
     \/ /\ faults < MaxFaults /\ faults' = faults + 1
        /\ Ends(w, AfterFailure(job.tries)) /\ UNCHANGED <<status, refused>>
  /\ UNCHANGED <<world, token, outside, mirror, journal, rescued, log, owner, owed>>
(* A step fails, the unread rows' count after the reconciliation included;   *)
(* what was struck is kept. A run cut short, by its time or a shutdown,      *)
(* cannot close its entry either.                                            *)
Fails(w) ==
  /\ work[w].at \in {"fetch", "mirror", "project", "difference", "write", "reconcile", "finish"}
  /\ faults < MaxFaults /\ faults' = faults + 1
  /\ \/ ClosesFailed /\ verdict' = IF work[w].at = "finish" THEN work[w].found ELSE verdict
     \/ StaysOpen /\ UNCHANGED verdict
  /\ Ends(w, AfterFailure(job.tries))
  /\ UNCHANGED <<world, connection, outside, mirror, journal, rescued, owner, owed, refused>>
UnderWay(w) == work[w].at \notin {"idle", "park"}
(* The worker dies: the log's entry stays "running", the job does too until  *)
(* River finds it stuck.                                                     *)
Crash(w) ==
  /\ Running(w) /\ faults < MaxFaults /\ faults' = faults + 1
  /\ work' = [work EXCEPT ![w] = Idle]
  /\ unclosed' = unclosed + (IF UnderWay(w) THEN 1 ELSE 0)
  /\ UNCHANGED <<world, connection, outside, mirror, journal, job, rescued, open, verdict, owner, owed, refused>>
(* River gives up on a job that has been running for too long: by time       *)
(* alone, so also where its worker is alive.                                 *)
Holders == {w \in Workers : work[w].slot = "held"}
Rescue ==
  /\ job.state = "running"
  /\ \/ Holders = {} /\ UNCHANGED rescued
     \/ Holders # {} /\ rescued < MaxRescues /\ rescued' = rescued + 1
  /\ LET j == AfterFailure(job.tries)
     IN  job' = j /\ work' = [v \in Workers |-> Hold(work[v], j)]
  /\ UNCHANGED <<world, connection, outside, mirror, journal, log, owner, owed, faults, refused>>

(* UpdateConnection: a new token is proved with the broker, stored, and the  *)
(* connection is active again; or the owner switches it on or off.           *)
NewToken(t) ==
  /\ t \in good \ ({token} \cup Lost) /\ token' = t /\ status' = "active"
  /\ UNCHANGED <<world, outside, mirror, journal, queue, log, owner, owed, faults, refused>>
Switch(s) ==
  /\ asked < MaxAsked /\ asked' = asked + 1
  /\ s # status /\ status' = s /\ refused' = IF s = "active" THEN refused \ {token} ELSE refused
  /\ UNCHANGED <<world, token, outside, mirror, journal, queue, log, explained, request, owed, faults>>

(* ExplainRows: the record is checked, the manual operation replaces what it *)
(* produced in one transaction, the explanation follows in another, and a    *)
(* sync is asked for. Only an active connection is queued.                   *)
Ask == /\ asked < MaxAsked /\ asked' = asked + 1
       /\ request.at = "none" /\ ~explained /\ ~hand /\ mirror > 0
       /\ request' = [at |-> "replace", row |-> row]
       /\ UNCHANGED <<world, connection, outside, mirror, journal, explained, queue, log, owed, faults, refused>>
CreateReplacing ==
  /\ request.at = "replace"
  /\ IF row # request.row THEN request' = [at |-> "none", row |-> 0] /\ UNCHANGED <<row, hand>>
     ELSE /\ hand' = TRUE /\ row' = Nothing
          /\ request' = [at |-> "explain", row |-> 0]
  /\ UNCHANGED <<world, connection, outside, mirror, reg, explained, asked, queue, log, owed, faults, refused>>
CreateExplanation ==
  /\ request.at = "explain"
  /\ explained' = TRUE /\ request' = [request EXCEPT !.at = "queue"]
  /\ UNCHANGED <<world, connection, outside, mirror, journal, asked, queue, log, owed, faults, refused>>
AskForSync ==
  /\ request.at = "queue" /\ request' = [at |-> "none", row |-> 0]
  /\ job' = IF status = "active" THEN Queued ELSE job
  /\ UNCHANGED <<world, connection, outside, mirror, journal, explained, asked, work, rescued, log, owed, faults, refused>>
(* RemoveExplanation: the operation is deleted and the explanation with it.  *)
Remove ==
  /\ asked < MaxAsked /\ asked' = asked + 1
  /\ request.at = "none" /\ explained
  /\ hand' = FALSE /\ explained' = FALSE
  /\ request' = [at |-> "queue", row |-> 0]
  /\ UNCHANGED <<world, connection, outside, mirror, row, reg, queue, log, owed, faults, refused>>

(* The registry writes its rows, then asks for a check of what it changed.   *)
RegistryWrites ==
  /\ reg # events /\ ~owed /\ reg' = events /\ owed' = TRUE
  /\ UNCHANGED <<world, connection, outside, mirror, row, hand, queue, log, owner, faults, refused>>
QueueRecheck ==
  /\ owed /\ owed' = FALSE /\ job' = Queued
  /\ UNCHANGED <<world, connection, outside, mirror, journal, work, rescued, log, owner, faults, refused>>

Step(w) == \/ Fetch(w) \/ BringIntoLine(w) \/ Project(w) \/ Difference(w) \/ WriteJournal(w)
           \/ Align(w) \/ Reconcile(w) \/ Finish(w) \/ CloseRefused(w) \/ Park(w)
Taken == TakeFails \/ \E w \in Workers : Take(w)
Requested == CreateReplacing \/ CreateExplanation \/ AskForSync
World == BrokerBooks \/ EventRecorded \/ \E t \in Tokens : BrokerRevokes(t)
Owner == Ask \/ Remove \/ (\E t \in Tokens : NewToken(t)) \/ (\E s \in {"active", "disabled"} : Switch(s))
Registry == RegistryWrites \/ QueueRecheck
Next == \/ World \/ Owner \/ Requested \/ Registry \/ Dispatch \/ Taken \/ Rescue
        \/ \E w \in Workers : Step(w) \/ Fails(w) \/ Crash(w)

(* The hour comes round, a worker takes what is queued, every run goes on,   *)
(* River rescues what is stuck, a request that was begun is carried out, and *)
(* the registry's daily sweep writes what its own run has not.               *)
Fairness == /\ WF_vars(Dispatch) /\ WF_vars(Taken) /\ WF_vars(Rescue /\ Holders = {})
            /\ \A w \in Workers : WF_vars(Step(w))
            /\ WF_vars(Requested) /\ WF_vars(Registry)
Spec == Init /\ [][Next]_vars /\ Fairness

TypeOK == /\ status \in {"active", "token_revoked", "disabled"} /\ token \in Tokens
          /\ good \subseteq Tokens /\ booked \in 1..MaxBooked \cup {1} /\ mirror \in 0..booked
          /\ row \in 0..booked /\ hand \in BOOLEAN /\ reg \in 0..events /\ explained \in BOOLEAN
          /\ job.state \in {"none", "available", "running", "retryable"} /\ job.tries \in 0..MaxTries
          /\ open \in Nat

(* Once nothing outside changes any more, an active connection whose token   *)
(* the broker accepts comes to hold: the mirror is the broker's history, the *)
(* journal has the record or the operation that explains it and never both,  *)
(* and the verdict shown is about that journal and those holdings. A request *)
(* that was told "already queued" is made good by a later hour, and so is    *)
(* what a run that was overtaken wrote over its successor's.                 *)
Answered == /\ mirror = booked /\ reg = events
            /\ explained => row = Nothing
            /\ ~explained /\ ~hand => row = mirror
            /\ verdict = Struck
Served == status = "active" /\ token \in good
Settles == <>[](Served => Answered)

(* A token the broker refused is not offered to it by a later run, unless    *)
(* the owner switched the connection on again with it.                       *)
Starts(w) == work[w].at = "idle" /\ work'[w].at = "fetch"
NotOfferedAgain == [][\A w \in Workers : Starts(w) => work'[w].token \notin refused]_vars

(* The log of runs says "running" of the runs under way, and of those that   *)
(* died or that FinishRun failed for; every other run is closed, once.       *)
LogClosed == open = Cardinality({w \in Workers : UnderWay(w)}) + unclosed
(* Runs of one connection overlap only where River gave up on one that was   *)
(* alive: beside the run that has the slot go at most as many as it gave up  *)
(* on, whoever asks for syncs, fails, dies or ends after its successor began.*)
SlotHeld == Cardinality({w \in Workers : Running(w)})
              <= rescued + (IF job.state = "running" THEN 1 ELSE 0)
=============================================================================
