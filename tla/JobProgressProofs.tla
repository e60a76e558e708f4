-------------------------- MODULE JobProgressProofs --------------------------
(* For any jobs, stages and failures: the screen says what runs, and of what *)
(* runs where it is. A beat and the age at which a row is not shown any more *)
(* are all the proof knows of the times.                                     *)
EXTENDS JobProgress, TLAPS

Names == Stages \cup {""}
Units == 0..MaxUnits
Running1 == [on : {TRUE}, recorded : BOOLEAN, beaten : Nat, stage : Names, done : Units, total : Units,
             kept : Names, written : Int]
RowsSeen == [stage : Names, done : Units, total : Units, updated : Nat]

Typed ==
  /\ now \in 0..MaxNow /\ faults \in Nat /\ deaths \in Nat
  /\ run \in [Jobs -> Running1 \cup {NotRunning}]
  /\ ended \in [Jobs -> Nat]
  /\ DOMAIN rows \subseteq Jobs
  /\ \A j \in DOMAIN rows : rows[j] \in RowsSeen /\ rows[j].updated <= now

(* The execution whose row the screen reads.                                 *)
Recorded(j) == Running(j) /\ run[j].recorded
(* The beat is not late, and what the row says is behind it by the beats     *)
(* that were lost, one for each failure at most.                             *)
Beaten ==
  \A j \in Jobs : Recorded(j) =>
    /\ run[j].beaten <= now /\ now <= run[j].beaten + beat
    /\ beat * (faults + 1) < ProgressStale => j \in DOMAIN rows /\ run[j].beaten <= rows[j].updated + beat * faults
(* A row whose job does not run was left by a failure or a death.            *)
Left ==
  \A j \in DOMAIN rows : rows[j].updated <= now
     /\ (~Recorded(j) => deaths > 0 \/ faults > 0)
     /\ (~Running(j) => rows[j].updated <= ended[j])
(* While no write has failed the row has the stage written last, which is    *)
(* the one the job is in, and no more of it than is done.                    *)
Told ==
  \A j \in Jobs : Recorded(j) /\ faults = 0 =>
    /\ j \in DOMAIN rows
    /\ rows[j].stage = run[j].stage /\ run[j].kept = run[j].stage /\ rows[j].done <= run[j].done
    /\ run[j].total > 0 /\ run[j].done = run[j].total => rows[j].done = run[j].done
Screen == Typed /\ Beaten /\ Left /\ Told

USE ProgressAssumption

LEMMA Records ==
  ASSUME Typed, NEW j \in Jobs
  PROVE  /\ Running(j) \in BOOLEAN
         /\ Running(j) => run[j] \in Running1
         /\ ~Running(j) => run[j] = NotRunning
<1>1. CASE run[j] = NotRunning
  <2>1. run[j].on = FALSE BY <1>1 DEF NotRunning
  <2> QED BY <1>1, <2>1 DEF Running
<1>2. CASE run[j] \in Running1
  <2>1. run[j].on = TRUE BY <1>2 DEF Running1
  <2> QED BY <1>2, <2>1 DEF Running
<1> QED BY <1>1, <1>2 DEF Typed

LEMMA NoneRuns == NotRunning.on = FALSE /\ NotRunning \notin Running1
BY DEF NotRunning, Running1

LEMMA InitScreen == Init => Screen
<1> SUFFICES ASSUME Init PROVE Screen OBVIOUS
<1>1. DOMAIN rows = {} /\ \A j \in Jobs : run[j] = NotRunning /\ ~Running(j)
  BY DEF Init, Running, NotRunning
<1>2. Typed BY <1>1 DEF Init, Typed
<1> QED BY <1>1, <1>2 DEF Screen, Beaten, Left, Told, Recorded

-----------------------------------------------------------------------------
(* The times. *)

LEMMA Beats ==
  ASSUME NEW f \in Nat
  PROVE  beat * f \in Nat /\ beat * (f + 1) = beat * f + beat
<1>1. beat \in Nat OBVIOUS
<1> QED BY <1>1

(* The row of a job that runs is not swept, and is shown.                    *)
LEMMA NotSwept ==
  ASSUME Typed, Beaten, NEW j \in Jobs, Recorded(j), beat * (faults + 1) < ProgressStale
  PROVE  /\ j \in DOMAIN rows /\ rows[j].updated > now - ProgressStale
         /\ rows[j].updated >= now - Swept
<1>1. j \in DOMAIN rows /\ run[j].beaten <= rows[j].updated + beat * faults /\ now <= run[j].beaten + beat
  BY DEF Beaten
<1>2. rows[j] \in RowsSeen /\ run[j] \in Running1 BY <1>1, Records DEF Typed, Recorded
<1>3. rows[j].updated \in Nat /\ run[j].beaten \in Nat /\ faults \in Nat /\ now \in Nat
  BY <1>2 DEF RowsSeen, Running1, Typed
<1>4. beat * faults \in Nat /\ beat * (faults + 1) = beat * faults + beat BY <1>3, Beats
<1> DEFINE x == beat * faults
           y == beat * (faults + 1)
           u == rows[j].updated
           b == run[j].beaten
<1>5. x \in Nat /\ y = x + beat /\ y < ProgressStale /\ u \in Nat /\ b \in Nat /\ b <= u + x /\ now <= b + beat
      /\ now \in Nat /\ beat \in Nat /\ ProgressStale \in Nat /\ Swept \in Nat /\ ProgressStale <= Swept
  BY <1>1, <1>3, <1>4
<1> HIDE DEF x, y, u, b
<1>6. u > now - ProgressStale /\ u >= now - Swept BY <1>5
<1> QED BY <1>1, <1>6 DEF u

(* While no write has failed.                                                *)
LEMMA NoneFailed == faults = 0 => beat * (faults + 1) < ProgressStale
<1>1. beat \in Nat /\ beat * (0 + 1) = beat OBVIOUS
<1> QED BY <1>1

-----------------------------------------------------------------------------
(* Steps that leave a job as it is. *)

(* A job whose execution and row are left, or that is stopped with its row.  *)
Fine(j) ==
  /\ Recorded(j) =>
       /\ run[j].beaten <= now /\ now <= run[j].beaten + beat
       /\ beat * (faults + 1) < ProgressStale => j \in DOMAIN rows /\ run[j].beaten <= rows[j].updated + beat * faults
  /\ j \in DOMAIN rows => /\ rows[j].updated <= now
                          /\ ~Recorded(j) => deaths > 0 \/ faults > 0
                          /\ ~Running(j) => rows[j].updated <= ended[j]
  /\ Recorded(j) /\ faults = 0 =>
       /\ j \in DOMAIN rows
       /\ rows[j].stage = run[j].stage /\ run[j].kept = run[j].stage /\ rows[j].done <= run[j].done
       /\ run[j].total > 0 /\ run[j].done = run[j].total => rows[j].done = run[j].done

LEMMA AllFine == ASSUME Typed PROVE Beaten /\ Left /\ Told <=> \A j \in Jobs : Fine(j)
BY DEF Typed, Fine, Beaten, Left, Told

(* Failures are counted, and more of them ask less of a row.                 *)
LEMMA MoreFailures ==
  ASSUME Typed, NEW j \in Jobs, Fine(j), faults' \in {faults, faults + 1}, deaths' \in {deaths, deaths + 1},
         deaths \in Nat, now' = now, run'[j] = run[j], ended'[j] = ended[j],
         j \in DOMAIN rows' => j \in DOMAIN rows /\ rows'[j] = rows[j],
         Recorded(j) /\ beat * (faults + 1) < ProgressStale => (j \in DOMAIN rows => j \in DOMAIN rows')
  PROVE  Fine(j)'
<1>1. faults \in Nat /\ beat * faults \in Nat /\ beat * (faults + 1) = beat * faults + beat
      /\ beat * (faults + 2) = beat * faults + beat + beat
  <2>1. faults \in Nat /\ faults + 1 \in Nat /\ (faults + 1) + 1 = faults + 2 BY DEF Typed
  <2>2. beat * (faults + 2) = beat * (faults + 1) + beat BY <2>1, Beats
  <2> QED BY <2>1, <2>2, Beats
<1>2. Recorded(j)' = Recorded(j) /\ Running(j)' = Running(j) BY DEF Recorded, Running
<1>3. CASE faults' = faults
  <2>1. ASSUME j \in DOMAIN rows'
        PROVE  /\ rows[j].updated <= now /\ ~Recorded(j) => deaths' > 0 \/ faults > 0
               /\ ~Running(j) => rows[j].updated <= ended[j]
    <3>1. j \in DOMAIN rows BY <2>1
    <3>2. deaths > 0 => deaths' > 0 OBVIOUS
    <3> QED BY <3>1, <3>2 DEF Fine
  <2>2. ASSUME Recorded(j), beat * (faults + 1) < ProgressStale
        PROVE  j \in DOMAIN rows' /\ rows'[j] = rows[j] /\ run[j].beaten <= rows[j].updated + beat * faults
    BY <2>2 DEF Fine
  <2>3. ASSUME Recorded(j), faults = 0 PROVE j \in DOMAIN rows' /\ rows'[j] = rows[j]
    BY <2>2, <2>3, NoneFailed
  <2>4. Fine(j) OBVIOUS
  <2> QED BY <1>2, <1>3, <2>1, <2>2, <2>3, <2>4 DEF Fine
<1>4. CASE faults' = faults + 1
  <2>1. beat * (faults' + 1) < ProgressStale => beat * (faults + 1) < ProgressStale
    <3>1. faults' + 1 = faults + 2 BY <1>1, <1>4
    <3>2. beat * (faults' + 1) = beat * faults + beat + beat BY <1>1, <3>1
    <3> QED BY <1>1, <3>2
  <2>2. ASSUME Recorded(j), beat * (faults' + 1) < ProgressStale
        PROVE  j \in DOMAIN rows' /\ run[j].beaten <= rows'[j].updated + beat * faults'
    <3>1. j \in DOMAIN rows /\ run[j].beaten <= rows[j].updated + beat * faults BY <2>1, <2>2 DEF Fine
    <3>2. j \in DOMAIN rows' /\ rows'[j] = rows[j] BY <2>1, <2>2, <3>1
    <3>3. beat * faults' = beat * faults + beat BY <1>1, <1>4
    <3>4. rows[j].updated \in Nat /\ run[j].beaten \in Nat
      BY <2>2, <3>1, Records DEF Typed, RowsSeen, Running1, Recorded
    <3> DEFINE x == beat * faults
               u == rows[j].updated
               b == run[j].beaten
    <3>5. x \in Nat /\ u \in Nat /\ b \in Nat /\ b <= u + x /\ beat \in Nat BY <1>1, <3>1, <3>4
    <3> HIDE DEF x, u, b
    <3>6. b <= u + (x + beat) BY <3>5
    <3> QED BY <3>2, <3>3, <3>6 DEF x, u, b
  <2>3. faults' > 0 BY <1>1, <1>4
  <2>4. faults' # 0 BY <1>1, <1>4
  <2> QED BY <1>2, <2>2, <2>3, <2>4 DEF Fine
<1> QED BY <1>3, <1>4

-----------------------------------------------------------------------------
(* Every step. *)

LEMMA WithIs ==
  ASSUME NEW f, NEW x, NEW v
  PROVE  /\ DOMAIN With(f, x, v) = DOMAIN f \cup {x} /\ With(f, x, v)[x] = v
         /\ \A y \in DOMAIN f : y # x => With(f, x, v)[y] = f[y]
BY DEF With

LEMMA StartSteps ==
  ASSUME Screen, NEW j \in Jobs, Start(j)
  PROVE  Typed' /\ \A x \in Jobs : Fine(x)'
<1> DEFINE kept == [x \in {y \in DOMAIN rows : rows[y].updated >= now - Swept} |-> rows[x]]
<1>1. /\ ~Running(j) /\ rows' = With(kept, j, Row) /\ run' = [run EXCEPT ![j] = Starting]
      /\ UNCHANGED <<now, ended, faults, deaths>>
  BY DEF Start, StartsOver
<1>2. Typed /\ Beaten /\ \A x \in Jobs : Fine(x) BY AllFine DEF Screen
<1>3. /\ Starting \in Running1 /\ Starting.on /\ Starting.recorded /\ Starting.beaten = now /\ Starting.stage = ""
      /\ Starting.done = 0 /\ Starting.total = 0 /\ Starting.kept = ""
  <2>1. -Throttle \in Int /\ now \in Nat /\ 0 \in Units BY <1>2 DEF Typed, Units
  <2> QED BY <2>1 DEF Starting, Running1, Names
<1>4. Row \in RowsSeen /\ Row.updated = now /\ Row.stage = "" /\ Row.done = 0
  <2>1. now \in Nat /\ 0 \in Units BY <1>2 DEF Typed, Units
  <2> QED BY <2>1 DEF Row, RowsSeen, Names
<1>5. DOMAIN rows' = DOMAIN kept \cup {j} /\ rows'[j] = Row /\ \A y \in DOMAIN kept : y # j => rows'[y] = rows[y]
  <2>1. \A y \in DOMAIN kept : kept[y] = rows[y] OBVIOUS
  <2> DEFINE w == With(kept, j, Row)
  <2>2. DOMAIN w = DOMAIN kept \cup {j} /\ w[j] = Row /\ \A y \in DOMAIN kept : y # j => w[y] = kept[y]
    <3> QED BY DEF With
  <2> HIDE DEF kept, w
  <2>3. rows' = w BY <1>1 DEF w
  <2> QED BY <2>1, <2>2, <2>3
<1>6. DOMAIN kept = {y \in DOMAIN rows : rows[y].updated >= now - Swept} OBVIOUS
<1> HIDE DEF kept
<1>7. run' \in [Jobs -> Running1 \cup {NotRunning}] /\ run'[j] = Starting /\ \A x \in Jobs : x # j => run'[x] = run[x]
  BY <1>1, <1>2, <1>3 DEF Typed
<1>8. Typed'
  <2>1. ASSUME NEW x \in DOMAIN rows' PROVE x \in Jobs /\ rows'[x] \in RowsSeen /\ rows'[x].updated <= now
    <3>1. now \in Nat /\ now <= now BY <1>2 DEF Typed
    <3>2. CASE x = j BY <1>4, <1>5, <3>1, <3>2
    <3>3. CASE x # j BY <1>2, <1>5, <1>6, <3>3 DEF Typed
    <3> QED BY <3>2, <3>3
  <2> QED BY <1>1, <1>2, <1>7, <2>1 DEF Typed
<1>9. Fine(j)'
  <2>1. Running(j)' /\ Recorded(j)' BY <1>3, <1>7 DEF Running, Recorded
  <2>4. now \in Nat /\ faults \in Nat /\ beat \in Nat BY <1>2 DEF Typed
  <2>2. now \in Nat /\ beat * faults \in Nat /\ beat \in Nat BY <2>4, Beats
  <2>3. now <= now + beat * faults /\ now <= now + beat /\ 0 <= 0 /\ now <= now /\ ~(0 > 0) BY <2>2
  <2> QED BY <1>1, <1>3, <1>4, <1>5, <1>7, <2>1, <2>3, ZenonT(90) DEF Fine
<1>10. ASSUME NEW x \in Jobs, x # j PROVE Fine(x)'
  <2>1. x \in DOMAIN rows' => x \in DOMAIN rows /\ rows'[x] = rows[x] BY <1>5, <1>6, <1>10
  <2>2. ASSUME Recorded(x), beat * (faults + 1) < ProgressStale PROVE x \in DOMAIN rows'
    BY <1>2, <1>5, <1>6, <2>2, NotSwept
  <2>3. deaths \in Nat BY <1>2 DEF Typed
  <2> QED BY <1>1, <1>2, <1>7, <1>10, <2>1, <2>2, <2>3, MoreFailures
<1> QED BY <1>8, <1>9, <1>10

(* Jobs a step does not touch.                                               *)
LEMMA OthersFine ==
  ASSUME Screen, NEW j \in Jobs, faults' \in {faults, faults + 1}, UNCHANGED <<now, deaths>>,
         \A x \in Jobs : x # j => run'[x] = run[x] /\ ended'[x] = ended[x],
         \A x \in Jobs : x # j => /\ x \in DOMAIN rows' <=> x \in DOMAIN rows
                                  /\ x \in DOMAIN rows => rows'[x] = rows[x]
  PROVE  \A x \in Jobs : x # j => Fine(x)'
<1> SUFFICES ASSUME NEW x \in Jobs, x # j PROVE Fine(x)' OBVIOUS
<1>1. Typed /\ Fine(x) /\ deaths \in Nat BY AllFine DEF Screen, Typed
<1> QED BY <1>1, MoreFailures

LEMMA UnrecordedSteps ==
  ASSUME Screen, NEW j \in Jobs, StartUnrecorded(j)
  PROVE  Typed' /\ \A x \in Jobs : Fine(x)'
<1> DEFINE s == [Starting EXCEPT !.recorded = FALSE]
<1>1. run' = [run EXCEPT ![j] = s] /\ faults' = faults + 1 /\ UNCHANGED <<now, rows, ended, deaths>>
  BY DEF StartUnrecorded, Fault
<1>2. Typed /\ Fine(j) /\ faults \in Nat BY AllFine DEF Screen, Typed
<1>3. s \in Running1 /\ s.on /\ ~s.recorded
  <2>1. -Throttle \in Int /\ now \in Nat /\ 0 \in Units BY <1>2 DEF Typed, Units
  <2> QED BY <2>1 DEF Starting, Running1, Names
<1> HIDE DEF s
<1>4. run' \in [Jobs -> Running1 \cup {NotRunning}] /\ run'[j] = s /\ \A x \in Jobs : x # j => run'[x] = run[x]
  BY <1>1, <1>2, <1>3 DEF Typed
<1>5. Typed' BY <1>1, <1>2, <1>4 DEF Typed
<1>6. Running(j)' /\ ~Recorded(j)' /\ faults' > 0 BY <1>1, <1>2, <1>3, <1>4 DEF Running, Recorded
<1>7. Fine(j)' BY <1>1, <1>2, <1>6 DEF Fine
<1> QED BY <1>1, <1>4, <1>5, <1>7, OthersFine

(* A row is written, or its writing fails.                                   *)
LEMMA BeatSteps ==
  ASSUME Screen, NEW j \in Jobs, Beat(j)
  PROVE  Typed' /\ \A x \in Jobs : Fine(x)'
<1>1. /\ Recorded(j) /\ now = run[j].beaten + beat /\ run' = [run EXCEPT ![j].beaten = now]
      /\ \/ rows' = Confirmed(j) /\ faults' = faults
         \/ faults' = faults + 1 /\ rows' = rows
      /\ UNCHANGED <<now, ended, deaths>>
  BY DEF Beat, Fault, Recorded
<1>2. Typed /\ Fine(j) /\ faults \in Nat /\ now \in Nat BY AllFine DEF Screen, Typed
<1>3. run[j] \in Running1 BY <1>1, <1>2, Records DEF Recorded
<1>4. /\ run' \in [Jobs -> Running1 \cup {NotRunning}] /\ \A x \in Jobs : x # j => run'[x] = run[x]
      /\ run'[j] = [run[j] EXCEPT !.beaten = now] /\ run'[j] \in Running1
      /\ run'[j].on = run[j].on /\ run'[j].recorded = run[j].recorded /\ run'[j].beaten = now
      /\ run'[j].stage = run[j].stage /\ run'[j].done = run[j].done /\ run'[j].total = run[j].total
      /\ run'[j].kept = run[j].kept
  <2>1. run'[j] = [run[j] EXCEPT !.beaten = now] /\ \A x \in Jobs : x # j => run'[x] = run[x]
    BY <1>1, <1>2 DEF Typed
  <2>2. run'[j] \in Running1 BY <1>2, <1>3, <2>1, ZenonT(90) DEF Running1
  <2>3. run' \in [Jobs -> Running1 \cup {NotRunning}] BY <1>1, <1>2, <2>1, <2>2 DEF Typed
  <2> QED BY <1>3, <2>1, <2>2, <2>3, ZenonT(30) DEF Running1
<1>5. /\ DOMAIN rows' = DOMAIN rows /\ \A x \in DOMAIN rows : x # j => rows'[x] = rows[x]
      /\ j \in DOMAIN rows => /\ rows'[j] \in RowsSeen /\ rows'[j].updated <= now
                              /\ rows'[j].stage = rows[j].stage /\ rows'[j].done = rows[j].done
                              /\ \/ rows'[j].updated = now /\ faults' = faults
                                 \/ rows'[j].updated = rows[j].updated /\ faults' = faults + 1
      /\ j \notin DOMAIN rows => faults' \in {faults, faults + 1}
  <2>1. CASE j \in DOMAIN rows
    <3>1. rows[j] \in RowsSeen /\ rows[j].updated <= now /\ now <= now BY <1>2, <2>1 DEF Typed
    <3> QED BY <1>1, <1>2, <2>1, <3>1 DEF Confirmed, RowsSeen
  <2>2. CASE j \notin DOMAIN rows BY <1>1, <2>2 DEF Confirmed
  <2> QED BY <2>1, <2>2
<1>6. Typed' BY <1>1, <1>2, <1>4, <1>5 DEF Typed
<1>7. Recorded(j)' /\ Running(j)' /\ Recorded(j) /\ Running(j) BY <1>1, <1>4 DEF Recorded, Running
<1>8. ASSUME beat * (faults' + 1) < ProgressStale
      PROVE  j \in DOMAIN rows' /\ now <= rows'[j].updated + beat * faults'
  <2> DEFINE x == beat * faults
  <2>1. x \in Nat /\ beat * (faults + 1) = x + beat /\ faults + 1 \in Nat /\ beat \in Nat
        /\ beat * ((faults + 1) + 1) = beat * (faults + 1) + beat
    <3>1. x \in Nat /\ beat * (faults + 1) = x + beat /\ beat \in Nat BY <1>2, Beats
    <3>2. faults + 1 \in Nat BY <1>2
    <3>3. beat * ((faults + 1) + 1) = beat * (faults + 1) + beat BY <3>2, Beats
    <3> QED BY <3>1, <3>2, <3>3
  <2>2. faults' = faults \/ faults' = faults + 1 BY <1>1
  <2>3. beat * (faults + 1) < ProgressStale BY <1>8, <2>1, <2>2
  <2>4. j \in DOMAIN rows /\ run[j].beaten <= rows[j].updated + x BY <1>2, <1>7, <2>3 DEF Fine
  <2>5. rows[j].updated \in Nat /\ run[j].beaten \in Nat BY <1>2, <1>3, <2>4 DEF Typed, RowsSeen, Running1
  <2> HIDE DEF x
  <2>6. CASE rows'[j].updated = now /\ faults' = faults BY <1>2, <1>5, <2>1, <2>4, <2>6 DEF x
  <2>7. CASE rows'[j].updated = rows[j].updated /\ faults' = faults + 1
    <3>1. beat * faults' = x + beat BY <2>1, <2>7
    <3> QED BY <1>1, <1>5, <2>1, <2>4, <2>5, <2>7, <3>1
  <2> QED BY <1>5, <2>4, <2>6, <2>7
<1>9. faults' = 0 => faults = 0 BY <1>1, <1>2
<1>10. now <= now /\ now <= now + beat BY <1>2
<1>11. Fine(j)' BY <1>1, <1>2, <1>4, <1>5, <1>7, <1>8, <1>9, <1>10 DEF Fine
<1>12. faults' \in {faults, faults + 1} BY <1>1
<1>13. \A x \in Jobs : x # j => Fine(x)' BY <1>1, <1>4, <1>5, <1>12, OthersFine
<1> QED BY <1>6, <1>11, <1>13

LEMMA StageKept ==
  ASSUME NEW r \in Running1, NEW s \in Names, NEW t \in Int
  PROVE  [r EXCEPT !.kept = s, !.written = t] \in Running1
BY DEF Running1

LEMMA StageSteps ==
  ASSUME Screen, NEW j \in Jobs, NEW stage \in Stages, NEW done \in Units, NEW total \in Units,
         Stage(j, stage, done, total)
  PROVE  Typed' /\ \A x \in Jobs : Fine(x)'
<1> DEFINE r == [run[j] EXCEPT !.stage = stage, !.done = done, !.total = total]
           skipped == skip(run[j], stage, done, total)
           told == [stage |-> stage, done |-> done, total |-> total, updated |-> now]
<1>1. /\ Running(j) /\ (stage = r.kept => done >= run[j].done /\ total = run[j].total)
      /\ run' = [run EXCEPT ![j] = IF skipped THEN r ELSE [r EXCEPT !.kept = stage, !.written = now]]
      /\ \/ /\ rows' = IF skipped \/ ~r.recorded \/ j \notin DOMAIN rows THEN rows ELSE [rows EXCEPT ![j] = told]
            /\ faults' = faults
         \/ ~skipped /\ faults' = faults + 1 /\ rows' = rows
      /\ UNCHANGED <<now, ended, deaths>>
  BY DEF Stage, Fault
<1>2. Typed /\ Fine(j) /\ faults \in Nat /\ now \in Nat BY AllFine DEF Screen, Typed
<1>3. run[j] \in Running1 BY <1>1, <1>2, Records
<1>4. /\ r \in Running1 /\ [r EXCEPT !.kept = stage, !.written = now] \in Running1
      /\ r.on = run[j].on /\ r.recorded = run[j].recorded /\ r.beaten = run[j].beaten /\ r.kept = run[j].kept
      /\ r.stage = stage /\ r.done = done /\ r.total = total
  <2>1. stage \in Names BY DEF Names
  <2>2. /\ r \in Running1
        /\ r.on = run[j].on /\ r.recorded = run[j].recorded /\ r.beaten = run[j].beaten /\ r.kept = run[j].kept
        /\ r.stage = stage /\ r.done = done /\ r.total = total
    BY <1>3, <2>1 DEF Running1
  <2> HIDE DEF r
  <2>3. now \in Int /\ r \in Running1 BY <1>2, <2>2
  <2>4. [r EXCEPT !.kept = stage, !.written = now] \in Running1 BY <2>1, <2>3, StageKept
  <2> QED BY <2>2, <2>4
<1> DEFINE q == run'[j]
<1>5. /\ run' \in [Jobs -> Running1 \cup {NotRunning}] /\ \A x \in Jobs : x # j => run'[x] = run[x]
      /\ q.on = run[j].on /\ q.recorded = run[j].recorded /\ q.beaten = run[j].beaten
      /\ q.stage = stage /\ q.done = done /\ q.total = total
      /\ q.kept = IF skipped THEN run[j].kept ELSE stage
  <2> HIDE DEF r, skipped
  <2>1. /\ run' \in [Jobs -> Running1 \cup {NotRunning}] /\ \A x \in Jobs : x # j => run'[x] = run[x]
        /\ q = IF skipped THEN r ELSE [r EXCEPT !.kept = stage, !.written = now]
    BY <1>1, <1>2, <1>4 DEF Typed
  <2> HIDE DEF q
  <2>2. CASE skipped BY <1>4, <2>1, <2>2
  <2>3. CASE ~skipped BY <1>4, <2>1, <2>3 DEF Running1
  <2> QED BY <2>1, <2>2, <2>3
<1>6. skipped => stage = run[j].kept /\ (total = 0 \/ done < total) BY DEF skip
<1>7. told \in RowsSeen /\ told.updated = now /\ told.stage = stage /\ told.done = done
  BY <1>2 DEF RowsSeen, Names
<1> HIDE DEF r, skipped, told, q
<1>8. /\ DOMAIN rows' = DOMAIN rows /\ \A x \in DOMAIN rows : x # j => rows'[x] = rows[x]
      /\ j \in DOMAIN rows => rows'[j] = rows[j] \/ rows'[j] = told
      /\ j \in DOMAIN rows /\ ~skipped /\ r.recorded => faults' = faults + 1 \/ rows'[j] = told
      /\ skipped => rows' = rows
      /\ faults' \in {faults, faults + 1}
  BY <1>1
<1>9. Typed'
  <2>1. ASSUME NEW x \in DOMAIN rows' PROVE x \in Jobs /\ rows'[x] \in RowsSeen /\ rows'[x].updated <= now
    <3>1. now <= now BY <1>2
    <3>2. x \in DOMAIN rows /\ rows[x] \in RowsSeen /\ rows[x].updated <= now /\ x \in Jobs BY <1>2, <1>8 DEF Typed
    <3> QED BY <1>7, <1>8, <3>1, <3>2
  <2>2. faults' \in Nat BY <1>2, <1>8
  <2> QED BY <1>1, <1>2, <1>5, <2>1, <2>2 DEF Typed
<1>10. Recorded(j)' = Recorded(j) /\ Running(j)' = Running(j) BY <1>5 DEF Recorded, Running, q
<1>11. ASSUME Recorded(j), beat * (faults' + 1) < ProgressStale
       PROVE  j \in DOMAIN rows' /\ q.beaten <= rows'[j].updated + beat * faults'
  <2> DEFINE x == beat * faults
  <2>1. x \in Nat /\ beat * (faults + 1) = x + beat /\ beat \in Nat
        /\ beat * ((faults + 1) + 1) = x + beat + beat
    <3>1. x \in Nat /\ beat * (faults + 1) = x + beat /\ beat \in Nat BY <1>2, Beats
    <3>2. faults + 1 \in Nat BY <1>2
    <3>3. beat * ((faults + 1) + 1) = beat * (faults + 1) + beat BY <3>2, Beats
    <3> QED BY <3>1, <3>3
  <2>2. faults' = faults \/ faults' = faults + 1 BY <1>8
  <2>3. beat * faults' \in Nat /\ beat * faults' >= x /\ beat * (faults + 1) < ProgressStale
    <3> HIDE DEF x
    <3>1. CASE faults' = faults BY <1>11, <2>1, <3>1 DEF x
    <3>2. CASE faults' = faults + 1
      <4>1. beat * faults' = x + beat /\ beat * (faults' + 1) = x + beat + beat BY <2>1, <3>2
      <4> QED BY <1>11, <2>1, <4>1
    <3> QED BY <2>2, <3>1, <3>2
  <2>4. j \in DOMAIN rows /\ run[j].beaten <= rows[j].updated + x /\ run[j].beaten <= now
    BY <1>2, <1>11, <2>3 DEF Fine
  <2>5. rows[j].updated \in Nat /\ run[j].beaten \in Nat BY <1>2, <1>3, <2>4 DEF Typed, RowsSeen, Running1
  <2> DEFINE y == beat * faults'
  <2> HIDE DEF x, y
  <2>6. y \in Nat /\ y >= x /\ x \in Nat BY <2>1, <2>3 DEF y
  <2>7. CASE rows'[j] = rows[j] BY <1>5, <1>8, <2>4, <2>5, <2>6, <2>7 DEF y
  <2>8. CASE rows'[j] = told BY <1>2, <1>5, <1>7, <1>8, <2>4, <2>5, <2>6, <2>8 DEF y
  <2> QED BY <1>8, <2>4, <2>7, <2>8
<1>12. ASSUME Recorded(j), faults' = 0
       PROVE  /\ j \in DOMAIN rows'
              /\ rows'[j].stage = q.stage /\ q.kept = q.stage /\ rows'[j].done <= q.done
              /\ q.total > 0 /\ q.done = q.total => rows'[j].done = q.done
  <2>1. faults = 0 /\ faults' # faults + 1 BY <1>2, <1>8, <1>12
  <2>2. /\ j \in DOMAIN rows /\ rows[j].stage = run[j].stage /\ run[j].kept = run[j].stage
        /\ rows[j].done <= run[j].done
    BY <1>2, <1>12, <2>1 DEF Fine
  <2>3. CASE skipped
    <3>1. rows[j].done \in Int /\ run[j].done \in Int /\ done \in Int /\ total \in Int /\ done >= run[j].done
      BY <1>1, <1>2, <1>3, <1>4, <1>6, <2>2, <2>3 DEF Typed, RowsSeen, Running1, Units
    <3>2. rows'[j] = rows[j] /\ j \in DOMAIN rows' BY <1>8, <2>2, <2>3
    <3>3. rows[j].done <= done /\ ~(total > 0 /\ done = total) BY <1>6, <2>2, <2>3, <3>1
    <3> QED BY <1>5, <1>6, <2>2, <2>3, <3>2, <3>3
  <2>4. CASE ~skipped
    <3>1. r.recorded BY <1>4, <1>12 DEF Recorded
    <3>2. rows'[j] = told /\ j \in DOMAIN rows' BY <1>8, <2>1, <2>2, <2>4, <3>1
    <3>3. done <= done BY DEF Units
    <3> QED BY <1>5, <1>7, <2>4, <3>2, <3>3
  <2> QED BY <2>3, <2>4
<1>13. /\ Recorded(j) => q.beaten <= now /\ now <= q.beaten + beat
       /\ j \in DOMAIN rows' => /\ rows'[j].updated <= now
                                /\ ~Recorded(j) => deaths > 0 \/ faults' > 0
  <2>1. j \in DOMAIN rows' => rows'[j].updated <= now BY <1>1, <1>9 DEF Typed
  <2>2. faults > 0 => faults' > 0 BY <1>2, <1>8
  <2> QED BY <1>2, <1>5, <1>8, <2>1, <2>2 DEF Fine
<1>14. Fine(j)' BY <1>1, <1>10, <1>11, <1>12, <1>13 DEF Fine, q
<1>15. \A x \in Jobs : x # j => Fine(x)' BY <1>1, <1>5, <1>8, OthersFine
<1> QED BY <1>9, <1>14, <1>15

(* A job ends, the process dies, time passes.                                *)
LEMMA EndSteps ==
  ASSUME Screen, NEW j \in Jobs, End(j)
  PROVE  Typed' /\ \A x \in Jobs : Fine(x)'
<1>1. /\ Running(j) /\ run' = [run EXCEPT ![j] = NotRunning] /\ ended' = [ended EXCEPT ![j] = now]
      /\ \/ rows' = (IF run[j].recorded THEN Without(rows, j) ELSE rows) /\ faults' = faults
         \/ faults' = faults + 1 /\ rows' = rows
      /\ UNCHANGED <<now, deaths>>
  BY DEF End, Deleted, Fault
<1>2. Typed /\ Fine(j) /\ faults \in Nat /\ now \in Nat BY AllFine DEF Screen, Typed
<1>3. /\ run' \in [Jobs -> Running1 \cup {NotRunning}] /\ ended' \in [Jobs -> Nat]
      /\ \A x \in Jobs : x # j => run'[x] = run[x] /\ ended'[x] = ended[x]
      /\ run'[j] = NotRunning /\ ended'[j] = now
  BY <1>1, <1>2 DEF Typed
<1>4. /\ \A x \in Jobs : x # j => /\ x \in DOMAIN rows' <=> x \in DOMAIN rows
                                  /\ x \in DOMAIN rows => rows'[x] = rows[x]
      /\ j \in DOMAIN rows' => j \in DOMAIN rows /\ rows'[j] = rows[j] /\ (~run[j].recorded \/ faults' = faults + 1)
      /\ \A x \in DOMAIN rows' : x \in DOMAIN rows /\ rows'[x] = rows[x]
      /\ faults' \in {faults, faults + 1}
  <2>1. CASE rows' = Without(rows, j) /\ faults' = faults BY <2>1 DEF Without
  <2>2. CASE rows' = rows /\ ((~run[j].recorded /\ faults' = faults) \/ faults' = faults + 1) BY <2>2
  <2> QED BY <1>1, <2>1, <2>2
<1>5. Typed'
  <2>1. faults' \in Nat BY <1>2, <1>4
  <2> QED BY <1>1, <1>2, <1>3, <1>4, <2>1 DEF Typed
<1>6. ~Running(j)' /\ ~Recorded(j)' BY <1>3, NoneRuns DEF Running, Recorded
<1>7. ASSUME j \in DOMAIN rows' PROVE rows'[j].updated <= now /\ (deaths > 0 \/ faults' > 0)
  <2>1. rows[j].updated <= now /\ (~Recorded(j) => deaths > 0 \/ faults > 0) BY <1>2, <1>4, <1>7 DEF Fine
  <2>2. CASE ~run[j].recorded
    <3>1. faults > 0 => faults' > 0 BY <1>2, <1>4
    <3> QED BY <1>4, <1>7, <2>1, <2>2, <3>1 DEF Recorded
  <2>3. CASE faults' = faults + 1 BY <1>2, <1>4, <1>7, <2>1, <2>3
  <2> QED BY <1>4, <1>7, <2>2, <2>3
<1>8. Fine(j)' BY <1>1, <1>3, <1>6, <1>7 DEF Fine
<1>9. \A x \in Jobs : x # j => Fine(x)' BY <1>1, <1>3, <1>4, OthersFine
<1> QED BY <1>5, <1>8, <1>9

LEMMA DieSteps ==
  ASSUME Screen, Die
  PROVE  Typed' /\ \A x \in Jobs : Fine(x)'
<1>1. /\ deaths' = deaths + 1 /\ run' = [j \in Jobs |-> NotRunning]
      /\ ended' = [j \in Jobs |-> IF Running(j) THEN now ELSE ended[j]] /\ UNCHANGED <<now, rows, faults>>
  BY DEF Die
<1>2. Typed /\ deaths \in Nat /\ now \in Nat /\ \A x \in Jobs : Fine(x) BY AllFine DEF Screen, Typed
<1>3. ended' \in [Jobs -> Nat] /\ run' \in [Jobs -> Running1 \cup {NotRunning}] BY <1>1, <1>2 DEF Typed
<1>4. Typed' BY <1>1, <1>2, <1>3 DEF Typed
<1>5. ASSUME NEW x \in Jobs PROVE Fine(x)'
  <2>1. ~Running(x)' /\ ~Recorded(x)' BY <1>1, NoneRuns DEF Running, Recorded
  <2>2. deaths' > 0 BY <1>1, <1>2
  <2>3. x \in DOMAIN rows => rows[x].updated <= now /\ rows[x].updated <= ended'[x]
    BY <1>1, <1>2 DEF Fine
  <2> QED BY <1>1, <2>1, <2>2, <2>3 DEF Fine
<1> QED BY <1>4, <1>5

LEMMA PassSteps ==
  ASSUME Screen, Pass
  PROVE  Typed' /\ \A x \in Jobs : Fine(x)'
<1>1. now < MaxNow /\ ~Urgent /\ now' = now + 1 /\ UNCHANGED <<rows, run, ended, faults, deaths>>
  BY DEF Pass
<1>2. Typed /\ now \in Nat /\ \A x \in Jobs : Fine(x) BY AllFine DEF Screen, Typed
<1>3. Typed'
  <2>1. \A j \in DOMAIN rows : rows[j] \in RowsSeen /\ rows[j].updated <= now + 1
    <3>1. \A j \in DOMAIN rows : rows[j] \in RowsSeen /\ rows[j].updated <= now BY <1>2 DEF Typed
    <3> QED BY <1>2, <3>1 DEF RowsSeen
  <2>2. now + 1 \in 0..MaxNow BY <1>1, <1>2
  <2> QED BY <1>1, <1>2, <2>1, <2>2 DEF Typed
<1>4. ASSUME NEW x \in Jobs PROVE Fine(x)'
  <2>1. Recorded(x)' = Recorded(x) /\ Running(x)' = Running(x) BY <1>1 DEF Recorded, Running
  <2>2. x \in DOMAIN rows => rows[x].updated <= now + 1 BY <1>1, <1>3 DEF Typed
  <2>3. ASSUME Recorded(x) PROVE run[x].beaten <= now + 1 /\ now + 1 <= run[x].beaten + beat
    <3>1. run[x].beaten <= now /\ now <= run[x].beaten + beat BY <1>2, <2>3 DEF Fine
    <3>2. run[x].beaten \in Nat BY <1>2, <2>3, Records DEF Recorded, Running1
    <3>3. now # run[x].beaten + beat BY <1>1, <2>3 DEF Urgent, Recorded
    <3>4. beat \in Nat OBVIOUS
    <3> QED BY <1>2, <3>1, <3>2, <3>3, <3>4
  <2> QED BY <1>1, <1>2, <2>1, <2>2, <2>3 DEF Fine
<1> QED BY <1>3, <1>4

LEMMA StepScreen == ASSUME Screen, [Next]_vars PROVE Screen'
<1>1. CASE UNCHANGED vars
  <2>1. UNCHANGED <<now, rows, run, ended, faults, deaths>> BY <1>1 DEF vars
  <2> QED BY <2>1 DEF Screen, Typed, Beaten, Left, Told, Recorded, Running
<1>2. CASE Next
  <2>1. Typed' /\ \A x \in Jobs : Fine(x)'
    BY <1>2, StartSteps, UnrecordedSteps, BeatSteps, StageSteps, EndSteps, DieSteps, PassSteps DEF Next, Units
  <2>2. Typed' => (Beaten' /\ Left' /\ Told' <=> \A x \in Jobs : Fine(x)')
    BY DEF Typed, Fine, Beaten, Left, Told
  <2> QED BY <2>1, <2>2 DEF Screen
<1> QED BY <1>1, <1>2

(* The screen says what runs, and of what runs where it is, for any jobs,    *)
(* stages and failures, while a beat is shorter than the age at which a row  *)
(* is not shown, and that age not over the one at which it is swept          *)
(* (progressMiddleware.Work, Running, RunningFor).                           *)
THEOREM ScreenIsTrue == Spec => []ScreenTrue
<1>1. Screen => ScreenTrue
  <2> SUFFICES ASSUME Screen PROVE ScreenTrue OBVIOUS
  <2>1. Typed /\ Beaten /\ (\A x \in Jobs : Fine(x)) /\ now \in Nat BY AllFine DEF Screen, Typed
  <2>2. TypeOK
    <3>1. \A j \in DOMAIN rows : rows[j].updated \in 0..now /\ rows[j].done \in 0..MaxUnits
      BY <2>1 DEF Typed, RowsSeen, Units
    <3>2. \A j \in Jobs : Running(j) /\ run[j].recorded => now <= run[j].beaten + beat
      BY <2>1 DEF Beaten, Recorded
    <3> QED BY <2>1, <3>1, <3>2 DEF TypeOK, Typed
  <2>3. RunningIsShown BY <2>1, NotSwept DEF RunningIsShown, Shown, Recorded
  <2>4. ShownIsRunning
    <3> SUFFICES ASSUME NEW j \in Jobs, Shown(j), ~Running(j)
                 PROVE  now < ended[j] + ProgressStale /\ (deaths > 0 \/ faults > 0)
      BY DEF ShownIsRunning
    <3>1. /\ j \in DOMAIN rows /\ rows[j].updated > now - ProgressStale
          /\ rows[j].updated <= ended[j] /\ (deaths > 0 \/ faults > 0)
      BY <2>1 DEF Shown, Fine, Recorded
    <3>2. rows[j].updated \in Nat /\ ended[j] \in Nat /\ ProgressStale \in Nat BY <2>1, <3>1 DEF Typed, RowsSeen
    <3> QED BY <2>1, <3>1, <3>2
  <2>5. StageIsTrue BY <2>1 DEF StageIsTrue, Fine, Recorded
  <2> QED BY <2>2, <2>3, <2>4, <2>5 DEF ScreenTrue
<1> QED BY <1>1, InitScreen, StepScreen, PTL DEF Spec
==============================================================================
