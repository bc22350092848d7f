----------------------------- MODULE SyncRunProofs -----------------------------
(* Proofs about a sync at work, for any records, failures, requests and times. *)
EXTENDS SyncRunInvariant, WellFoundedInduction, TLAPS

(* The newest of the records that a job has listed is a time of the past. *)
LEMMA LastListedIsListed ==
  ASSUME TypeOK, NothingIsFuture
  PROVE  /\ LastListed \in 0..clock
         /\ LastListed = 0 \/ \E r \in Records : LastListed = job.listed[r]
<1> DEFINE Times == {job.listed[r] : r \in Records} \cup {0}
           Bounds == {n \in Nat : \A r \in Records : n >= job.listed[r]}
<1>1. clock \in Nat /\ \A r \in Records : job.listed[r] \in Nat
  BY DEF TypeOK, Job, Versions
<1>2. clock \in Bounds
  BY <1>1 DEF NothingIsFuture
<1>3. PICK n \in Bounds : \A m \in Bounds : n <= m
  <2>1. PICK n \in Bounds : \A m \in Bounds : <<m, n>> \notin OpToRel(<, Nat)
    <3>1. Bounds \subseteq Nat /\ Bounds # {}
      BY <1>2
    <3> HIDE DEF Bounds
    <3> QED
      BY <3>1, WFMin, NatLessThanWellFounded
  <2>2. \A m \in Bounds : ~(m < n)
    BY <2>1 DEF OpToRel
  <2> QED
    BY <2>2
<1>4. n \in Times
  <2>1. SUFFICES ASSUME n \notin Times PROVE FALSE
    OBVIOUS
  <2>2. n \in Nat /\ n # 0 /\ \A r \in Records : n >= job.listed[r] /\ n # job.listed[r]
    BY <1>3, <2>1
  <2>3. n - 1 \in Bounds
    BY <1>1, <2>2
  <2> QED
    BY <1>3, <2>2, <2>3
<1>5. LastListed \in Times /\ \A r \in Records : LastListed >= job.listed[r]
  BY <1>3, <1>4 DEF LastListed
<1> QED
  BY <1>1, <1>5 DEF NothingIsFuture

-----------------------------------------------------------------------------
(* Types *)

Typed == TypeOK /\ NothingIsFuture

LEMMA Times ==
  ASSUME Typed
  PROVE  /\ clock \in Nat /\ newest \in 0..clock
         /\ sync \in Row /\ sync.mark \in 0..clock
         /\ seen \in Row /\ seen.mark \in 0..clock
<1>1. /\ sync \in Row /\ sync.mark <= clock /\ seen \in Row /\ seen.mark <= clock
      /\ clock \in 0..MaxClock /\ newest \in 0..clock
  BY DEF Typed, TypeOK, NothingIsFuture
<1>2. clock \in Nat
  BY <1>1, RunConstants
<1>3. sync.mark \in Nat /\ seen.mark \in Nat
  BY <1>1 DEF Row
<1> QED
  BY <1>1, <1>2, <1>3

LEMMA Empty ==
  /\ Nothing \in Versions /\ NewRow \in Row /\ NoJob \in Job /\ NoWrite \in Write
  /\ \A r \in Records : Nothing[r] = 0 /\ NoJob.listed[r] = 0
  /\ NewRow.mark = 0 /\ [NewRow EXCEPT !.fullOnly = TRUE].mark = 0
  /\ [NewRow EXCEPT !.fullOnly = TRUE] \in Row /\ NoJob.stage = "off"
BY DEF Nothing, Versions, NewRow, Row, Strategies, NoJob, Job, NoWrite, Write

LEMMA InitTyped == Init => Typed
<1> SUFFICES ASSUME Init PROVE Typed
  OBVIOUS
<1>1. /\ source = Nothing /\ removed = {} /\ clock = 0 /\ job = NoJob /\ dest = Nothing
      /\ sync \in Row /\ sync.mark = 0 /\ seen = NewRow /\ newest = 0
  BY Empty DEF Init
<1>2. recent \in Seq(Strategies) /\ Len(recent) <= EveryN + 1
  BY RunConstants DEF Init
<1>3. /\ pc \in PCs /\ strategy \in Strategies /\ write \in [Records -> Write]
      /\ paused \in BOOLEAN /\ triggering \in BOOLEAN /\ deleted = {} /\ astray = {}
      /\ wanted = "none" /\ requests = 0 /\ failures = 0
  BY Empty DEF Init, PCs, Strategies
<1> QED
  BY <1>1, <1>2, <1>3, Empty, RunConstants DEF Typed, TypeOK, NothingIsFuture

(* Changes at the provider *)
LEMMA TouchTyped ==
  ASSUME Typed, NEW r \in Records, Touch(r),
         write' = write \/ write' = [write EXCEPT ![r].stage = "sent"],
         UNCHANGED <<sync, paused, recent, run, job, table, triggering, astray, wanted, bounds>>
  PROVE  Typed'
<1>1. clock' = clock + 1 /\ clock' \in 0..MaxClock /\ source' \in Versions /\ removed' = removed
  <2>1. source \in Versions /\ clock \in 0..MaxClock
    BY DEF Typed, TypeOK
  <2>2. /\ clock < MaxClock /\ clock' = clock + 1 /\ removed' = removed
        /\ source' = [source EXCEPT ![r] = clock + 1]
    BY DEF Touch
  <2> QED
    BY <2>1, <2>2, RunConstants DEF Versions
<1>2. \A q \in Records : source'[q] <= clock'
  BY <1>1 DEF Touch, Typed, TypeOK, NothingIsFuture, Versions
<1>3. \A q \in removed : source'[q] = 0
  BY DEF Touch, Typed, TypeOK, NothingIsFuture, Versions
<1>4. write' \in [Records -> Write]
  <2>1. write \in [Records -> Write]
    BY DEF Typed, TypeOK
  <2> QED
    BY <2>1 DEF Write
<1>5. \A q \in Records : job'.listed[q] <= clock'
  <2>1. job \in Job /\ \A q \in Records : job.listed[q] <= clock
    BY DEF Typed, TypeOK, NothingIsFuture
  <2>2. clock \in Nat /\ \A q \in Records : job.listed[q] \in Nat
    BY <2>1, Times DEF Job, Versions
  <2> QED
    BY <1>1, <2>1, <2>2
<1>6. sync'.mark <= clock' /\ newest' \in 0..clock' /\ seen'.mark <= clock'
  <2>1. sync' = sync /\ newest' = newest /\ seen' = seen
    BY DEF run
  <2> QED
    BY <1>1, <2>1, Times
<1> QED
  BY <1>1, <1>2, <1>3, <1>4, <1>5, <1>6 DEF Typed, TypeOK, NothingIsFuture, run, table, bounds

LEMMA ProviderTyped == ASSUME Typed, ProviderNext PROVE Typed'
<1>1. ASSUME NEW r \in Records, Change(r) PROVE Typed'
  BY <1>1, TouchTyped DEF Change, clients
<1>2. ASSUME NEW r \in Records, Remove(r) PROVE Typed'
  <2>1. source' \in Versions /\ removed' \subseteq Records /\ clock' = clock
    BY <1>2 DEF Remove, Typed, TypeOK, Versions
  <2>2. \A q \in Records : source'[q] <= clock'
    BY <1>2, <2>1 DEF Remove, Typed, TypeOK, NothingIsFuture, Versions
  <2>3. \A q \in removed' : source'[q] = 0
    BY <1>2 DEF Remove, Typed, TypeOK, NothingIsFuture, Versions
  <2> QED
    BY <1>2, <2>1, <2>2, <2>3
      DEF Remove, Typed, TypeOK, NothingIsFuture, run, table, clients, bounds
<1> QED
  BY <1>1, <1>2 DEF ProviderNext

(* Writes of clients, and what else they ask for *)
LEMMA WriteStepTyped == ASSUME Typed, WriteStep PROVE Typed'
<1>1. ASSUME NEW r \in Records, ReadBack(r) PROVE Typed'
  <2>1. source[r] \in Nat
    BY DEF Typed, TypeOK, Versions
  <2>2. write' \in [Records -> Write]
    BY <1>1, <2>1 DEF ReadBack, Typed, TypeOK, Write
  <2> QED
    BY <1>1, <2>2 DEF ReadBack, Typed, TypeOK, NothingIsFuture, world, run, table, bounds
<1>2. ASSUME NEW r \in Records, WriteBack(r) PROVE Typed'
  <2>1. write[r].version \in Nat /\ write' \in [Records -> Write]
    BY <1>2 DEF WriteBack, Typed, TypeOK, Write, NoWrite
  <2>2. dest' \in Versions /\ deleted' \subseteq {q \in Records : dest'[q] # 0}
    BY <1>2, <2>1 DEF WriteBack, Typed, TypeOK, Versions
  <2>3. astray' \subseteq Records
    BY <1>2 DEF WriteBack, Typed, TypeOK
  <2> QED
    BY <1>2, <2>1, <2>2, <2>3 DEF WriteBack, Typed, TypeOK, NothingIsFuture, world, run, bounds
<1>3. ASSUME NEW r \in Records, EndWrite(r) PROVE Typed'
  <2>1. write' \in [Records -> Write] /\ failures' \in 0..MaxFailures
    BY <1>3, RunConstants DEF EndWrite, Typed, TypeOK, Write, NoWrite
  <2> QED
    BY <1>3, <2>1 DEF EndWrite, Typed, TypeOK, NothingIsFuture, world, run, table
<1> QED
  BY <1>1, <1>2, <1>3 DEF WriteStep

LEMMA ClientTyped == ASSUME Typed, ClientNext PROVE Typed'
<1>1. ASSUME NEW r \in Records, SendWrite(r) PROVE Typed'
  BY <1>1, TouchTyped DEF SendWrite
<1>2. ASSUME NEW op, Request(op) PROVE requests' \in 0..MaxRequests /\ failures' \in 0..MaxFailures
  BY <1>2, RunConstants DEF Request, Typed, TypeOK
<1>3. ASSUME NEW b \in BOOLEAN, RecordArgs(b) \/ SetStrategy(b) PROVE Typed'
  <2>1. sync' \in Row /\ sync'.mark = sync.mark
    BY <1>3 DEF RecordArgs, SetStrategy, Typed, TypeOK, Row
  <2>2. wanted' \in {"none", "early", "late"} /\ triggering' \in BOOLEAN
    BY <1>3 DEF RecordArgs, SetStrategy, Typed, TypeOK, clients
  <2> QED
    BY <1>2, <1>3, <2>1, <2>2
      DEF RecordArgs, SetStrategy, Typed, TypeOK, NothingIsFuture, world, run, table, clients
<1>4. ASSUME NEW b \in BOOLEAN, SetPaused(b) PROVE Typed'
  BY <1>2, <1>4 DEF SetPaused, Typed, TypeOK, NothingIsFuture, world, run, table, clients
<1>5. CASE Trigger
  BY <1>5 DEF Trigger, Typed, TypeOK, NothingIsFuture, PCs, world, table, bounds
<1> QED
  BY <1>1, <1>3, <1>4, <1>5, WriteStepTyped DEF ClientNext

(* The workflow *)
LEMMA OutcomeTyped ==
  ASSUME Typed, NEW ok, NEW next \in PCs, Outcome(ok, next)
  PROVE  pc' \in PCs /\ failures' \in 0..MaxFailures /\ requests' = requests
BY RunConstants DEF Outcome, Typed, TypeOK, PCs

LEMMA EndRunTyped ==
  ASSUME Typed, EndRun
  PROVE  pc' = "idle" /\ seen' \in Row /\ seen'.mark = 0 /\ strategy' \in Strategies /\ newest' = 0
BY Empty DEF EndRun, Strategies

(* An activity that moves the mark moves it within the past. *)
LEMMA PhaseTyped ==
  ASSUME Typed, NEW ok, BeginPhase(ok) \/ EndPhase(ok)
  PROVE  Typed'
<1>1. strategy \in Strategies /\ sync \in Row
  BY DEF Typed, TypeOK
<1>2. NewMark \in Nat /\ NewMark <= clock
  BY Times DEF NewMark, Newer
<1>3. sync' \in Row /\ sync'.mark <= clock
  <2>1. ASSUME NEW m \in Nat, m <= clock, NEW status \in {"in progress", "done"},
               sync' = [sync EXCEPT !.phase = strategy, !.status = status, !.mark = m]
        PROVE  sync' \in Row /\ sync'.mark <= clock
    BY <1>1, <2>1 DEF Row
  <2>2. CASE BeginPhase(ok)
    <3> DEFINE m == IF strategy = "full" THEN 0 ELSE seen.mark
    <3>1. m \in Nat /\ m <= clock
      BY Times
    <3>2. sync' = [sync EXCEPT !.phase = strategy, !.status = "in progress", !.mark = m]
      BY <2>2 DEF BeginPhase
    <3> QED
      BY <2>1, <3>1, <3>2
  <2>3. CASE EndPhase(ok)
    BY <1>2, <2>1, <2>3 DEF EndPhase
  <2> QED
    BY <2>2, <2>3
<1>4. pc' \in PCs /\ failures' \in 0..MaxFailures /\ requests' = requests
  BY OutcomeTyped DEF BeginPhase, EndPhase, PCs
<1>5. wanted' \in {"none", "early", "late"} /\ (job.stage = "off" \/ FALSE)
  BY DEF BeginPhase, EndPhase, Typed, TypeOK
<1> QED
  BY <1>3, <1>4, <1>5
    DEF BeginPhase, EndPhase, Typed, TypeOK, NothingIsFuture, world, table, clients

LEMMA WorkflowTyped ==
  ASSUME Typed,
         \/ StartRun \/ GetSync \/ ChooseStrategy \/ LogSuccess \/ ActivityFails
         \/ \E ok \in BOOLEAN : ClearArgs(ok)
         \/ \E pausing \in BOOLEAN : CatchFailure(pausing)
  PROVE  Typed'
<1>1. CASE StartRun
  BY <1>1 DEF StartRun, Typed, TypeOK, NothingIsFuture, PCs, world, table, clients, bounds
<1>2. CASE GetSync
  BY <1>2 DEF GetSync, Typed, TypeOK, NothingIsFuture, PCs, world, table, clients, bounds
<1>3. CASE ChooseStrategy
  <2>1. strategy' \in Strategies
    BY <1>3 DEF ChooseStrategy, Strategies
  <2> QED
    BY <1>3, <2>1 DEF ChooseStrategy, Typed, TypeOK, NothingIsFuture, PCs, world, table, clients, bounds
<1>4. CASE LogSuccess
  <2>1. recent' \in Seq(Strategies) /\ Len(recent') <= EveryN + 1
    <3>1. recent \in Seq(Strategies) /\ strategy \in Strategies /\ Len(recent) <= EveryN + 1
      BY DEF Typed, TypeOK
    <3> DEFINE all == Append(recent, strategy)
    <3>2. all \in Seq(Strategies) /\ Len(all) = Len(recent) + 1
      BY <3>1
    <3>3. Tail(all) \in Seq(Strategies) /\ Len(Tail(all)) = Len(all) - 1
      BY <3>1, <3>2
    <3>4. recent' = IF Len(all) > EveryN + 1 THEN Tail(all) ELSE all
      BY <1>4 DEF LogSuccess
    <3> HIDE DEF all
    <3> QED
      BY <3>1, <3>2, <3>3, <3>4, RunConstants
  <2>2. pc' = "idle" /\ seen' \in Row /\ seen'.mark = 0 /\ strategy' \in Strategies /\ newest' = 0
    BY <1>4, EndRunTyped DEF LogSuccess
  <2>3. clock \in Nat /\ job.stage = "off"
    BY <1>4, RunConstants DEF LogSuccess, Typed, TypeOK
  <2> QED
    BY <1>4, <2>1, <2>2, <2>3
      DEF LogSuccess, Typed, TypeOK, NothingIsFuture, PCs, world, table, clients, bounds
<1>5. CASE ActivityFails
  <2>1. /\ pc' \in PCs /\ seen' \in Row /\ seen'.mark <= clock /\ strategy' \in Strategies
        /\ newest' \in 0..clock
    BY <1>5, EndRunTyped, RunConstants DEF ActivityFails, PCs, Typed, TypeOK, NothingIsFuture
  <2>2. failures' \in 0..MaxFailures /\ job.stage = "off"
    BY <1>5, RunConstants DEF ActivityFails, Typed, TypeOK
  <2> QED
    BY <1>5, <2>1, <2>2 DEF ActivityFails, Typed, TypeOK, NothingIsFuture, world, table, clients
<1>6. ASSUME NEW ok \in BOOLEAN, ClearArgs(ok) PROVE Typed'
  <2>1. pc' \in PCs /\ failures' \in 0..MaxFailures /\ requests' = requests
    BY <1>6, OutcomeTyped DEF ClearArgs, PCs
  <2>2. sync' \in Row /\ sync'.mark = sync.mark
    BY <1>6 DEF ClearArgs, Typed, TypeOK, Row
  <2>3. job.stage = "off"
    BY <1>6 DEF ClearArgs, Typed, TypeOK
  <2> QED
    BY <1>6, <2>1, <2>2, <2>3 DEF ClearArgs, Typed, TypeOK, NothingIsFuture, world, table, clients
<1>7. ASSUME NEW pausing \in BOOLEAN, CatchFailure(pausing) PROVE Typed'
  <2>1. pc' = "idle" /\ seen' \in Row /\ seen'.mark = 0 /\ strategy' \in Strategies /\ newest' = 0
    BY <1>7, EndRunTyped DEF CatchFailure
  <2>2. clock \in Nat /\ job.stage = "off" /\ paused' \in BOOLEAN
    BY <1>7, RunConstants DEF CatchFailure, Typed, TypeOK
  <2> QED
    BY <1>7, <2>1, <2>2
      DEF CatchFailure, Typed, TypeOK, NothingIsFuture, PCs, world, table, clients, bounds
<1> QED
  BY <1>1, <1>2, <1>3, <1>4, <1>5, <1>6, <1>7

(* The data activity *)
JobIsOf(j) == j \in Job /\ \A r \in Records : j.listed[r] <= clock

LEMMA JobOnly ==
  ASSUME Typed, pc = "transfer", JobIsOf(job'),
         UNCHANGED <<world, sync, paused, recent, run, table, clients, astray, wanted, bounds>>
  PROVE  Typed'
BY DEF JobIsOf, Typed, TypeOK, NothingIsFuture, world, run, table, clients, bounds

LEMMA JobNow == ASSUME Typed PROVE JobIsOf(job) /\ (job.stage # "off" => pc = "transfer")
BY DEF JobIsOf, Typed, TypeOK, NothingIsFuture

LEMMA SourceNow == ASSUME Typed PROVE source \in Versions /\ \A r \in Records : source[r] <= clock
BY DEF Typed, TypeOK, NothingIsFuture

LEMMA NoJobIsOf == ASSUME Typed PROVE JobIsOf(NoJob)
BY Empty, Times DEF JobIsOf

LEMMA ListingTyped ==
  ASSUME Typed, StartJob \/ ListAll \/ ListPage \/ EndOfPages
  PROVE  Typed'
<1>1. pc = "transfer"
  BY JobNow DEF StartJob, ListAll, ListPage, EndOfPages
<1>2. CASE StartJob
  <2>1. Since \in Nat /\ job.attempt \in Nat
    BY Times, JobNow DEF Since, JobIsOf, Job
  <2>2. job' = [NoJob EXCEPT !.stage = "list", !.since = Since, !.attempt = job.attempt + 1]
    BY <1>2 DEF StartJob
  <2>3. job' \in Job /\ job'.listed = NoJob.listed
    <3>1. ASSUME NEW since \in Nat, NEW attempt \in Nat
          PROVE  LET new == [NoJob EXCEPT !.stage = "list", !.since = since, !.attempt = attempt]
                 IN new \in Job /\ new.listed = NoJob.listed
      BY DEF NoJob, Job, Nothing, Versions
    <3>2. job.attempt + 1 \in Nat
      BY <2>1
    <3> QED
      BY <2>1, <2>2, <3>1, <3>2
  <2>4. JobIsOf(job')
    BY <2>3, NoJobIsOf DEF JobIsOf
  <2> QED
    BY <1>1, <1>2, <2>4, JobOnly DEF StartJob
<1>3. CASE ListAll
  <2> DEFINE new == [r \in Records |-> IF r \in Current(job.since) THEN source[r] ELSE 0]
  <2>1. new \in Versions /\ \A r \in Records : new[r] <= clock
    BY SourceNow, Times DEF Versions
  <2>2. Current(job.since) \subseteq Records
    BY DEF Current
  <2>3. job' = [job EXCEPT !.stage = "copy", !.left = Current(job.since), !.listed = new]
    BY <1>3 DEF ListAll
  <2> HIDE DEF new
  <2>4. JobIsOf(job')
    BY <2>1, <2>2, <2>3, JobNow DEF JobIsOf, Job
  <2> QED
    BY <1>1, <1>3, <2>4, JobOnly DEF ListAll
<1>4. CASE ListPage
  <2>1. PICK r \in Records :
          job' = [job EXCEPT !.listed[r] = source[r], !.left = @ \cup {r},
                             !.at = IF job.since = 0 THEN r ELSE @ + 1]
    BY <1>4 DEF ListPage, NextPage, Current
  <2>2. r \in Nat /\ source[r] \in Nat /\ source[r] <= clock
    BY RunConstants, SourceNow DEF Versions
  <2>3. JobIsOf(job')
    <3>1. job \in Job /\ \A q \in Records : job.listed[q] <= clock
      BY JobNow DEF JobIsOf
    <3>2. job' \in Job
      <4>1. [job.listed EXCEPT ![r] = source[r]] \in Versions
        BY <2>2, <3>1 DEF Job, Versions
      <4>2. job.left \cup {r} \subseteq Records
        BY <3>1 DEF Job
      <4>3. (IF job.since = 0 THEN r ELSE job.at + 1) \in Nat
        BY <2>2, <3>1 DEF Job
      <4> QED
        BY <2>1, <3>1, <4>1, <4>2, <4>3 DEF Job
    <3>3. \A q \in Records : job'.listed[q] <= clock
      BY <2>1, <2>2, <3>1 DEF Job, Versions
    <3> QED
      BY <3>2, <3>3 DEF JobIsOf
  <2> QED
    BY <1>1, <1>4, <2>3, JobOnly DEF ListPage
<1>5. CASE EndOfPages
  <2>1. JobIsOf(job')
    BY <1>5, JobNow DEF EndOfPages, JobIsOf, Job
  <2> QED
    BY <1>1, <1>5, <2>1, JobOnly DEF EndOfPages
<1> QED
  BY <1>2, <1>3, <1>4, <1>5

LEMMA ReturnTyped ==
  ASSUME Typed, Return
  PROVE  /\ newest' \in 0..clock /\ pc' \in PCs /\ job' = NoJob
         /\ job'.stage = "off" /\ JobIsOf(job') /\ astray' \subseteq Records
<1>1. Passed \subseteq Records /\ astray \subseteq Records
  BY DEF Passed, Typed, TypeOK
<1> QED
  BY <1>1, LastListedIsListed, NoJobIsOf, Empty DEF Typed, Return, PCs

LEMMA JobTyped ==
  ASSUME Typed, FinishCopy \/ MarkMissing \/ JobFails \/ \E batch \in SUBSET Records : Copy(batch)
  PROVE  Typed'
<1>1. pc = "transfer"
  BY JobNow DEF FinishCopy, MarkMissing, JobFails, Copy
<1>2. ASSUME NEW batch \in SUBSET Records, Copy(batch) PROVE Typed'
  <2>1. job.listed \in Versions /\ \A r \in Records : job.listed[r] <= clock
    BY JobNow DEF JobIsOf, Job
  <2>2. JobIsOf(job')
    BY <1>2, JobNow DEF Copy, JobIsOf, Job
  <2>3. dest' \in Versions
    BY <1>2, <2>1 DEF Copy, Typed, TypeOK, Versions
  <2>4. deleted' \subseteq {r \in Records : dest'[r] # 0}
    BY <1>2 DEF Copy, Typed, TypeOK
  <2> QED
    BY <1>1, <1>2, <2>2, <2>3, <2>4
      DEF Copy, JobIsOf, Typed, TypeOK, NothingIsFuture, world, run, clients, bounds
<1>3. CASE FinishCopy
  <2>1. /\ JobIsOf(job') /\ pc' \in PCs /\ newest' \in 0..clock
        /\ (job'.stage # "off" => pc' = "transfer") /\ astray' \subseteq Records
    <3>1. CASE DiffAndDelete
      BY <1>1, <1>3, <3>1, JobNow, Times DEF FinishCopy, JobIsOf, Job, PCs, Typed, TypeOK
    <3>2. CASE ~DiffAndDelete
      BY <1>3, <3>2, ReturnTyped DEF FinishCopy
    <3> QED
      BY <3>1, <3>2
  <2> QED
    BY <1>3, <2>1 DEF FinishCopy, JobIsOf, Typed, TypeOK, NothingIsFuture, world, table, clients, bounds
<1>4. CASE MarkMissing
  <2>1. /\ JobIsOf(job') /\ pc' \in PCs /\ newest' \in 0..clock /\ job'.stage = "off"
        /\ astray' \subseteq Records
    BY <1>4, ReturnTyped DEF MarkMissing
  <2> QED
    BY <1>4, <2>1 DEF MarkMissing, JobIsOf, Typed, TypeOK, NothingIsFuture, world, clients, bounds
<1>5. CASE JobFails
  <2>1. JobIsOf(job') /\ pc' \in PCs /\ job'.stage = "off"
    BY <1>1, <1>5, JobNow, NoJobIsOf, Empty DEF JobFails, JobIsOf, Job, PCs, NoJob
  <2>2. failures' \in 0..MaxFailures
    BY <1>5, RunConstants DEF JobFails, Typed, TypeOK
  <2> QED
    BY <1>5, <2>1, <2>2 DEF JobFails, JobIsOf, Typed, TypeOK, NothingIsFuture, world, table, clients
<1> QED
  BY <1>2, <1>3, <1>4, <1>5

LEMMA NextTyped == Typed /\ [Next]_vars => Typed'
<1> SUFFICES ASSUME Typed, [Next]_vars PROVE Typed'
  OBVIOUS
<1>1. CASE RunStep
  BY <1>1, WorkflowTyped, PhaseTyped, ListingTyped, JobTyped DEF RunStep
<1>2. CASE Failure
  BY <1>2, WorkflowTyped, PhaseTyped, JobTyped DEF Failure
<1>3. CASE UNCHANGED vars
  BY <1>3 DEF vars, Typed, TypeOK, NothingIsFuture, world, run, table, clients, bounds
<1> QED
  BY <1>1, <1>2, <1>3, ProviderTyped, ClientTyped, WorkflowTyped DEF Next

(* Every variable keeps its type; a row exists before it is marked as deleted, the data        *)
(* activity runs in its step of the workflow only, and the mark of the sync is of the past.    *)
THEOREM TypeCorrect == Spec => []TypeOK
BY InitTyped, NextTyped, PTL DEF Spec, Typed

-----------------------------------------------------------------------------
(* What the run has in hand *)

(* Steps that leave the run alone, and the row but for what the next run should do. *)
LEMMA RunUntouched ==
  ASSUME UNCHANGED <<run, recent>>, sync'.mark = sync.mark
  PROVE  (MarkInHand => MarkInHand') /\ (NotDue => NotDue')
BY DEF run, MarkInHand, Since, NotDue, LastNAreIncremental

LEMMA MarkTyped == ASSUME Typed PROVE sync \in Row /\ seen \in Row
BY DEF Typed, TypeOK

LEMMA NextMarkInHand == Typed /\ MarkInHand /\ [Next]_vars => MarkInHand'
<1> SUFFICES ASSUME Typed, MarkInHand, [Next]_vars PROVE MarkInHand'
  OBVIOUS
<1>1. CASE UNCHANGED <<run, recent, sync>>
  BY <1>1, RunUntouched
<1>2. CASE ProviderNext \/ WriteStep \/ \E r \in Records : SendWrite(r)
  BY <1>1, <1>2 DEF ProviderNext, Change, Remove, WriteStep, ReadBack, WriteBack, EndWrite, SendWrite
<1>3. ASSUME NEW b \in BOOLEAN, RecordArgs(b) \/ SetPaused(b) \/ SetStrategy(b) PROVE MarkInHand'
  <2>1. sync'.mark = sync.mark /\ UNCHANGED <<run, recent>>
    BY <1>3, MarkTyped DEF RecordArgs, SetPaused, SetStrategy, Row
  <2> QED
    BY <2>1, RunUntouched
<1>4. CASE StartRun \/ Trigger
  BY <1>4 DEF StartRun, Trigger, MarkInHand, Since
<1>5. CASE GetSync \/ ChooseStrategy
  BY <1>5 DEF GetSync, ChooseStrategy, MarkInHand
<1>6. ASSUME NEW ok \in BOOLEAN, BeginPhase(ok) PROVE MarkInHand'
  <2>1. sync'.mark = IF strategy = "full" THEN 0 ELSE seen.mark
    BY <1>6, MarkTyped DEF BeginPhase, Row
  <2>2. pc' \in {"transfer", "caught"} /\ strategy' = strategy /\ seen' = seen
    BY <1>6 DEF BeginPhase, Outcome
  <2> QED
    BY <2>1, <2>2 DEF MarkInHand, Since
<1>7. CASE StartJob \/ ListAll \/ ListPage \/ EndOfPages \/ \E batch \in SUBSET Records : Copy(batch)
  BY <1>1, <1>7 DEF StartJob, ListAll, ListPage, EndOfPages, Copy
<1>8. CASE FinishCopy \/ MarkMissing \/ JobFails
  <2>1. pc = "transfer"
    BY <1>8, JobNow DEF FinishCopy, MarkMissing, JobFails
  <2>2. pc' \in {"transfer", "end", "caught"} /\ UNCHANGED <<sync, seen, strategy>>
    BY <1>8, <2>1 DEF FinishCopy, MarkMissing, JobFails, Return
  <2> QED
    BY <2>1, <2>2 DEF MarkInHand, Since
<1>9. CASE \/ LogSuccess \/ ActivityFails
           \/ \E ok \in BOOLEAN : EndPhase(ok) \/ ClearArgs(ok)
           \/ \E pausing \in BOOLEAN : CatchFailure(pausing)
  BY <1>9 DEF LogSuccess, ActivityFails, EndPhase, ClearArgs, CatchFailure, Outcome, EndRun, MarkInHand
<1> QED
  BY <1>1, <1>2, <1>3, <1>4, <1>5, <1>6, <1>7, <1>8, <1>9
    DEF Next, ClientNext, RunStep, Failure, vars

(* The mark of the sync falls only where a full run begins or ends: an incremental run keeps *)
(* the mark it has read, and ends with that or a newer one.                                  *)
LEMMA MarkFallsForFull ==
  ASSUME Typed, MarkInHand, [Next]_vars, sync'.mark < sync.mark
  PROVE  sync'.phase = "full"
<1>1. sync \in Row /\ sync.mark \in Nat /\ seen.mark \in Nat /\ newest \in Nat
  BY Times
<1>2. strategy \in Strategies
  BY DEF Typed, TypeOK
<1>3. ASSUME NEW ok \in BOOLEAN, BeginPhase(ok) PROVE sync'.phase = "full"
  <2>1. sync'.phase = strategy /\ sync'.mark = IF strategy = "full" THEN 0 ELSE seen.mark
    BY <1>1, <1>3 DEF BeginPhase, Row
  <2> QED
    BY <1>1, <1>2, <1>3, <2>1 DEF BeginPhase, MarkInHand, Strategies
<1>4. ASSUME NEW ok \in BOOLEAN, EndPhase(ok) PROVE sync'.phase = "full"
  <2>1. sync'.phase = strategy /\ sync'.mark = NewMark
    BY <1>1, <1>4 DEF EndPhase, Row
  <2>2. CASE strategy = "incremental"
    <3>1. sync.mark = seen.mark
      BY <1>4, <2>2 DEF EndPhase, MarkInHand, Since
    <3> QED
      BY <1>1, <2>1, <2>2, <3>1 DEF NewMark, Newer
  <2> QED
    BY <1>2, <2>1, <2>2 DEF Strategies
<1>5. CASE ~\E ok \in BOOLEAN : BeginPhase(ok) \/ EndPhase(ok)
  <2>1. sync'.mark = sync.mark
    BY <1>1, <1>5
      DEF Next, ProviderNext, Change, Remove, ClientNext, SendWrite, WriteStep, ReadBack, WriteBack,
          EndWrite, RecordArgs, SetPaused, SetStrategy, Trigger, StartRun, RunStep, GetSync,
          ChooseStrategy, StartJob, ListAll, ListPage, EndOfPages, Copy, FinishCopy, MarkMissing,
          ClearArgs, LogSuccess, CatchFailure, Failure, ActivityFails, JobFails, vars, Row
  <2> QED
    BY <1>1, <2>1
<1> QED
  BY <1>3, <1>4, <1>5

LEMMA InitInHand == Init => MarkInHand /\ NotDue /\ RefreshInHand
BY DEF Init, MarkInHand, NotDue, RefreshInHand, Deciding

(* Only a full run lets the high watermark of a sync fall (updateSyncState in                *)
(* runObjectSync), whatever fails, is retried or is asked for meanwhile.                     *)
THEOREM MarkFallsOnlyWhenFull == Spec => MarkNeverFalls
<1>1. Typed /\ MarkInHand /\ [Next]_vars => [sync'.mark < sync.mark => sync'.phase = "full"]_vars
  BY MarkFallsForFull
<1> QED
  BY <1>1, InitTyped, NextTyped, InitInHand, NextMarkInHand, PTL DEF Spec, MarkNeverFalls

LEMMA NextNotDue == Typed /\ NotDue /\ [Next]_vars => NotDue'
<1> SUFFICES ASSUME Typed, NotDue, [Next]_vars PROVE NotDue'
  OBVIOUS
<1>1. ASSUME UNCHANGED <<pc, strategy, recent>> PROVE NotDue'
  BY <1>1 DEF NotDue, LastNAreIncremental
<1>2. ASSUME pc' \notin Deciding PROVE NotDue'
  BY <1>2 DEF NotDue
<1>3. ASSUME UNCHANGED <<strategy, recent>>, pc \in Deciding PROVE NotDue'
  BY <1>3 DEF NotDue, LastNAreIncremental
<1>4. CASE ProviderNext \/ ClientNext \/ UNCHANGED vars
  <2>1. CASE Trigger
    BY <1>1, <1>2, <2>1 DEF Trigger, Deciding
  <2> QED
    BY <1>1, <1>4, <2>1
      DEF ProviderNext, Change, Remove, ClientNext, WriteStep, ReadBack, WriteBack, EndWrite, SendWrite,
          RecordArgs, SetPaused, SetStrategy, run, vars
<1>5. CASE StartRun \/ GetSync
  BY <1>2, <1>5 DEF StartRun, GetSync, Deciding
<1>6. CASE ChooseStrategy
  BY <1>6 DEF ChooseStrategy, NotDue, Due, LastNAreIncremental
<1>7. CASE \E ok \in BOOLEAN : BeginPhase(ok) \/ EndPhase(ok) \/ ClearArgs(ok)
  BY <1>3, <1>7 DEF BeginPhase, EndPhase, ClearArgs, Deciding
<1>8. CASE StartJob \/ ListAll \/ ListPage \/ EndOfPages \/ \E batch \in SUBSET Records : Copy(batch)
  BY <1>1, <1>8 DEF StartJob, ListAll, ListPage, EndOfPages, Copy, run
<1>9. CASE FinishCopy \/ MarkMissing \/ JobFails
  <2>1. pc = "transfer"
    BY <1>9, JobNow DEF FinishCopy, MarkMissing, JobFails
  <2> QED
    BY <1>3, <1>9, <2>1 DEF FinishCopy, MarkMissing, JobFails, Deciding
<1>10. CASE LogSuccess \/ ActivityFails \/ \E pausing \in BOOLEAN : CatchFailure(pausing)
  BY <1>2, <1>10 DEF LogSuccess, ActivityFails, CatchFailure, EndRun, Deciding
<1> QED
  BY <1>4, <1>5, <1>6, <1>7, <1>8, <1>9, <1>10 DEF Next, RunStep, Failure

(* A success is added to the row of successes, whose oldest may go. *)
LEMMA SuccessKeepsFull ==
  ASSUME Typed, NotDue, LogSuccess
  PROVE  FullEveryN'
<1> SUFFICES ASSUME EveryN # 0, Len(recent') = EveryN + 1,
                    \A i \in 1..Len(recent') : recent'[i] = "incremental"
             PROVE  FALSE
  BY DEF FullEveryN
<1>1. /\ recent \in Seq(Strategies) /\ strategy \in Strategies
      /\ Len(recent) <= EveryN + 1 /\ EveryN \in Nat /\ Len(recent) \in Nat
  BY RunConstants DEF Typed, TypeOK
<1> DEFINE all == Append(recent, strategy)
           n == Len(recent)
<1>2. /\ Len(all) = n + 1 /\ all[n + 1] = strategy
      /\ \A i \in 1..n : all[i] = recent[i]
  BY <1>1
<1>3. recent' = IF Len(all) > EveryN + 1 THEN Tail(all) ELSE all
  BY DEF LogSuccess
<1>4. all \in Seq(Strategies)
  BY <1>1
<1>5. /\ Len(Tail(all)) = n
      /\ \A i \in 1..n : Tail(all)[i] = all[i + 1]
  BY <1>1, <1>2, <1>4
<1> HIDE DEF all
<1>6. n \in {EveryN, EveryN + 1}
  BY <1>1, <1>2, <1>3, <1>5
<1>7. \A i \in 0..EveryN : all[n + 1 - i] = "incremental"
  <2>1. CASE n = EveryN
    <3>1. recent' = all
      BY <1>1, <1>2, <1>3, <2>1
    <3> QED
      BY <1>1, <1>2, <2>1, <3>1
  <2>2. CASE n = EveryN + 1
    <3>1. recent' = Tail(all)
      BY <1>1, <1>2, <1>3, <2>2
    <3>2. ASSUME NEW i \in 0..EveryN PROVE all[n + 1 - i] = "incremental"
      <4>1. n - i \in 1..n /\ (n - i) + 1 = n + 1 - i
        BY <1>1, <2>2
      <4>2. Tail(all)[n - i] = all[n + 1 - i]
        BY <1>5, <4>1
      <4> QED
        BY <1>1, <1>5, <2>2, <3>1, <4>1, <4>2
    <3> QED
      BY <3>2
  <2> QED
    BY <1>6, <2>1, <2>2
<1>8. strategy = "incremental"
  BY <1>1, <1>2, <1>7
<1>9. \A i \in 1..EveryN : recent[Len(recent) + 1 - i] = "incremental"
  <2>1. ASSUME NEW i \in 1..EveryN PROVE recent[n + 1 - i] = "incremental"
    <3>1. n + 1 - i \in 1..n
      BY <1>1, <1>6
    <3>2. all[n + 1 - i] = "incremental"
      BY <1>1, <1>7
    <3> QED
      BY <1>2, <3>1, <3>2
  <2> QED
    BY <2>1
<1> QED
  BY <1>1, <1>6, <1>8, <1>9 DEF NotDue, LastNAreIncremental, LogSuccess, Deciding

(* Of N + 1 successful runs in a row one is full (shouldDoFullSyncAfterNIncrementals), *)
(* whichever runs fail between and whatever is asked for.                              *)
THEOREM EveryNRunsOneIsFull == Spec => []FullEveryN
<1>1. Typed /\ NotDue /\ FullEveryN /\ [Next]_vars => FullEveryN'
  <2> SUFFICES ASSUME Typed, NotDue, FullEveryN, [Next]_vars, ~LogSuccess PROVE FullEveryN'
    BY SuccessKeepsFull
  <2>1. recent' = recent
    BY DEF Next, ProviderNext, Change, Remove, ClientNext, SendWrite, WriteStep, ReadBack, WriteBack,
           EndWrite, RecordArgs, SetPaused, SetStrategy, Trigger, StartRun, RunStep, GetSync,
           ChooseStrategy, BeginPhase, StartJob, ListAll, ListPage, EndOfPages, Copy, FinishCopy,
           MarkMissing, EndPhase, ClearArgs, CatchFailure, Failure, ActivityFails, JobFails, vars
  <2> QED
    BY <2>1 DEF FullEveryN
<1>2. Init => FullEveryN
  BY RunConstants DEF Init, FullEveryN
<1> QED
  BY <1>1, <1>2, InitTyped, NextTyped, InitInHand, NextNotDue, PTL DEF Spec

-----------------------------------------------------------------------------
(* Full refreshes that were asked for *)

LEMMA NextRefresh == Typed /\ RefreshInHand /\ [Next]_vars => RefreshInHand'
<1> SUFFICES ASSUME Typed, RefreshInHand, [Next]_vars PROVE RefreshInHand'
  OBVIOUS
<1>1. sync \in Row /\ seen \in Row /\ strategy \in Strategies
  BY DEF Typed, TypeOK
<1>2. ASSUME UNCHANGED <<pc, seen, strategy, sync, wanted>> PROVE RefreshInHand'
  BY <1>2 DEF RefreshInHand
<1>3. CASE ProviderNext \/ WriteStep \/ (\E r \in Records : SendWrite(r)) \/ UNCHANGED vars
  BY <1>2, <1>3
    DEF ProviderNext, Change, Remove, WriteStep, ReadBack, WriteBack, EndWrite, SendWrite, run, vars
<1>4. ASSUME NEW b \in BOOLEAN, RecordArgs(b) PROVE RefreshInHand'
  <2>1. sync'.refresh = b /\ UNCHANGED run
    BY <1>1, <1>4 DEF RecordArgs, Row
  <2>2. wanted' = "early" => b /\ pc \in {"idle", "getSync"}
    BY <1>4 DEF RecordArgs
  <2> QED
    BY <2>1, <2>2 DEF RefreshInHand, run
<1>5. ASSUME NEW b \in BOOLEAN, SetPaused(b) \/ SetStrategy(b) PROVE RefreshInHand'
  <2>1. sync'.refresh = sync.refresh /\ UNCHANGED <<run, wanted>>
    BY <1>1, <1>5 DEF SetPaused, SetStrategy, Row
  <2> QED
    BY <2>1 DEF RefreshInHand, run
<1>6. CASE Trigger \/ StartRun \/ GetSync
  BY <1>6 DEF Trigger, StartRun, GetSync, RefreshInHand
<1>7. CASE ChooseStrategy
  BY <1>7 DEF ChooseStrategy, RefreshInHand, Due
<1>8. ASSUME NEW ok \in BOOLEAN, BeginPhase(ok) PROVE RefreshInHand'
  <2>1. sync'.refresh = sync.refresh /\ pc' \in {"transfer", "caught"}
    BY <1>1, <1>8 DEF BeginPhase, Outcome, Row
  <2> QED
    BY <1>8, <2>1 DEF BeginPhase, RefreshInHand
<1>9. ASSUME NEW ok \in BOOLEAN, EndPhase(ok) PROVE RefreshInHand'
  <2>1. sync'.refresh = sync.refresh /\ pc' \in {"clear", "caught"}
    BY <1>1, <1>9 DEF EndPhase, Outcome, Row
  <2>2. wanted' # "early"
    BY <1>9 DEF EndPhase, RefreshInHand
  <2> QED
    BY <2>1, <2>2 DEF RefreshInHand
<1>10. ASSUME NEW ok \in BOOLEAN, ClearArgs(ok) PROVE RefreshInHand'
  BY <1>10 DEF ClearArgs, Outcome, RefreshInHand
<1>11. CASE StartJob \/ ListAll \/ ListPage \/ EndOfPages \/ \E batch \in SUBSET Records : Copy(batch)
  BY <1>2, <1>11 DEF StartJob, ListAll, ListPage, EndOfPages, Copy, run
<1>12. CASE FinishCopy \/ MarkMissing \/ JobFails
  <2>1. pc = "transfer"
    BY <1>12, JobNow DEF FinishCopy, MarkMissing, JobFails
  <2> QED
    BY <1>12, <2>1 DEF FinishCopy, MarkMissing, JobFails, Return, RefreshInHand
<1>13. CASE LogSuccess \/ ActivityFails \/ \E pausing \in BOOLEAN : CatchFailure(pausing)
  BY <1>13 DEF LogSuccess, ActivityFails, CatchFailure, EndRun, RefreshInHand
<1> QED
  BY <1>3, <1>4, <1>5, <1>6, <1>7, <1>8, <1>9, <1>10, <1>11, <1>12, <1>13
    DEF Next, ClientNext, RunStep, Failure

(* A full refresh that was asked for before a run read the row (argsForNextSync) survives *)
(* every failure, restart and incremental run until a full run has brought the data in.   *)
THEOREM EarlyRefreshIsKept == Spec => []EarlyRefreshKept
<1>1. RefreshInHand => EarlyRefreshKept
  BY DEF RefreshInHand, EarlyRefreshKept
<1> QED
  BY <1>1, InitTyped, NextTyped, InitInHand, NextRefresh, PTL DEF Spec

-----------------------------------------------------------------------------
(* What has arrived *)

LEMMA DataTypes ==
  ASSUME Typed
  PROVE  /\ job \in Job /\ job.listed \in Versions /\ source \in Versions /\ dest \in Versions
         /\ clock \in Nat /\ sync.mark \in 0..clock /\ newest \in 0..clock
         /\ \A r \in Records : /\ source[r] \in Nat /\ source[r] <= clock
                                /\ job.listed[r] \in Nat /\ job.listed[r] <= clock
<1>1. job \in Job /\ source \in Versions /\ dest \in Versions
  BY DEF Typed, TypeOK
<1>2. job.listed \in Versions
  BY <1>1 DEF Job
<1>3. \A r \in Records : source[r] <= clock /\ job.listed[r] <= clock
  BY DEF Typed, NothingIsFuture
<1> QED
  BY <1>1, <1>2, <1>3, Times DEF Versions

(* Steps that touch neither the data, nor the job, nor the mark. *)
LEMMA DataUntouched ==
  ASSUME DataInv, UNCHANGED <<source, job, table, astray, run>>, sync'.mark = sync.mark
  PROVE  DataInv'
BY DEF DataInv, JobOfTheRun, Since, ListingIsComplete, LeftIsNews, CopiedIsInPlace, ReturnedIsInPlace,
       NothingMissed, InPlace, UpToDate, table, run

(* While no job is under way, nor done, only the mark counts. *)
LEMMA NoJobNoClaim ==
  ASSUME job'.stage = "off", pc' # "end", NothingMissed'
  PROVE  DataInv'
BY DEF DataInv, JobOfTheRun, ListingIsComplete, LeftIsNews, CopiedIsInPlace, ReturnedIsInPlace

LEMMA SameMarkMissesNothing ==
  ASSUME NothingMissed, UNCHANGED <<source, table>>, astray \subseteq astray',
         sync'.mark = sync.mark \/ sync'.mark = 0, source \in Versions
  PROVE  NothingMissed'
<1>1. \A r \in Records : source[r] \in Nat
  BY DEF Versions
<1> QED
  BY <1>1 DEF NothingMissed, UpToDate, table

(* A change is younger than the mark and than everything that is listed. *)
LEMMA TouchKeepsData ==
  ASSUME Typed, DataInv, NEW r \in Records, Touch(r), UNCHANGED <<sync, run, job, table, astray>>
  PROVE  DataInv'
<1>1. /\ source'[r] = clock + 1
      /\ \A q \in Records : q # r => source'[q] = source[q]
  BY DataTypes DEF Touch, Versions
<1>2. \A q \in Records : job.listed[q] < source'[r]
  BY <1>1, DataTypes
<1>3. ~(source'[r] <= sync.mark) /\ ~(source'[r] <= newest)
  BY <1>1, DataTypes
<1>4. UNCHANGED <<sync, pc, seen, strategy, newest, job, dest, deleted, astray>>
  BY DEF run, table
<1>5. NothingMissed' /\ ReturnedIsInPlace'
  BY <1>1, <1>3, <1>4 DEF DataInv, NothingMissed, ReturnedIsInPlace, InPlace, UpToDate
<1>6. JobOfTheRun'
  BY <1>4 DEF DataInv, JobOfTheRun, Since
<1>7. ListingIsComplete'
  BY <1>1, <1>2, <1>4 DEF DataInv, ListingIsComplete
<1>8. LeftIsNews'
  <2>1. job.left \subseteq Records
    BY DataTypes DEF Job
  <2>2. source'[r] >= job.listed[r]
    BY <1>1, <1>2, DataTypes
  <2> QED
    BY <1>1, <1>4, <2>1, <2>2 DEF DataInv, LeftIsNews
<1>9. CopiedIsInPlace'
  <2>1. source'[r] # job.listed[r]
    BY <1>1, <1>2, DataTypes
  <2> QED
    BY <1>1, <1>4, <2>1 DEF DataInv, CopiedIsInPlace, InPlace, UpToDate
<1> QED
  BY <1>5, <1>6, <1>7, <1>8, <1>9 DEF DataInv

(* Of a record that is gone nothing is claimed. *)
LEMMA RemoveKeepsData ==
  ASSUME Typed, DataInv, NEW r \in Records, Remove(r)
  PROVE  DataInv'
<1>1. /\ source'[r] = 0
      /\ \A q \in Records : q # r => source'[q] = source[q]
  BY DataTypes DEF Remove, Versions
<1>2. UNCHANGED <<sync, pc, seen, strategy, newest, job, dest, deleted, astray>>
  BY DEF Remove, run, table
<1>3. job.left \subseteq Records
  BY DataTypes DEF Job
<1> QED
  BY <1>1, <1>2, <1>3
    DEF DataInv, JobOfTheRun, Since, ListingIsComplete, LeftIsNews, CopiedIsInPlace, ReturnedIsInPlace,
        NothingMissed, InPlace, UpToDate

(* What a write-back leaves is the provider's version, or counts as astray. *)
LEMMA WriteBackKeepsData ==
  ASSUME Typed, DataInv, NEW r \in Records, WriteBack(r)
  PROVE  DataInv'
<1>1. \A q \in Records : InPlace(q) => InPlace(q)'
  BY DataTypes DEF WriteBack, InPlace, UpToDate, Versions, world
<1>2. UNCHANGED <<source, sync, pc, seen, strategy, newest, job>>
  BY DEF WriteBack, world, run
<1>3. NothingMissed'
  BY <1>1, <1>2 DEF DataInv, NothingMissed, InPlace
<1> QED
  BY <1>1, <1>2, <1>3
    DEF DataInv, JobOfTheRun, Since, ListingIsComplete, LeftIsNews, CopiedIsInPlace, ReturnedIsInPlace

LEMMA StartKeepsData == ASSUME Typed, DataInv, StartJob PROVE DataInv'
<1>1. /\ job'.stage = "list" /\ job'.since = Since /\ job'.left = {}
      /\ \A r \in Records : job'.listed[r] = 0
  BY DEF StartJob, NoJob, Nothing
<1>2. UNCHANGED <<source, sync, pc, seen, strategy, newest, dest, deleted, astray>>
  BY DEF StartJob, world, run, table
<1> QED
  BY <1>1, <1>2
    DEF DataInv, JobOfTheRun, Since, ListingIsComplete, LeftIsNews, CopiedIsInPlace, ReturnedIsInPlace,
        NothingMissed, InPlace, UpToDate

(* The one query: what has changed since the mark, as it is. *)
LEMMA ListAllKeepsData == ASSUME Typed, DataInv, ListAll PROVE DataInv'
<1>1. /\ job.stage = "list" /\ job'.stage = "copy" /\ job'.since = job.since
      /\ job'.left = Current(job.since)
      /\ \A r \in Records : job'.listed[r] = IF r \in Current(job.since) THEN source[r] ELSE 0
  BY DataTypes DEF ListAll, Job
<1>2. UNCHANGED <<source, sync, pc, seen, strategy, newest, dest, deleted, astray>>
  BY DEF ListAll, world, run, table
<1>3. job.since \in Nat /\ \A r \in Records : source[r] \in Nat
  BY DataTypes DEF Job
<1>4. NothingMissed' /\ ReturnedIsInPlace' /\ JobOfTheRun'
  BY <1>1, <1>2
    DEF DataInv, JobOfTheRun, Since, ReturnedIsInPlace, NothingMissed, InPlace, UpToDate
<1>5. ListingIsComplete' /\ LeftIsNews'
  BY <1>1, <1>2, <1>3 DEF ListingIsComplete, LeftIsNews, Current
<1>6. CopiedIsInPlace'
  BY <1>1, <1>2 DEF CopiedIsInPlace
<1> QED
  BY <1>4, <1>5, <1>6 DEF DataInv

(* A page: one more record that has changed since the mark, as it is. *)
LEMMA ListPageKeepsData == ASSUME Typed, DataInv, ListPage PROVE DataInv'
<1>1. PICK r \in NextPage :
        job' = [job EXCEPT !.listed[r] = source[r], !.left = @ \cup {r},
                           !.at = IF job.since = 0 THEN r ELSE @ + 1]
  BY DEF ListPage
<1>2. r \in Records /\ source[r] > job.since
  BY DEF NextPage, Current
<1>3. /\ job.stage = "list" /\ Paged /\ job'.stage = "list" /\ job'.since = job.since
      /\ job'.left = job.left \cup {r} /\ job'.listed[r] = source[r]
      /\ \A q \in Records : q # r => job'.listed[q] = job.listed[q]
  BY <1>1, <1>2, DataTypes DEF ListPage, Job, Versions
<1>4. UNCHANGED <<source, sync, pc, seen, strategy, newest, dest, deleted, astray>>
  BY DEF ListPage, world, run, table
<1>5. job.left \subseteq Records /\ \A q \in Records : source[q] \in Nat
  BY DataTypes DEF Job
<1>6. NothingMissed' /\ ReturnedIsInPlace' /\ JobOfTheRun' /\ ListingIsComplete'
  BY <1>3, <1>4
    DEF DataInv, JobOfTheRun, Since, ReturnedIsInPlace, NothingMissed, ListingIsComplete, InPlace, UpToDate
<1>7. LeftIsNews'
  BY <1>2, <1>3, <1>4, <1>5 DEF DataInv, LeftIsNews
<1>8. CopiedIsInPlace'
  BY <1>3, <1>4 DEF DataInv, CopiedIsInPlace, InPlace, UpToDate
<1> QED
  BY <1>6, <1>7, <1>8 DEF DataInv

LEMMA EndOfPagesKeepsData == ASSUME Typed, DataInv, EndOfPages PROVE DataInv'
<1>1. /\ job.stage = "list" /\ Paged /\ job'.stage = "copy" /\ job'.since = job.since
      /\ job'.left = job.left /\ job'.listed = job.listed
  BY DataTypes DEF EndOfPages, Job
<1>2. UNCHANGED <<source, sync, pc, seen, strategy, newest, dest, deleted, astray>>
  BY DEF EndOfPages, world, run, table
<1> QED
  BY <1>1, <1>2
    DEF DataInv, JobOfTheRun, Since, ListingIsComplete, LeftIsNews, CopiedIsInPlace, ReturnedIsInPlace,
        NothingMissed, InPlace, UpToDate

(* A batch puts its records in place, or what has changed again; none of it is below the mark. *)
LEMMA CopyKeepsData ==
  ASSUME Typed, MarkInHand, DataInv, NEW batch \in SUBSET Records, Copy(batch)
  PROVE  DataInv'
<1>1. /\ job.stage = "copy" /\ batch \subseteq job.left
      /\ dest' = [r \in Records |-> IF r \in batch THEN job.listed[r] ELSE dest[r]]
      /\ deleted' = deleted \ batch /\ astray' = astray \ batch
      /\ UNCHANGED <<source, sync, pc, seen, strategy, newest>>
  BY DEF Copy, world, run
<1>2. job'.stage = "copy" /\ job'.since = job.since /\ job'.listed = job.listed /\ job'.left = job.left \ batch
  BY <1>1, DataTypes DEF Copy, Job
<1>3. pc = "transfer" /\ sync.mark = sync'.mark
  BY <1>1, JobNow
<1>4. \A r \in Records \ batch : InPlace(r) => InPlace(r)'
  BY <1>1 DEF InPlace, UpToDate
<1>5. \A r \in batch : source[r] = job.listed[r] => InPlace(r)'
  BY <1>1 DEF InPlace, UpToDate
<1>6. JobOfTheRun' /\ ReturnedIsInPlace'
  BY <1>1, <1>2, <1>3 DEF DataInv, JobOfTheRun, Since, ReturnedIsInPlace
<1>7. ListingIsComplete' /\ LeftIsNews'
  BY <1>1, <1>2 DEF DataInv, ListingIsComplete, LeftIsNews
<1>8. CopiedIsInPlace'
  BY <1>1, <1>2, <1>4, <1>5 DEF DataInv, CopiedIsInPlace
<1>9. sync.mark = job.since
  BY <1>1, <1>3 DEF MarkInHand, DataInv, JobOfTheRun
<1>10. job.since \in Nat /\ \A r \in Records : source[r] \in Nat /\ job.listed[r] \in Nat
  BY DataTypes DEF Job
<1>11. \A r \in batch : job.listed[r] > job.since /\ (source[r] = 0 \/ source[r] >= job.listed[r])
  BY <1>1 DEF DataInv, LeftIsNews
<1>12. \A r \in batch : source[r] = 0 \/ ~(source[r] <= sync.mark)
  BY <1>9, <1>10, <1>11
<1>13. NothingMissed'
  BY <1>1, <1>3, <1>4, <1>12 DEF DataInv, NothingMissed, InPlace
<1> QED
  BY <1>6, <1>7, <1>8, <1>13 DEF DataInv

(* When all is copied, what the provider had changed up to the newest listed is in place, but for *)
(* what no page showed.                                                                            *)
LEMMA ReturnIsInPlace ==
  ASSUME Typed, MarkInHand, DataInv, job.stage \in {"copy", "delete"}, job.left = {},
         NEW r \in Records, source[r] # 0, source[r] <= LastListed, r \notin Passed
  PROVE  InPlace(r)
<1>1. /\ job.since \in Nat /\ source[r] \in Nat /\ LastListed \in Nat
      /\ \A q \in Records : job.listed[q] \in Nat
  BY DataTypes, LastListedIsListed DEF Job, Typed
<1>2. sync.mark = job.since
  <2>1. pc = "transfer"
    BY JobNow
  <2> QED
    BY <2>1 DEF MarkInHand, DataInv, JobOfTheRun
<1>3. CASE source[r] <= job.since
  BY <1>2, <1>3 DEF DataInv, NothingMissed, InPlace
<1>4. CASE source[r] = job.listed[r]
  BY <1>4 DEF DataInv, CopiedIsInPlace
<1>5. CASE \A q \in Records : job.listed[q] < source[r]
  <2>1. LastListed = 0 \/ \E q \in Records : LastListed = job.listed[q]
    BY LastListedIsListed DEF Typed
  <2> QED
    BY <1>1, <1>5, <2>1
<1>6. CASE Paged
  BY <1>1, <1>3, <1>4, <1>6 DEF Passed
<1> QED
  BY <1>3, <1>4, <1>5, <1>6 DEF DataInv, ListingIsComplete

LEMMA FinishKeepsData == ASSUME Typed, MarkInHand, DataInv, FinishCopy PROVE DataInv'
<1>1. job.stage = "copy" /\ job.left = {} /\ UNCHANGED <<source, sync, dest, deleted>>
  BY DEF FinishCopy, world, table
<1>2. astray' = (IF DiffAndDelete THEN astray ELSE astray \cup Passed)
  BY DEF FinishCopy, Return
<1>3. NothingMissed'
  BY <1>1, <1>2, SameMarkMissesNothing, DataTypes DEF DataInv, table
<1>4. CASE DiffAndDelete
  <2>1. job' = [job EXCEPT !.stage = "delete"] /\ job.since = 0 /\ UNCHANGED <<pc, newest, seen, strategy>>
    BY <1>4 DEF FinishCopy, DiffAndDelete
  <2>2. /\ job'.stage = "delete" /\ job'.since = job.since
        /\ job'.left = job.left /\ job'.listed = job.listed
    BY <2>1, DataTypes DEF Job
  <2>3. JobOfTheRun' /\ ListingIsComplete' /\ LeftIsNews' /\ CopiedIsInPlace'
    BY <1>1, <1>2, <1>4, <2>1, <2>2
      DEF DataInv, JobOfTheRun, Since, ListingIsComplete, LeftIsNews, CopiedIsInPlace, InPlace, UpToDate
  <2>4. ReturnedIsInPlace'
    BY <1>1, <1>2, <1>4, <2>1 DEF DataInv, ReturnedIsInPlace, InPlace, UpToDate
  <2> QED
    BY <1>3, <2>3, <2>4 DEF DataInv
<1>5. CASE ~DiffAndDelete
  <2>1. newest' = LastListed /\ job'.stage = "off"
    BY <1>5, Empty DEF FinishCopy, Return
  <2>2. ReturnedIsInPlace'
    BY <1>1, <1>2, <1>5, <2>1, ReturnIsInPlace DEF ReturnedIsInPlace, InPlace, UpToDate
  <2> QED
    BY <1>3, <2>1, <2>2
      DEF DataInv, JobOfTheRun, ListingIsComplete, LeftIsNews, CopiedIsInPlace
<1> QED
  BY <1>4, <1>5

(* What is marked as deleted was not in a complete listing: if it is back, it is newer, or *)
(* no page showed it.                                                                       *)
LEMMA MarkKeepsData == ASSUME Typed, MarkInHand, DataInv, MarkMissing PROVE DataInv'
<1>1. /\ job.stage = "delete" /\ job.since = 0 /\ job.left = {} /\ pc = "transfer"
      /\ UNCHANGED <<source, sync, dest>> /\ astray' = astray \cup Passed
      /\ deleted' = deleted \cup {r \in Records \ Listed : dest[r] # 0}
      /\ newest' = LastListed /\ job'.stage = "off"
  BY JobNow, Empty DEF MarkMissing, Return, DataInv, JobOfTheRun, world
<1>2. sync.mark = 0
  BY <1>1 DEF MarkInHand, DataInv, JobOfTheRun
<1>3. \A r \in Records : source[r] \in Nat /\ job.listed[r] \in Nat
  BY DataTypes
<1>4. NothingMissed'
  BY <1>1, <1>2, <1>3 DEF NothingMissed
<1>5. \A r \in Listed : InPlace(r) => InPlace(r)'
  BY <1>1 DEF InPlace, UpToDate
<1>6. ASSUME NEW r \in Records \ Listed, source[r] # 0, r \notin Passed PROVE ~(source[r] <= LastListed)
  <2>1. job.listed[r] = 0
    BY <1>6 DEF Listed
  <2>2. CASE Paged
    BY <1>1, <1>3, <1>6, <2>1, <2>2 DEF Passed
  <2>3. CASE ~Paged
    <3>1. \A q \in Records : job.listed[q] < source[r]
      BY <1>1, <1>3, <1>6, <2>1, <2>3 DEF DataInv, ListingIsComplete
    <3>2. LastListed = 0 \/ \E q \in Records : LastListed = job.listed[q]
      BY LastListedIsListed DEF Typed
    <3> QED
      BY <1>3, <1>6, <3>1, <3>2
  <2> QED
    BY <2>2, <2>3
<1>7. \A r \in Passed : InPlace(r)'
  BY <1>1 DEF InPlace
<1>8. ReturnedIsInPlace'
  BY <1>1, <1>5, <1>6, <1>7, ReturnIsInPlace DEF ReturnedIsInPlace, Listed
<1> QED
  BY <1>1, <1>4, <1>8 DEF DataInv, JobOfTheRun, ListingIsComplete, LeftIsNews, CopiedIsInPlace

(* The steps of a run around its job. *)
LEMMA PhaseKeepsData ==
  ASSUME Typed, MarkInHand, DataInv, NEW ok \in BOOLEAN, BeginPhase(ok) \/ EndPhase(ok) \/ ClearArgs(ok)
  PROVE  DataInv'
<1>1. /\ pc \in {"begin", "end", "clear"} /\ pc' \in {"transfer", "clear", "success", "caught"}
      /\ UNCHANGED <<source, job, dest, deleted, astray>>
  BY DEF BeginPhase, EndPhase, ClearArgs, Outcome, world, table
<1>2. job'.stage = "off"
  BY <1>1, JobNow DEF JobIsOf, Job
<1>3. NothingMissed'
  <2>1. CASE BeginPhase(ok)
    <3>1. sync'.mark \in {0, seen.mark} /\ seen.mark = sync.mark
      BY <2>1, MarkTyped DEF BeginPhase, Row, MarkInHand
    <3> QED
      BY <1>1, <3>1, SameMarkMissesNothing, DataTypes DEF DataInv, table
  <2>2. CASE EndPhase(ok)
    <3>1. sync'.mark = NewMark
      BY <2>2, MarkTyped DEF EndPhase, Row
    <3>2. NewMark \in {0, newest} \/ (strategy = "incremental" /\ NewMark \in {newest, seen.mark})
      BY DEF NewMark, Newer
    <3>3. strategy = "incremental" => seen.mark = sync.mark
      BY <2>2 DEF EndPhase, MarkInHand, Since
    <3>4. \A r \in Records : source[r] # 0 /\ source[r] <= newest => InPlace(r)
      BY <2>2 DEF EndPhase, DataInv, ReturnedIsInPlace
    <3>5. \A r \in Records : source[r] # 0 /\ source[r] <= sync'.mark => InPlace(r)
      BY <3>1, <3>2, <3>3, <3>4, DataTypes DEF DataInv, NothingMissed, InPlace
    <3> QED
      BY <1>1, <3>5 DEF NothingMissed, InPlace, UpToDate
  <2>3. CASE ClearArgs(ok)
    <3>1. sync'.mark = sync.mark
      BY <2>3, MarkTyped DEF ClearArgs, Row
    <3> QED
      BY <1>1, <3>1, SameMarkMissesNothing, DataTypes DEF DataInv, table
  <2> QED
    BY <2>1, <2>2, <2>3
<1> QED
  BY <1>1, <1>2, <1>3, NoJobNoClaim

LEMMA NextData ==
  Typed /\ MarkInHand /\ DataInv /\ [Next]_vars => DataInv'
<1> SUFFICES ASSUME Typed, MarkInHand, DataInv, [Next]_vars PROVE DataInv'
  OBVIOUS
<1>1. ASSUME NEW r \in Records, Change(r) \/ SendWrite(r) PROVE DataInv'
  BY <1>1, TouchKeepsData DEF Change, SendWrite
<1>2. ASSUME NEW r \in Records, ReadBack(r) \/ EndWrite(r) PROVE DataInv'
  BY <1>2, DataUntouched DEF ReadBack, EndWrite, world
<1>3. ASSUME NEW b \in BOOLEAN, RecordArgs(b) \/ SetPaused(b) \/ SetStrategy(b) PROVE DataInv'
  <2>1. sync'.mark = sync.mark
    BY <1>3, MarkTyped DEF RecordArgs, SetPaused, SetStrategy, Row
  <2> QED
    BY <1>3, <2>1, DataUntouched DEF RecordArgs, SetPaused, SetStrategy, world
<1>4. CASE \/ Trigger \/ StartRun \/ GetSync \/ ChooseStrategy \/ LogSuccess \/ ActivityFails
           \/ \E pausing \in BOOLEAN : CatchFailure(pausing)
  <2>1. UNCHANGED <<source, job, table, astray, sync>>
    BY <1>4 DEF Trigger, StartRun, GetSync, ChooseStrategy, LogSuccess, ActivityFails, CatchFailure, world
  <2>2. NothingMissed'
    BY <2>1, SameMarkMissesNothing, DataTypes DEF DataInv
  <2>3. CASE Trigger /\ pc # "idle"
    BY <2>1, <2>3, DataUntouched DEF Trigger, run
  <2>4. CASE ~(Trigger /\ pc # "idle")
    <3>1. pc # "transfer" /\ pc' # "end"
      BY <1>4, <2>4
        DEF Trigger, StartRun, GetSync, ChooseStrategy, LogSuccess, ActivityFails, CatchFailure, EndRun
    <3>2. job'.stage = "off"
      BY <2>1, <3>1, JobNow
    <3> QED
      BY <2>2, <3>1, <3>2, NoJobNoClaim
  <2> QED
    BY <2>3, <2>4
<1>5. CASE JobFails
  <2>1. pc = "transfer" /\ pc' \in {"transfer", "caught"} /\ job'.stage = "off"
    BY <1>5, JobNow, Empty DEF JobFails, NoJob
  <2>2. NothingMissed'
    BY <1>5, SameMarkMissesNothing, DataTypes DEF JobFails, DataInv, world
  <2> QED
    BY <2>1, <2>2, NoJobNoClaim
<1>6. CASE RunStep
  BY <1>4, <1>6, StartKeepsData, ListAllKeepsData, ListPageKeepsData, EndOfPagesKeepsData, CopyKeepsData,
     FinishKeepsData, MarkKeepsData, PhaseKeepsData DEF RunStep
<1>7. CASE UNCHANGED vars
  BY <1>7, DataUntouched DEF vars, world
<1> QED
  BY <1>1, <1>2, <1>3, <1>4, <1>5, <1>6, <1>7, RemoveKeepsData, WriteBackKeepsData, PhaseKeepsData
    DEF Next, ProviderNext, ClientNext, WriteStep, Failure

LEMMA InitData == Init => DataInv
<1> SUFFICES ASSUME Init PROVE DataInv
  OBVIOUS
<1>1. job.stage = "off" /\ pc = "idle" /\ source = Nothing
  BY Empty DEF Init
<1> QED
  BY <1>1, Empty
    DEF DataInv, JobOfTheRun, ListingIsComplete, LeftIsNews, CopiedIsInPlace, ReturnedIsInPlace,
        NothingMissed

(* No change is skipped: whatever the provider had changed up to the mark is in the            *)
(* destination, through failures, repeated attempts, full and incremental runs, unless a late   *)
(* write-back has put an older version over it, or it was changed while the pages of a listing  *)
(* were read and its last change is on none of them. One query passes nothing.                  *)
THEOREM NothingIsMissed == Spec => []NothingMissed
<1>1. DataInv => NothingMissed
  BY DEF DataInv
<1> QED
  BY <1>1, InitTyped, NextTyped, InitInHand, NextMarkInHand, InitData, NextData, PTL DEF Spec

=============================================================================
