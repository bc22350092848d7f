-------------------------------- MODULE SyncRun --------------------------------
(***************************************************************************)
(* One sync at work: the workflow runObjectSync, its activities, the data  *)
(* they move from a provider into the destination, and the clients that    *)
(* meanwhile write records through the unified API, trigger runs, pause    *)
(* and resume.                                                             *)
(*                                                                         *)
(* A record is a number, and its version the time of its last change, 0    *)
(* when it is not there.  Runs of one sync never overlap: its schedule     *)
(* skips a start while one is open.  Field values, mappings, associations, *)
(* webhooks and counts of records are left out.                            *)
(***************************************************************************)
EXTENDS Naturals, Sequences, FiniteSets

CONSTANTS
  Records,        \* ids of the records the provider can have, in listing order
  EveryN,         \* fullSyncEveryNIncrementals, 0 when it is not set
  Deletes,        \* FALSE for apollo, whose full listings say nothing of deletions
  Paged,          \* TRUE: each page of a listing is read later than the one before
  Ops,            \* what the environment of this instance does
  MaxClock,       \* bound on the changes of records at the provider
  MaxRequests,    \* bound on triggers, pauses and changes of strategy
  MaxFailures,    \* bound on failures of activities
  MaxAttempts     \* maximumAttempts of the activity that moves the data

AllOps == {"remove", "write", "trigger", "pause", "strategy"}

ASSUME RunConstants ==
  /\ Records \subseteq Nat \ {0} /\ IsFiniteSet(Records)
  /\ EveryN \in Nat /\ MaxClock \in Nat /\ MaxRequests \in Nat /\ MaxFailures \in Nat
  /\ MaxAttempts \in Nat \ {0}
  /\ Deletes \in BOOLEAN /\ Paged \in BOOLEAN /\ Ops \subseteq AllOps

Strategies == {"full", "incremental"}
Row == [phase : {"created"} \cup Strategies, status : {"none", "in progress", "done"},
        mark : Nat, fullOnly : BOOLEAN, refresh : BOOLEAN]
NewRow == [phase |-> "created", status |-> "none", mark |-> 0,
           fullOnly |-> FALSE, refresh |-> FALSE]

Versions == [Records -> Nat]
Nothing == [r \in Records |-> 0]

Job == [stage : {"off", "list", "copy", "delete"}, since : Nat, listed : Versions,
        at : Nat, left : SUBSET Records, attempt : Nat]
NoJob == [stage |-> "off", since |-> 0, listed |-> Nothing, at |-> 0, left |-> {}, attempt |-> 0]

VARIABLES
  source,     \* Records -> version of the record at the provider
  removed,    \* records deleted at the provider; their ids do not come back
  clock,      \* the time of the last change at the provider
  sync,       \* the row of the sync; a mark that is undefined or null counts as 0
  paused,     \* its column paused
  recent,     \* strategies of its newest SyncRun rows with status SUCCESS, oldest first
  pc,         \* the activity the open run is at, or "idle"
  seen,       \* the row getSync returned to the open run
  strategy,   \* what getSyncStrategy returned to it
  newest,     \* the maxLastModifiedAt its data activity returned
  job,        \* the attempt of the data activity
  dest,       \* Records -> version in the row of the destination, 0 when there is none
  deleted,    \* records whose row is marked as deleted
  write,      \* Records -> stage of a unified API write, and the version it has read back
  triggering, \* a trigger has recorded its arguments and not yet reached Temporal
  astray,     \* history: records a late write-back has left older than the provider's,
              \* and those the mark has passed because no page showed their last change
  wanted,     \* history: a full refresh asked for "early", before a run read the row, or "late"
  requests, failures

world == <<source, removed, clock>>
run == <<pc, seen, strategy, newest>>
table == <<dest, deleted>>
clients == <<write, triggering>>
bounds == <<requests, failures>>
vars == <<world, sync, paused, recent, run, job, table, clients, astray, wanted, bounds>>

PCs == {"idle", "getSync", "strategy", "begin", "transfer", "end", "clear", "success", "caught"}
Write == [stage : {"none", "sent", "read"}, version : Nat]
NoWrite == [stage |-> "none", version |-> 0]

Newer(a, b) == IF a >= b THEN a ELSE b

Init ==
  /\ source = Nothing /\ removed = {} /\ clock = 0
  /\ sync \in {NewRow, [NewRow EXCEPT !.fullOnly = TRUE]}
  /\ paused = FALSE /\ recent = <<>>
  /\ pc = "idle" /\ seen = NewRow /\ strategy = "full" /\ newest = 0
  /\ job = NoJob
  /\ dest = Nothing /\ deleted = {}
  /\ write = [r \in Records |-> NoWrite] /\ triggering = FALSE
  /\ astray = {} /\ wanted = "none"
  /\ requests = 0 /\ failures = 0

-----------------------------------------------------------------------------
(* The provider. Two changes never carry the same time. *)

Touch(r) ==
  /\ clock < MaxClock /\ r \notin removed
  /\ clock' = clock + 1
  /\ source' = [source EXCEPT ![r] = clock + 1]
  /\ UNCHANGED removed

Change(r) ==
  /\ Touch(r)
  /\ UNCHANGED <<sync, paused, recent, run, job, table, clients, astray, wanted, bounds>>

Remove(r) ==
  /\ "remove" \in Ops /\ source[r] # 0
  /\ source' = [source EXCEPT ![r] = 0]
  /\ removed' = removed \cup {r}
  /\ UNCHANGED <<clock, sync, paused, recent, run, job, table, clients, astray, wanted, bounds>>

-----------------------------------------------------------------------------
(* Clients *)

(* A unified API write changes the record at the provider ... *)
SendWrite(r) ==
  /\ "write" \in Ops /\ write[r] = NoWrite
  /\ Touch(r)
  /\ write' = [write EXCEPT ![r].stage = "sent"]
  /\ UNCHANGED <<sync, paused, recent, run, job, table, triggering, astray, wanted, bounds>>

(* ... reads it back, unless the sync is paused ... *)
ReadBack(r) ==
  /\ write[r].stage = "sent" /\ ~paused /\ source[r] # 0
  /\ write' = [write EXCEPT ![r] = [stage |-> "read", version |-> source[r]]]
  /\ UNCHANGED <<world, sync, paused, recent, run, job, table, triggering,
                 astray, wanted, bounds>>

(* ... and upserts what it has read into the destination, whatever the row holds. *)
WriteBack(r) ==
  LET v == write[r].version
  IN /\ write[r].stage = "read"
     /\ dest' = [dest EXCEPT ![r] = v]
     /\ deleted' = deleted \ {r}
     /\ write' = [write EXCEPT ![r] = NoWrite]
     /\ astray' = IF v = source[r] THEN astray \ {r} ELSE astray \cup {r}
     /\ UNCHANGED <<world, sync, paused, recent, run, job, triggering, wanted, bounds>>

(* A paused sync ends the request here, a failure with a CACHE_INVALIDATION_ERROR. *)
EndWrite(r) ==
  /\ \/ write[r].stage = "sent" /\ (paused \/ source[r] = 0) /\ UNCHANGED failures
     \/ write[r].stage # "none" /\ failures < MaxFailures /\ failures' = failures + 1
  /\ write' = [write EXCEPT ![r] = NoWrite]
  /\ UNCHANGED <<world, sync, paused, recent, run, job, table, triggering, astray, wanted,
                 requests>>

Request(op) ==
  /\ op \in Ops /\ requests < MaxRequests
  /\ requests' = requests + 1
  /\ UNCHANGED failures

(* triggerSync records what the next run should do ... *)
RecordArgs(force) ==
  /\ Request("trigger")
  /\ ~triggering
  /\ sync' = [sync EXCEPT !.refresh = force]
  /\ triggering' = TRUE
  /\ wanted' = IF ~force THEN "none" ELSE IF pc \in {"idle", "getSync"} THEN "early" ELSE "late"
  /\ UNCHANGED <<world, paused, recent, run, job, table, write, astray>>

(* ... and triggers the schedule, which skips the start if a run is open. *)
Trigger ==
  /\ triggering
  /\ triggering' = FALSE
  /\ pc' = IF pc = "idle" THEN "getSync" ELSE pc
  /\ UNCHANGED <<world, sync, paused, recent, seen, strategy, newest, job, table, write,
                 astray, wanted, bounds>>

SetPaused(b) ==
  /\ Request("pause")
  /\ paused' = b
  /\ UNCHANGED <<world, sync, recent, run, job, table, clients, astray, wanted>>

(* processSyncChanges copies the strategy of the sync config into the row. *)
SetStrategy(fullOnly) ==
  /\ Request("strategy")
  /\ sync' = [sync EXCEPT !.fullOnly = fullOnly]
  /\ UNCHANGED <<world, paused, recent, run, job, table, clients, astray, wanted>>

-----------------------------------------------------------------------------
(* The workflow. Each activity is retried; ok = FALSE says that it took effect *)
(* and its run still sees it fail.                                             *)

Outcome(ok, next) ==
  /\ ok \/ failures < MaxFailures
  /\ pc' = IF ok THEN next ELSE "caught"
  /\ failures' = IF ok THEN failures ELSE failures + 1
  /\ UNCHANGED requests

(* The locals of a run go with it. *)
EndRun ==
  /\ pc' = "idle"
  /\ seen' = NewRow /\ strategy' = "full" /\ newest' = 0

(* The schedule starts a run. Its own pause follows the row with a delay. *)
StartRun ==
  /\ pc = "idle"
  /\ pc' = "getSync"
  /\ UNCHANGED <<world, sync, paused, recent, seen, strategy, newest, job, table, clients,
                 astray, wanted, bounds>>

GetSync ==
  /\ pc = "getSync"
  /\ pc' = "strategy"
  /\ seen' = sync
  /\ wanted' = IF wanted = "late" /\ sync.refresh THEN "early" ELSE wanted
  /\ UNCHANGED <<world, sync, paused, recent, strategy, newest, job, table, clients,
                 astray, bounds>>

(* Wrong: one run too late. *)
LastNAndOneAreIncremental ==
  /\ EveryN # 0
  /\ Len(recent) > EveryN
  /\ \A i \in 1..EveryN + 1 : recent[Len(recent) + 1 - i] = "incremental"

(* Wrong: never. *)
NeverAgain == FALSE

(* shouldDoFullSyncAfterNIncrementals: the newest N successful runs are incremental. *)
LastNAreIncremental ==
  /\ EveryN # 0
  /\ Len(recent) >= EveryN
  /\ \A i \in 1..EveryN : recent[Len(recent) + 1 - i] = "incremental"

Due ==
  \/ seen.fullOnly
  \/ seen.refresh
  \/ seen.phase = "created"
  \/ seen.phase = "full" /\ seen.status = "in progress"
  \/ LastNAreIncremental

(* getSyncStrategy, and logSyncStart, whose row counts once it is a SUCCESS. *)
ChooseStrategy ==
  /\ pc = "strategy"
  /\ pc' = "begin"
  /\ strategy' = IF Due THEN "full" ELSE "incremental"
  /\ UNCHANGED <<world, sync, paused, recent, seen, newest, job, table, clients,
                 astray, wanted, bounds>>

(* Wrong: the arguments are cleared as soon as they have been read. *)
BeginPhaseAndClear(ok) ==
  /\ pc = "begin"
  /\ Outcome(ok, "transfer")
  /\ sync' = [sync EXCEPT !.phase = strategy, !.status = "in progress", !.refresh = FALSE,
                          !.mark = IF strategy = "full" THEN 0 ELSE seen.mark]
  /\ UNCHANGED <<world, paused, recent, seen, strategy, newest, job, table, clients,
                 astray, wanted>>

(* The first updateSyncState: a full run forgets the mark, an incremental one keeps it. *)
BeginPhase(ok) ==
  /\ pc = "begin"
  /\ Outcome(ok, "transfer")
  /\ sync' = [sync EXCEPT !.phase = strategy, !.status = "in progress",
                          !.mark = IF strategy = "full" THEN 0 ELSE seen.mark]
  /\ UNCHANGED <<world, paused, recent, seen, strategy, newest, job, table, clients,
                 astray, wanted>>

(* Wrong: an incremental run that lists nothing forgets where it was. *)
NewMarkAsReturned ==
  IF strategy = "full" /\ seen.fullOnly THEN 0 ELSE newest

(* Wrong: the time at which the run ends. *)
NewMarkNow ==
  IF strategy = "full" /\ seen.fullOnly THEN 0 ELSE clock

NewMark ==
  IF strategy = "incremental" THEN Newer(newest, seen.mark)
  ELSE IF seen.fullOnly THEN 0 ELSE newest

(* The second updateSyncState, once the data is in. *)
EndPhase(ok) ==
  /\ pc = "end"
  /\ Outcome(ok, "clear")
  /\ sync' = [sync EXCEPT !.phase = strategy, !.status = "done", !.mark = NewMark]
  /\ wanted' = IF strategy = "full" /\ wanted = "early" THEN "none" ELSE wanted
  /\ UNCHANGED <<world, paused, recent, seen, strategy, newest, job, table, clients, astray>>

(* clearSyncArgsForNextRun, whatever the row says by now. *)
ClearArgs(ok) ==
  /\ pc = "clear"
  /\ Outcome(ok, "success")
  /\ sync' = [sync EXCEPT !.refresh = FALSE]
  /\ UNCHANGED <<world, paused, recent, seen, strategy, newest, job, table, clients,
                 astray, wanted>>

(* logSyncFinish with SUCCESS. Rows that no later query can reach are dropped. *)
LogSuccess ==
  /\ pc = "success"
  /\ EndRun
  /\ recent' = LET all == Append(recent, strategy)
               IN IF Len(all) > EveryN + 1 THEN Tail(all) ELSE all
  /\ UNCHANGED <<world, sync, paused, job, table, clients, astray, wanted, bounds>>

(* The catch block: some errors pause the sync, then the run is logged as a FAILURE. *)
CatchFailure(pausing) ==
  /\ pc = "caught"
  /\ EndRun
  /\ paused' = (paused \/ pausing)
  /\ UNCHANGED <<world, sync, recent, job, table, clients, astray, wanted, bounds>>

(* An activity fails for good without effect: inside the try block the run catches it, *)
(* elsewhere the workflow ends there and its SyncRun row, if any, stays IN_PROGRESS.    *)
ActivityFails ==
  /\ pc \notin {"idle", "transfer"} /\ failures < MaxFailures
  /\ failures' = failures + 1
  /\ IF pc \in {"begin", "end", "clear"}
     THEN pc' = "caught" /\ UNCHANGED <<seen, strategy, newest>>
     ELSE EndRun
  /\ UNCHANGED <<world, sync, paused, recent, job, table, clients, astray, wanted, requests>>

-----------------------------------------------------------------------------
(* The data activity: list into a temporary table, copy, mark what is missing. *)

Since == IF strategy = "full" THEN 0 ELSE seen.mark

StartJob ==
  /\ pc = "transfer" /\ job.stage = "off"
  /\ job' = [NoJob EXCEPT !.stage = "list", !.since = Since, !.attempt = job.attempt + 1]
  /\ UNCHANGED <<world, sync, paused, recent, run, table, clients, astray, wanted, bounds>>

Current(since) == {r \in Records : source[r] > since}

(* One query whose result is fixed when it is submitted. *)
ListAll ==
  /\ job.stage = "list" /\ ~Paged
  /\ job' = [job EXCEPT !.stage = "copy", !.left = Current(job.since),
                        !.listed = [r \in Records |-> IF r \in Current(job.since)
                                                      THEN source[r] ELSE 0]]
  /\ UNCHANGED <<world, sync, paused, recent, run, table, clients, astray, wanted, bounds>>

(* The next page: by id for a full listing; for an incremental one by offset into the *)
(* records changed since the mark, sorted by time of change.                          *)
NextPage ==
  {r \in Current(job.since) :
     IF job.since = 0
     THEN r > job.at /\ \A q \in Current(0) : q > job.at => q >= r
     ELSE Cardinality({q \in Current(job.since) : source[q] < source[r]}) = job.at}

ListPage ==
  /\ job.stage = "list" /\ Paged
  /\ \E r \in NextPage :
       job' = [job EXCEPT !.listed[r] = source[r], !.left = @ \cup {r},
                          !.at = IF job.since = 0 THEN r ELSE @ + 1]
  /\ UNCHANGED <<world, sync, paused, recent, run, table, clients, astray, wanted, bounds>>

EndOfPages ==
  /\ job.stage = "list" /\ Paged
  /\ NextPage = {}
  /\ job' = [job EXCEPT !.stage = "copy"]
  /\ UNCHANGED <<world, sync, paused, recent, run, table, clients, astray, wanted, bounds>>

(* One INSERT ... ON CONFLICT DO UPDATE: the next batch of the temporary table, by id. *)
Copy(batch) ==
  /\ job.stage = "copy"
  /\ batch # {} /\ batch \subseteq job.left
  /\ \A r \in batch, q \in job.left \ batch : r < q
  /\ dest' = [r \in Records |-> IF r \in batch THEN job.listed[r] ELSE dest[r]]
  /\ deleted' = deleted \ batch
  /\ astray' = astray \ batch
  /\ job' = [job EXCEPT !.left = @ \ batch]
  /\ UNCHANGED <<world, sync, paused, recent, run, clients, wanted, bounds>>

(* Wrong: incremental listings taken for complete ones. *)
DiffAndDeleteAlways == Deletes

(* shouldDeleteRecords: no updatedAfterMs, or 0, means that the listing is complete. *)
DiffAndDelete == Deletes /\ job.since = 0

Listed == {r \in Records : job.listed[r] # 0}
LastListed == CHOOSE v \in {job.listed[r] : r \in Records} \cup {0} :
                \A r \in Records : v >= job.listed[r]

(* Records whose last change is on no page, though a later change is: they changed, or others *)
(* came and went before them, while the pages were read.                                      *)
Passed ==
  {r \in Records : /\ Paged
                   /\ job.since < source[r] /\ source[r] <= LastListed
                   /\ source[r] # job.listed[r]}

Return ==
  /\ newest' = LastListed
  /\ job' = NoJob
  /\ pc' = "end"
  /\ astray' = astray \cup Passed

FinishCopy ==
  /\ job.stage = "copy" /\ job.left = {}
  /\ IF DiffAndDelete
     THEN job' = [job EXCEPT !.stage = "delete"] /\ UNCHANGED <<pc, newest, astray>>
     ELSE Return
  /\ UNCHANGED <<world, sync, paused, recent, seen, strategy, table, clients, wanted, bounds>>

(* Wrong: marks records that never had a row. *)
MarkAllMissing ==
  /\ job.stage = "delete"
  /\ deleted' = deleted \cup (Records \ Listed)
  /\ Return
  /\ UNCHANGED <<world, sync, paused, recent, seen, strategy, dest, clients, wanted, bounds>>

(* UPDATE ... SET is_deleted = TRUE WHERE NOT EXISTS in the temporary table. *)
MarkMissing ==
  /\ job.stage = "delete"
  /\ deleted' = deleted \cup {r \in Records \ Listed : dest[r] # 0}
  /\ Return
  /\ UNCHANGED <<world, sync, paused, recent, seen, strategy, dest, clients, wanted, bounds>>

(* An attempt fails, or its worker goes away with the temporary table: Temporal starts *)
(* another from the beginning, unless it was the last or the error is not retryable.    *)
JobFails ==
  /\ job.stage # "off" /\ failures < MaxFailures
  /\ failures' = failures + 1
  /\ \/ /\ job.attempt < MaxAttempts
        /\ job' = [NoJob EXCEPT !.attempt = job.attempt]
        /\ UNCHANGED pc
     \/ job' = NoJob /\ pc' = "caught"
  /\ UNCHANGED <<world, sync, paused, recent, seen, strategy, newest, table, clients,
                 astray, wanted, requests>>

-----------------------------------------------------------------------------
ProviderNext == \E r \in Records : Change(r) \/ Remove(r)

WriteStep == \E r \in Records : ReadBack(r) \/ WriteBack(r) \/ EndWrite(r)

ClientNext ==
  \/ \E r \in Records : SendWrite(r)
  \/ WriteStep
  \/ \E b \in BOOLEAN : RecordArgs(b) \/ SetPaused(b) \/ SetStrategy(b)
  \/ Trigger

RunStep ==
  \/ GetSync \/ ChooseStrategy \/ BeginPhase(TRUE)
  \/ StartJob \/ ListAll \/ ListPage \/ EndOfPages
  \/ \E batch \in SUBSET Records : Copy(batch)
  \/ FinishCopy \/ MarkMissing
  \/ EndPhase(TRUE) \/ ClearArgs(TRUE) \/ LogSuccess
  \/ \E pausing \in BOOLEAN : CatchFailure(pausing)

Failure ==
  \/ BeginPhase(FALSE) \/ EndPhase(FALSE) \/ ClearArgs(FALSE)
  \/ ActivityFails \/ JobFails

Next == ProviderNext \/ ClientNext \/ StartRun \/ RunStep \/ Failure

Spec == Init /\ [][Next]_vars

(* A schedule that is not paused keeps starting runs, Temporal carries an open run to *)
(* its end, and a request that has begun ends.                                        *)
FairSpec ==
  Spec /\ WF_vars(~paused /\ StartRun) /\ WF_vars(RunStep)
       /\ \A r \in Records : WF_vars(ReadBack(r) \/ WriteBack(r) \/ EndWrite(r))

-----------------------------------------------------------------------------
(* Properties *)

(* Types, and the shape of the parts: a row has to exist to be marked as deleted, the *)
(* data activity runs inside its step of the workflow, and no mark is from the future. *)
TypeOK ==
  /\ source \in Versions /\ removed \subseteq Records /\ clock \in 0..MaxClock
  /\ sync \in Row /\ sync.mark <= clock /\ seen \in Row
  /\ paused \in BOOLEAN /\ recent \in Seq(Strategies) /\ Len(recent) <= EveryN + 1
  /\ pc \in PCs /\ strategy \in Strategies /\ newest \in 0..clock
  /\ job \in Job /\ (job.stage # "off" => pc = "transfer")
  /\ dest \in Versions /\ deleted \subseteq {r \in Records : dest[r] # 0}
  /\ write \in [Records -> Write] /\ triggering \in BOOLEAN
  /\ astray \subseteq Records /\ wanted \in {"none", "early", "late"}
  /\ requests \in 0..MaxRequests /\ failures \in 0..MaxFailures

UpToDate(r) == dest[r] = source[r] /\ r \notin deleted

(* No change is skipped: what the provider had changed up to the mark is in the       *)
(* destination, through failed and repeated attempts, forced full runs and changes of *)
(* strategy, unless a late write-back has put an older version over it or the change  *)
(* was made while pages were read and is on none of them.                             *)
NothingMissed ==
  \A r \in Records : source[r] # 0 /\ source[r] <= sync.mark => UpToDate(r) \/ r \in astray

(* Of any N + 1 successful runs in a row, one is full, whichever runs fail between.   *)
FullEveryN ==
  EveryN # 0 => ~ /\ Len(recent) = EveryN + 1
                  /\ \A i \in 1..Len(recent) : recent[i] = "incremental"

(* The high watermark falls only when a full run begins or ends.                      *)
MarkNeverFalls == [][sync'.mark < sync.mark => sync'.phase = "full"]_vars

(* A full refresh asked for before a run has read the row survives every failure until *)
(* a full run has brought the data in.                                                *)
EarlyRefreshKept == wanted = "early" => sync.refresh

(* With full runs at intervals, whatever was missed, passed, overwritten or deleted is *)
(* repaired: if the sync is not paused for good, the destination ends up equal to the  *)
(* provider.                                                                           *)
Mirrored == \A r \in Records :
  IF source[r] # 0 THEN UpToDate(r) ELSE dest[r] = 0 \/ r \in deleted
EventuallyMirrored == <>[]~paused => <>[]Mirrored

-----------------------------------------------------------------------------
(* What the repository's comments and documents say, and the code does not do. *)

(* "Data invalidation provides read-after-write semantics": a run never puts an older *)
(* version over the one that an acknowledged write has left in the destination.        *)
ReadAfterWrite == [][\A r \in Records : write'[r] = write[r] => dest'[r] >= dest[r]]_vars

=============================================================================
