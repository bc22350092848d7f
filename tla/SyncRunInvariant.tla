---------------------------- MODULE SyncRunInvariant ----------------------------
(* What makes the properties of SyncRun inductive: what an open run has in hand, and how *)
(* far its data activity has come.                                                       *)
EXTENDS SyncRun

-----------------------------------------------------------------------------
(* The run *)

(* Nothing is younger than the clock, and what is removed stays away. *)
NothingIsFuture ==
  /\ \A r \in Records : source[r] <= clock /\ job.listed[r] <= clock
  /\ seen.mark <= clock
  /\ \A r \in removed : source[r] = 0

(* Only the run moves the mark, so the one it has read is the row's until it has begun, *)
(* and from then on the row has where the listing starts.                               *)
MarkInHand ==
  /\ pc \in {"strategy", "begin"} => seen.mark = sync.mark
  /\ pc \in {"transfer", "end"} => sync.mark = Since

(* An incremental run was not due to be full, and no run ends while it is open. *)
Deciding == {"begin", "transfer", "end", "clear", "success"}
NotDue == pc \in Deciding /\ strategy = "incremental" => ~LastNAreIncremental

(* A refresh that counts as early was seen by the run, which is full then, and is served *)
(* by the time that the run clears it.                                                    *)
RefreshInHand ==
  /\ wanted = "early" => sync.refresh
  /\ wanted = "early" /\ pc = "strategy" => seen.refresh
  /\ wanted = "early" /\ pc \in {"begin", "transfer", "end"} => strategy = "full"
  /\ pc = "clear" => wanted # "early"

RunInv == TypeOK /\ NothingIsFuture /\ MarkInHand /\ NotDue /\ RefreshInHand

-----------------------------------------------------------------------------
(* The data *)

(* A job lists from where its run starts, a complete listing before it deletes. *)
JobOfTheRun ==
  /\ job.stage # "off" => job.since = Since
  /\ job.stage = "delete" => job.since = 0 /\ job.left = {}

(* Of one query: a record is in the listing as it is, or has not changed since the mark, or *)
(* has changed after everything that is listed. Pages promise no such thing: see Passed.     *)
ListingIsComplete ==
  ~Paged /\ job.stage \in {"copy", "delete"} => \A r \in Records : source[r] # 0 =>
    \/ source[r] <= job.since
    \/ source[r] = job.listed[r]
    \/ \A q \in Records : job.listed[q] < source[r]

(* What is left to copy has changed since the mark, and is no newer than at the provider. *)
LeftIsNews ==
  job.stage # "off" => \A r \in job.left :
    job.listed[r] > job.since /\ (source[r] = 0 \/ source[r] >= job.listed[r])

InPlace(r) == UpToDate(r) \/ r \in astray

(* What was listed is left to copy or in place, unless it has changed again. *)
CopiedIsInPlace ==
  job.stage # "off" => \A r \in Records \ job.left :
    source[r] # 0 /\ source[r] = job.listed[r] => InPlace(r)

(* So are, once the job is done, all records up to the mark that it returned. *)
ReturnedIsInPlace ==
  pc = "end" => \A r \in Records : source[r] # 0 /\ source[r] <= newest => InPlace(r)

DataInv ==
  /\ JobOfTheRun /\ ListingIsComplete /\ LeftIsNews
  /\ CopiedIsInPlace /\ ReturnedIsInPlace /\ NothingMissed

=============================================================================
