-------------------------- MODULE ProcessInvariant --------------------------
(***************************************************************************)
(* The inductive invariant behind the safety of ProcessSyncChanges when    *)
(* attempts do not overlap. It says, at every pc, which work the attempt   *)
(* still has in hand, so that the change rows it is about to delete are    *)
(* rows whose work is done.                                                *)
(***************************************************************************)
EXTENDS ProcessSyncChanges

(* A uuid that has been handed out is never handed out again. *)
Issued(s) == s[3] < issued[s[1]][s[2]]
IdsAreIssued ==
  /\ \A s \in syncs \cup syncChanges : Issued(s)
  /\ \A c \in Connections : \A s \in listed[c] : Issued(s)
  /\ \A k \in SyncConfigs : \A s \in dropListed[k] : Issued(s)

(* The foreign keys: a sync has its connection, and a change row is about a     *)
(* connection that is or was there.                                             *)
SyncsAreLive == \A s \in syncs : connection[s[1]] = "live"
ChangesAreKnown == \A c \in connChanges : connection[c] \in {"live", "gone"}

(* A change row about a config that is gone covers nothing: its syncs went too. *)
ByConfig(s, K) == \E k \in K \cap LiveConfigs : s[1] \in ConnectionsOf(k)

HasWork(s) ==
  \/ s \in syncChanges
  \/ s[1] \in connChanges
  \/ ByConfig(s, configChanges)
  \/ fullFlag
DriftIsCovered == \A s \in syncs : Agrees(s) \/ HasWork(s)

GlobalInv ==
  IdsAreIssued /\ SyncsAreLive /\ ChangesAreKnown /\ DriftIsCovered /\ OrphansOnlyUnannounced

-----------------------------------------------------------------------------
(* What holds of one attempt *)

Idle(w) ==
  /\ pc[w] = "idle" /\ full[w] = FALSE
  /\ connRows[w] = {} /\ configRows[w] = {} /\ syncRows[w] = {}
  /\ plan[w] = NoPlan /\ batch[w] = NoBatch

(* Where an attempt may hold what. *)
Loop == {"create", "insert", "remove"}
PlanPCs == {"loadConnections", "loadConfigs", "loadChangedConfigs"} \cup Loop
Loaded == {"pauseDoomed", "deleteDoomed", "upsert", "schedule"}
BatchPCs == {"loadSyncs"} \cup Loaded

InPart(w, n) == pc[w] \in PlanPCs /\ plan[w].part = n

LocalsMatchPC(w) ==
  /\ pc[w] \notin PlanPCs => plan[w] = NoPlan
  /\ pc[w] \notin BatchPCs => batch[w] = NoBatch
  /\ pc[w] \in {"loadConnections", "loadConfigs"} => plan[w].part = 1
  /\ plan[w].part = 1 => plan[w].configTodo = {}
  /\ pc[w] = "loadChangedConfigs" => plan[w].part = 2 /\ plan[w].connTodo = {} /\ plan[w].known = {}
  /\ connRows[w] # {} => InPart(w, 1)
  /\ configRows[w] # {} => InPart(w, 2)
  /\ syncRows[w] # {} => pc[w] \in BatchPCs
  /\ pc[w] = "resetFull" => full[w]
  /\ pc[w] = "idle" => ~full[w]
  /\ full[w] => fullFlag

(* Rows that were read are still there: nobody else deletes them. *)
RowsAreThere(w) ==
  /\ connRows[w] \subseteq connChanges
  /\ configRows[w] \subseteq configChanges
  /\ syncRows[w] \subseteq syncChanges

(* Unless the run is full, what is left to do is named by a row that is there. *)
WorkHasRows(w) ==
  ~full[w] =>
    /\ InPart(w, 1) => plan[w].connTodo \subseteq connChanges
    /\ InPart(w, 2) =>
         /\ plan[w].configTodo \subseteq configChanges
         /\ pc[w] \in Loop => plan[w].known \subseteq configChanges
         /\ \A c \in plan[w].connTodo : \E k \in plan[w].known : c \in ConnectionsOf(k)

(* What the attempt has in hand: connections, the one between its createMany and *)
(* its INSERT, and configs.                                                      *)
InHand(w, s) ==
  \/ s[1] \in plan[w].connTodo
  \/ pc[w] = "insert" /\ s[1] \in plan[w].cur
  \/ ByConfig(s, plan[w].configTodo)

(* If the attempt deleted the rows it has read now, every sync would agree with its *)
(* schedule, be named by a row that is left, or be in the attempt's hands. A full   *)
(* run has all there is in hand once it has loaded the connections.                 *)
Remembered(w, s) ==
  \/ Agrees(s)
  \/ s \in syncChanges
  \/ s[1] \in connChanges \ connRows[w]
  \/ ByConfig(s, configChanges \ configRows[w])
  \/ InHand(w, s)
  \/ fullFlag /\ (full[w] => pc[w] \in {"readConnChanges", "loadConnections"})
NothingForgotten(w) == pc[w] # "idle" => \A s \in syncs : Remembered(w, s)

(* Between the INSERT and the deletion every sync of the connection has a SyncChange. *)
RemovalIsAnnounced(w) ==
  pc[w] = "remove" => \A s \in syncs : s[1] \in plan[w].cur => s \in syncChanges

(* Part 3 works on a copy: it is current, or a row the attempt has not read says so. *)
Unread(w, s) == s \in syncChanges \ syncRows[w]
CopyIsCurrent(w) ==
  pc[w] \in Loaded =>
    /\ \A s \in syncs \cap batch[w].todo :
         (s \in paused <=> s \in batch[w].wantPaused) \/ Unread(w, s)
    /\ \A s \in syncs \cap syncRows[w] : s \in batch[w].todo \/ Agrees(s)
    /\ \A s \in syncRows[w] \cap schedules :
         s \in syncs \/ s \in unannounced \/ s \in batch[w].doomed

(* The uuids part 3 holds are issued, so that none of them can name a later sync. *)
BatchMatchesPC(w) ==
  /\ \A s \in batch[w].todo \cup batch[w].doomed : Issued(s)
  /\ batch[w].doomed \cap syncs = {}
  /\ pc[w] = "loadSyncs" => syncRows[w] \subseteq batch[w].todo
  /\ pc[w] \in {"upsert", "schedule"} => batch[w].doomed = {}
  /\ pc[w] = "schedule" =>
       /\ \E s \in batch[w].todo : batch[w].cur = {s}
       /\ \A s \in batch[w].cur : s \in syncs \/ s \in unannounced \/ Unread(w, s)

AttemptInv(w) ==
  /\ LocalsMatchPC(w) /\ RowsAreThere(w) /\ WorkHasRows(w) /\ NothingForgotten(w)
  /\ RemovalIsAnnounced(w) /\ CopyIsCurrent(w) /\ BatchMatchesPC(w)

-----------------------------------------------------------------------------
Alone == \A v, w \in Attempts : v # w => At(v, "idle") \/ At(w, "idle")

(* The inductive invariant: types, at most one attempt under way, and the two parts. *)
IndInv == TypeOK /\ Alone /\ GlobalInv /\ \A w \in Attempts : AttemptInv(w)

=============================================================================
