------------------------ MODULE ProcessSafetyProofs ------------------------
(***************************************************************************)
(* The safety of ProcessSyncChanges when attempts do not overlap, for      *)
(* every value of its constants: IndInv is inductive, the invariants and   *)
(* the action property that the runs check follow from it, and so does the *)
(* refinement of ScheduleMirror.                                           *)
(***************************************************************************)
EXTENDS ProcessMirror, ProcessTypeProofs

-----------------------------------------------------------------------------
(* What every operation of the API guarantees *)

(* No attempt has read the SyncChange that names s. *)
Fresh(s) == s \in syncChanges /\ \A w \in Attempts : s \notin syncRows[w]

RowsGrow ==
  /\ connChanges \subseteq connChanges'
  /\ configChanges \subseteq configChanges'
  /\ syncChanges \subseteq syncChanges'
  /\ unannounced \subseteq unannounced'
  /\ fullFlag => fullFlag'
  /\ \A w \in Attempts : /\ connRows'[w] \subseteq connRows[w]
                         /\ configRows'[w] \subseteq configRows[w]
                         /\ syncRows'[w] \subseteq syncRows[w]

(* A sync that is added or changed, and one that goes, leaves a fresh SyncChange, *)
(* but for those a foreign key removes.                                           *)
SyncsAnnounced ==
  /\ \A s \in syncs' : (s \in syncs /\ (s \in paused' <=> s \in paused)) \/ Fresh(s)'
  /\ \A s \in syncs \ syncs' : s \in unannounced' \/ Fresh(s)'
  /\ \A s \in syncs' \ syncs : ~Issued(s)

ConfigsLeaveNoSyncs ==
  \A k \in LiveConfigs : k \in LiveConfigs' \/ \A s \in syncs' : s[1] \notin ConnectionsOf(k)

IssuedGrows == \A s \in SyncId : Issued(s) => Issued(s)'

ApiStep ==
  /\ UNCHANGED <<control, temporal>>
  /\ RowsGrow /\ SyncsAnnounced /\ ConfigsLeaveNoSyncs /\ IssuedGrows
  /\ IdsAreIssued' /\ SyncsAreLive' /\ ChangesAreKnown'

LEMMA ApiKeepsGlobal ==
  ASSUME TypeOK, TypeOK', GlobalInv, ApiStep
  PROVE  GlobalInv'
<1>1. DriftIsCovered'
  <2> SUFFICES ASSUME NEW s \in syncs' PROVE Agrees(s)' \/ HasWork(s)'
    BY DEF DriftIsCovered
  <2>1. CASE Fresh(s)'
    BY <2>1 DEF Fresh, HasWork
  <2>2. CASE s \in syncs /\ (s \in paused' <=> s \in paused)
    <3>1. CASE Agrees(s)
      BY <2>2, <3>1 DEF Agrees, ApiStep, temporal
    <3>2. CASE s \in syncChanges \/ s[1] \in connChanges \/ fullFlag
      BY <3>2 DEF HasWork, ApiStep, RowsGrow
    <3>3. CASE ByConfig(s, configChanges)
      BY <3>3 DEF HasWork, ByConfig, ApiStep, RowsGrow, ConfigsLeaveNoSyncs
    <3> QED
      BY <2>2, <3>1, <3>2, <3>3 DEF GlobalInv, DriftIsCovered, HasWork
  <2> QED
    BY <2>1, <2>2 DEF ApiStep, SyncsAnnounced
<1>2. OrphansOnlyUnannounced'
  BY DEF GlobalInv, OrphansOnlyUnannounced, ApiStep, temporal, RowsGrow, SyncsAnnounced, Fresh
<1> QED
  BY <1>1, <1>2 DEF GlobalInv, ApiStep

LEMMA ApiKeepsAttempt ==
  ASSUME TypeOK, TypeOK', GlobalInv, ApiStep, NEW w \in Attempts, AttemptInv(w)
  PROVE  AttemptInv(w)'
<1>0. UNCHANGED <<pc, full, plan, batch, schedules, schedPaused>>
  BY DEF ApiStep, control, temporal
<1>1. LocalsMatchPC(w)'
  BY <1>0 DEF AttemptInv, LocalsMatchPC, InPart, ApiStep, RowsGrow
<1>2. RowsAreThere(w)'
  BY DEF AttemptInv, RowsAreThere, ApiStep, RowsGrow
<1>3. WorkHasRows(w)'
  BY <1>0 DEF AttemptInv, WorkHasRows, InPart, ApiStep, RowsGrow
<1>4. NothingForgotten(w)'
  <2> SUFFICES ASSUME pc[w] # "idle", NEW s \in syncs' PROVE Remembered(w, s)'
    BY <1>0 DEF NothingForgotten
  <2>1. CASE Fresh(s)'
    BY <2>1 DEF Fresh, Remembered
  <2>2. CASE s \in syncs /\ (s \in paused' <=> s \in paused)
    <3>1. CASE Agrees(s)
      BY <1>0, <2>2, <3>1 DEF Remembered, Agrees
    <3>2. CASE s \in syncChanges \/ s[1] \in connChanges \ connRows[w]
      BY <3>2 DEF Remembered, ApiStep, RowsGrow
    <3>3. CASE ByConfig(s, configChanges \ configRows[w])
      BY <3>3 DEF Remembered, ByConfig, ApiStep, RowsGrow, ConfigsLeaveNoSyncs
    <3>4. CASE InHand(w, s)
      BY <1>0, <3>4 DEF Remembered, InHand, ByConfig, ApiStep, ConfigsLeaveNoSyncs
    <3>5. CASE fullFlag /\ (full[w] => pc[w] \in {"readConnChanges", "loadConnections"})
      BY <1>0, <3>5 DEF Remembered, ApiStep, RowsGrow
    <3> QED
      BY <2>2, <3>1, <3>2, <3>3, <3>4, <3>5 DEF AttemptInv, NothingForgotten, Remembered
  <2> QED
    BY <2>1, <2>2 DEF ApiStep, SyncsAnnounced
<1>5. RemovalIsAnnounced(w)'
  BY <1>0 DEF AttemptInv, RemovalIsAnnounced, ApiStep, RowsGrow, SyncsAnnounced, Fresh
<1>6. CopyIsCurrent(w)'
  <2> SUFFICES ASSUME pc[w] \in Loaded
               PROVE  (/\ \A s \in syncs \cap batch[w].todo :
                            (s \in paused <=> s \in batch[w].wantPaused) \/ Unread(w, s)
                       /\ \A s \in syncs \cap syncRows[w] : s \in batch[w].todo \/ Agrees(s)
                       /\ \A s \in syncRows[w] \cap schedules :
                            s \in syncs \/ s \in unannounced \/ s \in batch[w].doomed)'
    BY <1>0 DEF CopyIsCurrent
  <2>1. ASSUME NEW s \in syncs', s \in batch[w].todo
        PROVE  ((s \in paused <=> s \in batch[w].wantPaused) \/ Unread(w, s))'
    BY <1>0, <2>1 DEF AttemptInv, CopyIsCurrent, Unread, ApiStep, RowsGrow, SyncsAnnounced, Fresh
  <2>2. ASSUME NEW s \in syncs', s \in syncRows'[w]
        PROVE  s \in batch[w].todo \/ Agrees(s)'
    BY <1>0, <2>2 DEF AttemptInv, CopyIsCurrent, Agrees, ApiStep, RowsGrow, SyncsAnnounced, Fresh
  <2>3. ASSUME NEW s \in syncRows'[w], s \in schedules
        PROVE  s \in syncs' \/ s \in unannounced' \/ s \in batch[w].doomed
    BY <1>0, <2>3 DEF AttemptInv, CopyIsCurrent, ApiStep, RowsGrow, SyncsAnnounced, Fresh
  <2> QED
    BY <1>0, <2>1, <2>2, <2>3
<1>7. BatchMatchesPC(w)'
  <2>1. \A s \in batch[w].todo \cup batch[w].doomed : s \in SyncId /\ Issued(s) /\ Issued(s)'
    BY DEF AttemptInv, BatchMatchesPC, TypeOK, LocalsType, Batch, ApiStep, IssuedGrows
  <2>2. batch[w].doomed \cap syncs' = {}
    BY <2>1 DEF AttemptInv, BatchMatchesPC, ApiStep, SyncsAnnounced
  <2>3. pc[w] = "schedule" => \A s \in batch[w].cur : (s \in syncs \/ s \in unannounced \/ Unread(w, s))'
    BY DEF AttemptInv, BatchMatchesPC, Unread, ApiStep, RowsGrow, SyncsAnnounced, Fresh
  <2> QED
    BY <1>0, <2>1, <2>2, <2>3 DEF AttemptInv, BatchMatchesPC, ApiStep, RowsGrow
<1> QED
  BY <1>1, <1>2, <1>3, <1>4, <1>5, <1>6, <1>7 DEF AttemptInv

-----------------------------------------------------------------------------
(* Facts about the helpers of the actions *)

LEMMA IssueGives ==
  ASSUME TypeOK, NEW c \in Connections, NEW objs \in SUBSET Objects, issued' = Issue(c, objs)
  PROVE  /\ IssuedGrows
         /\ \A s \in {NewSync(c, o) : o \in objs} : s \in SyncId /\ ~Issued(s) /\ Issued(s)'
<1>1. issued \in [Connections -> [Objects -> Nat]]
  BY DEF TypeOK, SyncsType
<1>2. ASSUME NEW d \in Connections, NEW o \in Objects
      PROVE  /\ issued[d][o] \in Nat
             /\ issued'[d][o] = IF d = c /\ o \in objs THEN issued[d][o] + 1 ELSE issued[d][o]
  BY <1>1 DEF Issue
<1>3. IssuedGrows
  <2> SUFFICES ASSUME NEW s \in SyncId, Issued(s) PROVE Issued(s)'
    BY DEF IssuedGrows
  <2>1. s[1] \in Connections /\ s[2] \in Objects /\ s[3] \in Nat
    BY DEF SyncId
  <2> QED
    BY <1>2, <2>1 DEF Issued
<1>4. ASSUME NEW o \in objs
      PROVE  /\ NewSync(c, o) \in SyncId /\ ~Issued(NewSync(c, o))
             /\ \A s : s = NewSync(c, o) => Issued(s)'
  BY <1>2 DEF NewSync, SyncId, Issued
<1> QED
  BY <1>3, <1>4

LEMMA AddChangesGives ==
  ASSUME TypeOK, NEW C, NEW K, NEW S, AddChanges(C, K, S),
         fullFlag => fullFlag', unannounced \subseteq unannounced'
  PROVE  RowsGrow /\ \A s \in S : Fresh(s)'
  BY DEF AddChanges, RowsGrow, Fresh

LEMMA NothingAdded ==
  ASSUME TypeOK, UNCHANGED <<connChanges, configChanges, syncChanges, read>>,
         fullFlag => fullFlag', unannounced \subseteq unannounced'
  PROVE  RowsGrow
  BY DEF RowsGrow, read

LEMMA SameIds == ASSUME UNCHANGED issued PROVE IssuedGrows /\ \A s : Issued(s)' <=> Issued(s)
  BY DEF IssuedGrows, Issued

LEMMA SameConfigs == ASSUME UNCHANGED syncConfig PROVE ConfigsLeaveNoSyncs
  BY DEF ConfigsLeaveNoSyncs, LiveConfigs

LEMMA SyncParts == ASSUME TypeOK, NEW s \in syncs PROVE s \in SyncId /\ s[1] \in Connections
  BY DEF TypeOK, SyncsType, SyncId

(* An operation that touches neither syncs nor change rows. *)
LEMMA QuietStep ==
  ASSUME TypeOK, GlobalInv,
         UNCHANGED <<locals, temporal, syncs, paused, issued, connChanges, configChanges,
                     syncChanges, syncConfig, unannounced>>,
         fullFlag => fullFlag', IdsAreIssued', SyncsAreLive', ChangesAreKnown'
  PROVE  ApiStep
<1>1. RowsGrow
  BY NothingAdded DEF locals
<1>2. SyncsAnnounced
  BY DEF SyncsAnnounced
<1> QED
  BY <1>1, <1>2, SameIds, SameConfigs DEF ApiStep, locals

-----------------------------------------------------------------------------
(* Every operation of the API keeps to ApiStep. *)

LEMMA ConnectionReadsContract ==
  ASSUME TypeOK, GlobalInv, NEW c \in Connections,
         \/ BeginCreateConnection(c) \/ AbortCreateConnection(c)
         \/ BeginDeleteConnection(c) \/ AbortDeleteConnection(c)
  PROVE  ApiStep
<1>0. connection \in [Connections -> Life]
  BY DEF TypeOK, TablesType
<1>1. CASE BeginCreateConnection(c)
  <2>1. SyncsAreLive' /\ ChangesAreKnown'
    BY <1>0, <1>1, SyncParts DEF BeginCreateConnection, GlobalInv, SyncsAreLive,
                                 ChangesAreKnown, outbox, TypeOK, OutboxType
  <2>2. IdsAreIssued'
    BY <1>1 DEF BeginCreateConnection, GlobalInv, IdsAreIssued, Issued, outbox
  <2> QED
    BY <1>1, <2>1, <2>2, QuietStep DEF BeginCreateConnection, outbox, history
<1>2. CASE AbortCreateConnection(c)
  <2>1. SyncsAreLive' /\ ChangesAreKnown'
    BY <1>0, <1>2, SyncParts DEF AbortCreateConnection, GlobalInv, SyncsAreLive,
                                 ChangesAreKnown, outbox, TypeOK, OutboxType
  <2>2. IdsAreIssued'
    BY <1>2 DEF AbortCreateConnection, GlobalInv, IdsAreIssued, Issued, outbox
  <2> QED
    BY <1>2, <2>1, <2>2, QuietStep DEF AbortCreateConnection, outbox, history
<1>3. CASE BeginDeleteConnection(c)
  <2>1. SyncsAreLive' /\ ChangesAreKnown'
    BY <1>3 DEF BeginDeleteConnection, GlobalInv, SyncsAreLive, ChangesAreKnown, tables, outbox
  <2>2. IdsAreIssued'
    BY <1>3 DEF BeginDeleteConnection, GlobalInv, IdsAreIssued, Issued, SyncsOf, tables, outbox,
                TypeOK, RequestsType
  <2> QED
    BY <1>3, <2>1, <2>2, QuietStep DEF BeginDeleteConnection, tables, outbox, history
<1>4. CASE AbortDeleteConnection(c)
  <2>1. SyncsAreLive' /\ ChangesAreKnown'
    BY <1>4 DEF AbortDeleteConnection, GlobalInv, SyncsAreLive, ChangesAreKnown, tables, outbox
  <2>2. IdsAreIssued'
    BY <1>4 DEF AbortDeleteConnection, GlobalInv, IdsAreIssued, Issued, tables, outbox,
                TypeOK, RequestsType
  <2> QED
    BY <1>4, <2>1, <2>2, QuietStep DEF AbortDeleteConnection, tables, outbox, history
<1> QED
  BY <1>1, <1>2, <1>3, <1>4

LEMMA ConnectionWritesContract ==
  ASSUME TypeOK, GlobalInv, NEW c \in Connections,
         \/ \E autoStart \in BOOLEAN : CommitCreateConnection(c, autoStart)
         \/ CommitDeleteConnection(c)
  PROVE  ApiStep
<1>0. connection \in [Connections -> Life]
  BY DEF TypeOK, TablesType
<1>1. ASSUME NEW autoStart \in BOOLEAN, CommitCreateConnection(c, autoStart) PROVE ApiStep
  <2> DEFINE objs == birth[c].objects
             new == {NewSync(c, o) : o \in objs}
  <2>1. objs \in SUBSET Objects
    BY DEF TypeOK, RequestsType, Birth
  <2>2. IssuedGrows /\ \A s \in new : s \in SyncId /\ ~Issued(s) /\ Issued(s)' /\ s[1] = c
    BY <1>1, <2>1, IssueGives DEF CommitCreateConnection, NewSync
  <2>3. AddChanges({}, {}, new) /\ syncs' = syncs \cup new
        /\ paused' = (IF autoStart THEN paused ELSE paused \cup new)
        /\ UNCHANGED <<control, temporal, fullFlag, unannounced, syncConfig, listed, dropListed>>
    BY <1>1 DEF CommitCreateConnection
  <2>4. \A s \in syncs : s \notin new
    BY <2>2 DEF GlobalInv, IdsAreIssued
  <2>5. connection[c] = "creating" /\ connection' = [connection EXCEPT ![c] = "live"]
    BY <1>1 DEF CommitCreateConnection
  <2> HIDE DEF new
  <2>6. RowsGrow /\ \A s \in new : Fresh(s)'
    BY <2>3, AddChangesGives
  <2>7. SyncsAnnounced
    BY <2>2, <2>3, <2>4, <2>6 DEF SyncsAnnounced
  <2>8. IdsAreIssued'
    BY <2>2, <2>3 DEF GlobalInv, IdsAreIssued, IssuedGrows, AddChanges, TypeOK, SyncsType,
                      OutboxType, RequestsType
  <2>9. SyncsAreLive' /\ ChangesAreKnown'
    BY <1>0, <2>2, <2>3, <2>5, SyncParts DEF GlobalInv, SyncsAreLive, ChangesAreKnown,
                                             AddChanges, TypeOK, OutboxType
  <2> QED
    BY <2>2, <2>3, <2>6, <2>7, <2>8, <2>9, SameConfigs DEF ApiStep
<1>2. CASE CommitDeleteConnection(c)
  <2>1. AddChanges({}, {}, listed[c]) /\ DropSyncs(SyncsOf(c), listed[c])
        /\ UNCHANGED <<control, temporal, fullFlag, issued, syncConfig, dropListed>>
        /\ connection' = [connection EXCEPT ![c] = "gone"] /\ connection[c] = "live"
        /\ listed' = [listed EXCEPT ![c] = {}]
    BY <1>2 DEF CommitDeleteConnection
  <2>2. RowsGrow /\ \A s \in listed[c] : Fresh(s)'
    BY <2>1, AddChangesGives DEF DropSyncs
  <2>3. SyncsAnnounced
    BY <2>1, <2>2 DEF SyncsAnnounced, DropSyncs
  <2>4. IdsAreIssued'
    BY <2>1 DEF GlobalInv, IdsAreIssued, Issued, AddChanges, DropSyncs, TypeOK, RequestsType
  <2>5. SyncsAreLive' /\ ChangesAreKnown'
    BY <1>0, <2>1, SyncParts DEF GlobalInv, SyncsAreLive, ChangesAreKnown, SyncsOf, AddChanges,
                                 DropSyncs, TypeOK, OutboxType
  <2> QED
    BY <2>1, <2>2, <2>3, <2>4, <2>5, SameIds, SameConfigs DEF ApiStep
<1> QED
  BY <1>1, <1>2

LEMMA ClientContract ==
  ASSUME TypeOK, GlobalInv,
         \/ \E C \in SUBSET Connections : DeleteCustomer(C)
         \/ \E s \in syncs, pausedState \in BOOLEAN : SetPaused(s, pausedState)
         \/ \E c \in Connections, objs \in Listings : SetConnectionSyncConfig(c, objs)
         \/ \E e \in Entities : DeleteEntity(e)
         \/ RequestFullRun
  PROVE  ApiStep
<1>0. connection \in [Connections -> Life]
  BY DEF TypeOK, TablesType
<1>1. ASSUME NEW C \in SUBSET Connections, DeleteCustomer(C) PROVE ApiStep
  <2> DEFINE gone == {s \in syncs : s[1] \in C}
  <2>1. DropSyncs(gone, {}) /\ UNCHANGED <<locals, temporal, outbox, requests, issued, syncConfig>>
        /\ connection' = [c \in Connections |-> IF c \in C THEN "gone" ELSE connection[c]]
    BY <1>1 DEF DeleteCustomer
  <2>2. RowsGrow
    BY <2>1, NothingAdded DEF DropSyncs, outbox, locals
  <2>3. SyncsAnnounced
    BY <2>1 DEF SyncsAnnounced, DropSyncs
  <2>4. IdsAreIssued'
    BY <2>1 DEF GlobalInv, IdsAreIssued, Issued, DropSyncs, outbox, requests
  <2>5. SyncsAreLive' /\ ChangesAreKnown'
    BY <1>0, <2>1, SyncParts DEF GlobalInv, SyncsAreLive, ChangesAreKnown, DropSyncs, outbox,
                                 TypeOK, OutboxType
  <2> QED
    BY <2>1, <2>2, <2>3, <2>4, <2>5, SameIds, SameConfigs DEF ApiStep, locals
<1>2. ASSUME NEW s \in syncs, NEW pausedState \in BOOLEAN, SetPaused(s, pausedState)
      PROVE  ApiStep
  <2>1. AddChanges({}, {}, {s}) /\ syncs' = syncs
        /\ paused' = (IF pausedState THEN paused \cup {s} ELSE paused \ {s})
        /\ UNCHANGED <<control, temporal, requests, issued, syncConfig, connection, fullFlag,
                       unannounced>>
    BY <1>2 DEF SetPaused, history
  <2>2. RowsGrow /\ Fresh(s)'
    BY <2>1, AddChangesGives
  <2>3. SyncsAnnounced
    BY <2>1, <2>2 DEF SyncsAnnounced
  <2>4. IdsAreIssued'
    BY <2>1 DEF GlobalInv, IdsAreIssued, Issued, AddChanges, requests
  <2>5. SyncsAreLive' /\ ChangesAreKnown'
    BY <2>1 DEF GlobalInv, SyncsAreLive, ChangesAreKnown, AddChanges
  <2> QED
    BY <2>1, <2>2, <2>3, <2>4, <2>5, SameIds, SameConfigs DEF ApiStep
<1>3. ASSUME NEW c \in Connections, NEW objs \in Listings, SetConnectionSyncConfig(c, objs)
      PROVE  ApiStep
  <2>1. AddChanges({c}, {}, {}) /\ connection[c] = "live"
        /\ UNCHANGED <<control, temporal, requests, syncs, paused, issued, syncConfig, connection,
                       fullFlag, unannounced>>
    BY <1>3 DEF SetConnectionSyncConfig, history
  <2>2. RowsGrow
    BY <2>1, AddChangesGives
  <2>3. SyncsAnnounced
    BY <2>1 DEF SyncsAnnounced
  <2>4. IdsAreIssued'
    BY <2>1 DEF GlobalInv, IdsAreIssued, Issued, AddChanges, requests
  <2>5. SyncsAreLive' /\ ChangesAreKnown'
    BY <2>1 DEF GlobalInv, SyncsAreLive, ChangesAreKnown, AddChanges
  <2> QED
    BY <2>1, <2>2, <2>3, <2>4, <2>5, SameIds, SameConfigs DEF ApiStep
<1>4. ASSUME NEW e \in Entities, DeleteEntity(e) PROVE ApiStep
  <2> DEFINE gone == {s \in syncs : s[2] = e}
  <2>1. DropSyncs(gone, {})
        /\ UNCHANGED <<locals, temporal, outbox, requests, issued, syncConfig, connection>>
    BY <1>4 DEF DeleteEntity
  <2>2. RowsGrow
    BY <2>1, NothingAdded DEF DropSyncs, outbox, locals
  <2>3. SyncsAnnounced
    BY <2>1 DEF SyncsAnnounced, DropSyncs
  <2>4. IdsAreIssued'
    BY <2>1 DEF GlobalInv, IdsAreIssued, Issued, DropSyncs, outbox, requests
  <2>5. SyncsAreLive' /\ ChangesAreKnown'
    BY <2>1 DEF GlobalInv, SyncsAreLive, ChangesAreKnown, DropSyncs, outbox
  <2> QED
    BY <2>1, <2>2, <2>3, <2>4, <2>5, SameIds, SameConfigs DEF ApiStep, locals
<1>5. CASE RequestFullRun
  <2>1. IdsAreIssued' /\ SyncsAreLive' /\ ChangesAreKnown'
    BY <1>5 DEF RequestFullRun, GlobalInv, IdsAreIssued, Issued, SyncsAreLive, ChangesAreKnown,
                tables, requests
  <2> QED
    BY <1>5, <2>1, QuietStep DEF RequestFullRun, tables
<1> QED
  BY <1>1, <1>2, <1>3, <1>4, <1>5

LEMMA ConfigContract ==
  ASSUME TypeOK, GlobalInv, NEW k \in SyncConfigs,
         \/ \E objs \in Listings, autoStart \in BOOLEAN :
              CreateSyncConfig(k, objs, autoStart) \/ UpdateSyncConfig(k, objs, autoStart)
         \/ \E o \in Objects : AddObject(k, o)
         \/ BeginDeleteSyncConfig(k) \/ CommitDeleteSyncConfig(k) \/ AbortDeleteSyncConfig(k)
  PROVE  ApiStep
<1>0. syncConfig \in [SyncConfigs -> Life]
  BY DEF TypeOK, TablesType
<1>1. ASSUME NEW objs \in Listings, NEW autoStart \in BOOLEAN,
             CreateSyncConfig(k, objs, autoStart) \/ UpdateSyncConfig(k, objs, autoStart)
      PROVE  ApiStep
  <2>1. AddChanges({}, {k}, {})
        /\ syncConfig' \in {syncConfig, [syncConfig EXCEPT ![k] = "live"]}
        /\ UNCHANGED <<control, temporal, requests, syncs, paused, issued, connection,
                       fullFlag, unannounced>>
    BY <1>1 DEF CreateSyncConfig, UpdateSyncConfig
  <2>2. RowsGrow
    BY <2>1, AddChangesGives
  <2>3. SyncsAnnounced
    BY <2>1 DEF SyncsAnnounced
  <2>4. IdsAreIssued'
    BY <2>1 DEF GlobalInv, IdsAreIssued, Issued, AddChanges, requests
  <2>5. SyncsAreLive' /\ ChangesAreKnown'
    BY <2>1 DEF GlobalInv, SyncsAreLive, ChangesAreKnown, AddChanges
  <2>6. ConfigsLeaveNoSyncs
    BY <1>0, <2>1 DEF ConfigsLeaveNoSyncs, LiveConfigs
  <2> QED
    BY <2>1, <2>2, <2>3, <2>4, <2>5, <2>6, SameIds DEF ApiStep
<1>2. ASSUME NEW o \in Objects, AddObject(k, o) PROVE ApiStep
  <2>1. IdsAreIssued' /\ SyncsAreLive' /\ ChangesAreKnown'
    BY <1>2 DEF AddObject, GlobalInv, IdsAreIssued, Issued, SyncsAreLive, ChangesAreKnown,
                outbox, requests
  <2> QED
    BY <1>2, <2>1, QuietStep DEF AddObject, outbox
<1>3. CASE BeginDeleteSyncConfig(k)
  <2>1. IdsAreIssued'
    BY <1>3 DEF BeginDeleteSyncConfig, GlobalInv, IdsAreIssued, Issued, SyncsUnder, tables,
                outbox, TypeOK, RequestsType
  <2>2. SyncsAreLive' /\ ChangesAreKnown'
    BY <1>3 DEF BeginDeleteSyncConfig, GlobalInv, SyncsAreLive, ChangesAreKnown, tables, outbox
  <2> QED
    BY <1>3, <2>1, <2>2, QuietStep DEF BeginDeleteSyncConfig, tables, outbox, history
<1>4. CASE CommitDeleteSyncConfig(k)
  <2>1. AddChanges({}, {k}, dropListed[k]) /\ DropSyncs(SyncsUnder(k), dropListed[k])
        /\ UNCHANGED <<control, temporal, fullFlag, issued, connection, listed>>
        /\ syncConfig' = [syncConfig EXCEPT ![k] = "gone"]
        /\ dropListed' = [dropListed EXCEPT ![k] = {}]
    BY <1>4 DEF CommitDeleteSyncConfig
  <2>2. RowsGrow /\ \A s \in dropListed[k] : Fresh(s)'
    BY <2>1, AddChangesGives DEF DropSyncs
  <2>3. SyncsAnnounced
    BY <2>1, <2>2 DEF SyncsAnnounced, DropSyncs
  <2>4. IdsAreIssued'
    BY <2>1 DEF GlobalInv, IdsAreIssued, Issued, AddChanges, DropSyncs, TypeOK, RequestsType
  <2>5. SyncsAreLive' /\ ChangesAreKnown'
    BY <2>1 DEF GlobalInv, SyncsAreLive, ChangesAreKnown, AddChanges, DropSyncs
  <2>6. ConfigsLeaveNoSyncs
    BY <1>0, <2>1 DEF ConfigsLeaveNoSyncs, LiveConfigs, DropSyncs, SyncsUnder
  <2> QED
    BY <2>1, <2>2, <2>3, <2>4, <2>5, <2>6, SameIds DEF ApiStep
<1>5. CASE AbortDeleteSyncConfig(k)
  <2>1. IdsAreIssued'
    BY <1>5 DEF AbortDeleteSyncConfig, GlobalInv, IdsAreIssued, Issued, tables, outbox,
                TypeOK, RequestsType
  <2>2. SyncsAreLive' /\ ChangesAreKnown'
    BY <1>5 DEF AbortDeleteSyncConfig, GlobalInv, SyncsAreLive, ChangesAreKnown, tables, outbox
  <2> QED
    BY <1>5, <2>1, <2>2, QuietStep DEF AbortDeleteSyncConfig, tables, outbox, history
<1> QED
  BY <1>1, <1>2, <1>3, <1>4, <1>5

LEMMA ApiContract == TypeOK /\ GlobalInv /\ ApiNext => ApiStep
  BY ConnectionReadsContract, ConnectionWritesContract, ClientContract, ConfigContract DEF ApiNext

LEMMA ApiKeepsInvariant == IndInv /\ ApiNext => IndInv'
<1> SUFFICES ASSUME IndInv, ApiNext PROVE IndInv'
  OBVIOUS
<1>1. ApiStep
  BY ApiContract DEF IndInv
<1>2. TypeOK'
  BY ApiType DEF IndInv
<1>3. GlobalInv' /\ \A w \in Attempts : AttemptInv(w)'
  BY <1>1, <1>2, ApiKeepsGlobal, ApiKeepsAttempt DEF IndInv
<1>4. Alone'
  BY <1>1 DEF IndInv, Alone, At, ApiStep, control
<1> QED
  BY <1>2, <1>3, <1>4 DEF IndInv

-----------------------------------------------------------------------------
(* The steps of an attempt: the other attempts are idle, and stay so. *)

Rest(w) ==
  \A v \in Attempts \ {w} :
    /\ pc'[v] = pc[v] /\ full'[v] = full[v] /\ plan'[v] = plan[v] /\ batch'[v] = batch[v]
    /\ connRows'[v] \subseteq connRows[v]
    /\ configRows'[v] \subseteq configRows[v]
    /\ syncRows'[v] \subseteq syncRows[v]

LEMMA IdleIsFineNow == \A v \in Attempts : Idle(v) => AttemptInv(v)
<1> SUFFICES ASSUME NEW v \in Attempts, Idle(v) PROVE AttemptInv(v)
  OBVIOUS
<1>1. LocalsMatchPC(v) /\ RowsAreThere(v) /\ WorkHasRows(v)
  BY DEF Idle, LocalsMatchPC, RowsAreThere, WorkHasRows, InPart, PlanPCs, Loop, BatchPCs, Loaded,
         NoPlan
<1>2. NothingForgotten(v) /\ RemovalIsAnnounced(v) /\ CopyIsCurrent(v) /\ BatchMatchesPC(v)
  BY DEF Idle, NothingForgotten, RemovalIsAnnounced, CopyIsCurrent, BatchMatchesPC, Loaded, NoBatch
<1> QED
  BY <1>1, <1>2 DEF AttemptInv

LEMMA IdleIsFine == \A v \in Attempts : Idle(v)' => AttemptInv(v)'
<1>1. (\A v \in Attempts : Idle(v) => AttemptInv(v))'
  BY IdleIsFineNow, PTL
<1> QED
  BY <1>1

LEMMA IdleAtIdle ==
  ASSUME TypeOK, NEW v \in Attempts, AttemptInv(v), At(v, "idle")
  PROVE  Idle(v)
  BY DEF TypeOK, LocalsType, AttemptInv, LocalsMatchPC, InPart, PlanPCs, Loop, BatchPCs, Loaded,
         Idle, At

LEMMA RestStaysIdle ==
  ASSUME IndInv, TypeOK', NEW w \in Attempts, Rest(w), \A v \in Attempts \ {w} : At(v, "idle"),
         GlobalInv', AttemptInv(w)'
  PROVE  IndInv'
<1>1. \A v \in Attempts \ {w} : Idle(v)'
  <2> SUFFICES ASSUME NEW v \in Attempts \ {w} PROVE Idle(v)'
    OBVIOUS
  <2>1. Idle(v)
    BY IdleAtIdle DEF IndInv
  <2> QED
    BY <2>1 DEF Idle, Rest
<1>2. \A v \in Attempts : Idle(v)' => AttemptInv(v)'
  BY IdleIsFine
<1>3. Alone'
  BY <1>1 DEF Alone, Idle, At
<1> QED
  BY <1>1, <1>2, <1>3 DEF IndInv

LEMMA RestRests ==
  ASSUME TypeOK, NEW w \in Attempts, AttemptNext(w) \/ Crash(w)
  PROVE  Rest(w)
<1>1. ASSUME Clear(w) PROVE Rest(w)
  BY <1>1 DEF Clear, Goto, Plans, Batches, Rest, TypeOK, LocalsType
<1>2. CASE \/ Start(w) \/ ReadConnChanges(w) \/ LoadConnections(w) \/ LoadConfigs(w)
           \/ ReadConfigChanges(w) \/ LoadChangedConfigs(w)
           \/ \E k \in SyncConfigs : LoadConnectionsOf(w, k)
  BY <1>2 DEF Start, ReadConnChanges, LoadConnections, LoadConfigs, ReadConfigChanges,
              LoadChangedConfigs, LoadConnectionsOf, Goto, Plans, read, Rest, TypeOK, LocalsType
<1>3. CASE \E c \in Connections : CreateSyncs(w, c)
  BY <1>3 DEF CreateSyncs, Goto, Plans, read, Rest, TypeOK, LocalsType
<1>4. CASE InsertSyncChanges(w) \/ RemoveSyncs(w) \/ FinishPart1(w) \/ FinishPart2(w)
  BY <1>4 DEF InsertSyncChanges, RemoveSyncs, FinishPart1, FinishPart2, AddChanges, Goto, Plans,
              read, Rest, TypeOK, LocalsType
<1>5. CASE \/ ReadSyncChanges(w) \/ LoadSyncs(w) \/ PauseDoomed(w) \/ DeleteDoomed(w)
           \/ \E s \in batch[w].todo : UpdateStrategy(w, s)
           \/ UpsertSchedule(w) \/ FinishPart3(w)
  BY <1>5 DEF ReadSyncChanges, LoadSyncs, PauseDoomed, DeleteDoomed, UpdateStrategy,
              UpsertSchedule, FinishPart3, Goto, Batches, read, Rest, TypeOK, LocalsType
<1>6. CASE ResetFull(w) \/ Throw(w) \/ Crash(w)
  BY <1>1, <1>6 DEF ResetFull, Throw, Crash
<1> QED
  BY <1>2, <1>3, <1>4, <1>5, <1>6 DEF AttemptNext

LEMMA SameGlobal ==
  ASSUME GlobalInv,
         UNCHANGED <<connection, syncConfig, syncs, paused, issued, connChanges, configChanges,
                     syncChanges, fullFlag, schedules, schedPaused, listed, dropListed,
                     unannounced>>
  PROVE  GlobalInv'
<1>1. IdsAreIssued' /\ SyncsAreLive' /\ ChangesAreKnown'
  BY DEF GlobalInv, IdsAreIssued, Issued, SyncsAreLive, ChangesAreKnown
<1>2. DriftIsCovered' /\ OrphansOnlyUnannounced'
  BY DEF GlobalInv, DriftIsCovered, HasWork, Agrees, ByConfig, LiveConfigs, OrphansOnlyUnannounced
<1> QED
  BY <1>1, <1>2 DEF GlobalInv

LEMMA KeepGlobal == ASSUME GlobalInv, UNCHANGED shared PROVE GlobalInv'
  BY SameGlobal DEF shared, tables, outbox, temporal, requests, history

LEMMA ClearGives == ASSUME TypeOK, NEW w \in Attempts, Clear(w) PROVE AttemptInv(w)'
<1>1. Idle(w)'
  BY DEF Clear, Goto, Plans, Batches, Idle, TypeOK, LocalsType
<1> QED
  BY <1>1, IdleIsFine

-----------------------------------------------------------------------------
(* Parts 1 and 2: the attempt gathers work and does it. *)

LEMMA Typed ==
  ASSUME IndInv, NEW w \in Attempts
  PROVE  TypeOK /\ GlobalInv /\ AttemptInv(w) /\ plan[w] \in Plan /\ batch[w] \in Batch
  BY DEF IndInv, TypeOK, LocalsType

(* Outside part 3 there is nothing to say of the batch, outside parts 1 and 2 of the plan. *)
LEMMA NoBatchIsFine ==
  ASSUME NEW w \in Attempts, (batch[w] = NoBatch)', (pc[w] \notin BatchPCs)'
  PROVE  CopyIsCurrent(w)' /\ BatchMatchesPC(w)'
  BY DEF NoBatch, BatchPCs, Loaded, CopyIsCurrent, BatchMatchesPC

LEMMA NoPlanIsFine ==
  ASSUME NEW w \in Attempts, (plan[w] = NoPlan)', (pc[w] \notin PlanPCs)'
  PROVE  WorkHasRows(w)' /\ RemovalIsAnnounced(w)'
  BY DEF PlanPCs, Loop, WorkHasRows, InPart, RemovalIsAnnounced

LEMMA StartKeeps ==
  ASSUME IndInv, NEW w \in Attempts, Start(w)
  PROVE  GlobalInv' /\ AttemptInv(w)'
<1>1. GlobalInv'
  BY Typed, SameGlobal DEF Start, tables, outbox, temporal, requests
<1>2. Idle(w)
  BY Typed, IdleAtIdle DEF Start
<1>3. /\ pc'[w] = "readConnChanges" /\ full'[w] = fullFlag
      /\ connRows'[w] = {} /\ configRows'[w] = {} /\ syncRows'[w] = {}
      /\ plan'[w] = NoPlan /\ batch'[w] = NoBatch /\ UNCHANGED fullFlag
  BY <1>2, Typed DEF Start, Idle, Goto, read, outbox, TypeOK, LocalsType
<1>4. LocalsMatchPC(w)'
  BY <1>3 DEF LocalsMatchPC, InPart, NoPlan, PlanPCs, Loop, BatchPCs, Loaded
<1>5. RowsAreThere(w)'
  BY <1>3 DEF RowsAreThere
<1>6. NothingForgotten(w)'
  BY <1>1, <1>3 DEF GlobalInv, DriftIsCovered, HasWork, NothingForgotten, Remembered, ByConfig
<1>7. WorkHasRows(w)' /\ RemovalIsAnnounced(w)' /\ CopyIsCurrent(w)' /\ BatchMatchesPC(w)'
  BY <1>3, NoBatchIsFine, NoPlanIsFine DEF PlanPCs, Loop, BatchPCs, Loaded
<1> QED
  BY <1>1, <1>4, <1>5, <1>6, <1>7 DEF AttemptInv

LEMMA ReadConnChangesKeeps ==
  ASSUME IndInv, NEW w \in Attempts, ReadConnChanges(w)
  PROVE  GlobalInv' /\ AttemptInv(w)'
<1> DEFINE next == [plan[w] EXCEPT !.part = 1, !.connTodo = connChanges]
<1>1. /\ pc[w] = "readConnChanges" /\ pc'[w] = "loadConnections" /\ connRows'[w] = connChanges
      /\ plan'[w] = next /\ UNCHANGED <<full, configRows, syncRows, batch, shared>>
  BY Typed DEF ReadConnChanges, At, Goto, Plans, TypeOK, LocalsType
<1>2. plan[w] = NoPlan /\ batch[w] = NoBatch /\ configRows[w] = {} /\ syncRows[w] = {}
      /\ (full[w] => fullFlag)
  BY <1>1, Typed DEF AttemptInv, LocalsMatchPC, InPart, PlanPCs, Loop, BatchPCs, Loaded
<1>3. next.part = 1 /\ next.connTodo = connChanges /\ next.configTodo = {}
  BY <1>2 DEF NoPlan
<1> HIDE DEF next
<1>4. UNCHANGED <<syncs, connChanges, configChanges, syncChanges, fullFlag, paused, schedules,
                  schedPaused, syncConfig>>
  BY <1>1 DEF shared, tables, outbox, temporal
<1>5. LocalsMatchPC(w)' /\ RowsAreThere(w)' /\ WorkHasRows(w)' /\ RemovalIsAnnounced(w)'
  BY <1>1, <1>2, <1>3, <1>4 DEF LocalsMatchPC, RowsAreThere, WorkHasRows, RemovalIsAnnounced,
                                InPart, PlanPCs, Loop, BatchPCs, Loaded
<1>6. NothingForgotten(w)'
  BY <1>1, <1>2, <1>3, <1>4, Typed DEF AttemptInv, NothingForgotten, Remembered, InHand, Agrees,
                                       ByConfig, LiveConfigs, NoPlan
<1>7. CopyIsCurrent(w)' /\ BatchMatchesPC(w)'
  BY <1>1, <1>2, NoBatchIsFine DEF BatchPCs, Loaded
<1> QED
  BY <1>1, <1>5, <1>6, <1>7, Typed, KeepGlobal DEF AttemptInv

LEMMA LoadConnectionsKeeps ==
  ASSUME IndInv, NEW w \in Attempts, LoadConnections(w)
  PROVE  GlobalInv' /\ AttemptInv(w)'
<1> DEFINE todo == IF full[w] THEN LiveConnections ELSE plan[w].connTodo \cap LiveConnections
           next == [plan[w] EXCEPT !.connTodo = todo, !.overrides = override]
<1>1. /\ pc[w] = "loadConnections" /\ pc'[w] = "loadConfigs"
      /\ plan'[w] = next /\ UNCHANGED <<full, read, batch, shared>>
  BY Typed DEF LoadConnections, At, Goto, Plans, TypeOK, LocalsType
<1>2. plan[w].part = 1 /\ plan[w].configTodo = {} /\ batch[w] = NoBatch /\ (full[w] => fullFlag)
      /\ configRows[w] = {} /\ syncRows[w] = {}
  BY <1>1, Typed DEF AttemptInv, LocalsMatchPC, InPart, PlanPCs, Loop, BatchPCs, Loaded
<1>3. next.part = 1 /\ next.connTodo = todo /\ next.configTodo = {}
  BY <1>2, Typed DEF Plan
<1> HIDE DEF next
<1>4. UNCHANGED <<syncs, connChanges, configChanges, syncChanges, fullFlag, paused, schedules,
                  schedPaused, syncConfig, connRows, configRows, syncRows>>
  BY <1>1 DEF shared, tables, outbox, temporal, read
<1>5. \A s \in syncs : s[1] \in LiveConnections
  BY Typed, SyncParts DEF GlobalInv, SyncsAreLive, LiveConnections
<1>6. LocalsMatchPC(w)' /\ RowsAreThere(w)' /\ WorkHasRows(w)' /\ RemovalIsAnnounced(w)'
  BY <1>1, <1>2, <1>3, <1>4, Typed
  DEF AttemptInv, LocalsMatchPC, RowsAreThere, WorkHasRows, RemovalIsAnnounced, InPart, PlanPCs,
      Loop, BatchPCs, Loaded
<1>7. NothingForgotten(w)'
  BY <1>1, <1>2, <1>3, <1>4, <1>5, Typed
  DEF AttemptInv, NothingForgotten, Remembered, InHand, Agrees, ByConfig, LiveConfigs
<1>8. CopyIsCurrent(w)' /\ BatchMatchesPC(w)'
  BY <1>1, <1>2, NoBatchIsFine DEF BatchPCs, Loaded
<1> QED
  BY <1>1, <1>6, <1>7, <1>8, Typed, KeepGlobal DEF AttemptInv

LEMMA LoadConfigsKeeps ==
  ASSUME IndInv, NEW w \in Attempts, LoadConfigs(w)
  PROVE  GlobalInv' /\ AttemptInv(w)'
<1> DEFINE next == [plan[w] EXCEPT !.known = UNION {ConfigsFor(c) : c \in plan[w].connTodo},
                                   !.contents = config]
<1>1. /\ pc[w] = "loadConfigs" /\ pc'[w] = "create"
      /\ plan'[w] = next /\ UNCHANGED <<full, read, batch, shared>>
  BY Typed DEF LoadConfigs, At, Goto, Plans, TypeOK, LocalsType
<1>2. plan[w].part = 1 /\ plan[w].configTodo = {} /\ batch[w] = NoBatch /\ (full[w] => fullFlag)
      /\ configRows[w] = {} /\ syncRows[w] = {}
  BY <1>1, Typed DEF AttemptInv, LocalsMatchPC, InPart, PlanPCs, Loop, BatchPCs, Loaded
<1>3. next.part = 1 /\ next.connTodo = plan[w].connTodo /\ next.configTodo = {}
  BY <1>2, Typed DEF Plan
<1> HIDE DEF next
<1>4. UNCHANGED <<syncs, connChanges, configChanges, syncChanges, fullFlag, paused, schedules,
                  schedPaused, syncConfig, connRows, configRows, syncRows>>
  BY <1>1 DEF shared, tables, outbox, temporal, read
<1>5. LocalsMatchPC(w)' /\ RowsAreThere(w)' /\ WorkHasRows(w)' /\ RemovalIsAnnounced(w)'
  BY <1>1, <1>2, <1>3, <1>4, Typed
  DEF AttemptInv, LocalsMatchPC, RowsAreThere, WorkHasRows, RemovalIsAnnounced, InPart, PlanPCs,
      Loop, BatchPCs, Loaded
<1>6. NothingForgotten(w)'
  BY <1>1, <1>2, <1>3, <1>4, Typed
  DEF AttemptInv, NothingForgotten, Remembered, InHand, Agrees, ByConfig, LiveConfigs
<1>7. CopyIsCurrent(w)' /\ BatchMatchesPC(w)'
  BY <1>1, <1>2, NoBatchIsFine DEF BatchPCs, Loaded
<1> QED
  BY <1>1, <1>5, <1>6, <1>7, Typed, KeepGlobal DEF AttemptInv

LEMMA CreateSyncsKeeps ==
  ASSUME IndInv, NEW w \in Attempts, NEW c \in Connections, CreateSyncs(w, c)
  PROVE  GlobalInv' /\ AttemptInv(w)'
<1> DEFINE objs == Missing(w, c)
           new == {NewSync(c, o) : o \in objs}
           next == [plan[w] EXCEPT !.cur = {c}, !.connTodo = @ \ {c}]
<1>1. /\ pc[w] = "create" /\ pc'[w] = "insert" /\ c \in plan[w].connTodo
      /\ KnownFor(w, c) # {} /\ (objs # {} => KnownFor(w, c) \subseteq LiveConfigs)
      /\ objs # {} => connection[c] = "live"
      /\ syncs' = syncs \cup new /\ paused' \in {paused, paused \cup new}
      /\ issued' = Issue(c, objs) /\ plan'[w] = next
      /\ UNCHANGED <<full, connRows, configRows, syncRows, batch, connection, syncConfig,
                     connChanges, configChanges, syncChanges, fullFlag, schedules, schedPaused,
                     listed, dropListed, unannounced>>
  BY Typed DEF CreateSyncs, CanCreate, At, Goto, Plans, TypeOK, LocalsType, read, outbox, temporal,
               requests, history
<1>2. /\ plan[w].part \in {1, 2} /\ (plan[w].part = 1 => plan[w].configTodo = {})
      /\ batch[w] = NoBatch /\ syncRows[w] = {} /\ (full[w] => fullFlag)
  BY <1>1, Typed DEF AttemptInv, LocalsMatchPC, Plan, PlanPCs, Loop, BatchPCs, Loaded
<1>3. /\ next.part = plan[w].part /\ next.connTodo = plan[w].connTodo \ {c}
      /\ next.configTodo = plan[w].configTodo /\ next.known = plan[w].known /\ next.cur = {c}
  BY Typed DEF Plan
<1>4. objs \in SUBSET Objects
  BY Typed, ArgsType
<1>5. IssuedGrows /\ \A s \in new : s \in SyncId /\ ~Issued(s) /\ Issued(s)' /\ s[1] = c
  BY <1>1, <1>4, Typed, IssueGives DEF NewSync
<1>6. /\ \A s \in syncs : s \notin new
      /\ \A s \in syncs' : s \in new \/ (s \in syncs /\ (s \in paused' <=> s \in paused))
  BY <1>1, <1>5, Typed DEF GlobalInv, IdsAreIssued
<1>7. (\E s \in new : TRUE) => objs # {}
  OBVIOUS
<1> HIDE DEF new, next, objs
(* A sync that is added is one some change row of the attempt stands for. *)
<1>8. \A s \in new : HasWork(s)'
  <2> SUFFICES ASSUME NEW s \in new PROVE HasWork(s)'
    OBVIOUS
  <2>1. s[1] = c /\ KnownFor(w, c) # {} /\ KnownFor(w, c) \subseteq LiveConfigs
    BY <1>1, <1>5, <1>7
  <2>2. CASE full[w]
    BY <1>1, <1>2, <2>2 DEF HasWork
  <2>3. CASE ~full[w] /\ plan[w].part = 1
    BY <1>1, <2>1, <2>3, Typed DEF AttemptInv, WorkHasRows, InPart, PlanPCs, Loop, HasWork
  <2>4. CASE ~full[w] /\ plan[w].part = 2
    <3>1. plan[w].known \subseteq configChanges
      BY <1>1, <2>4, Typed DEF AttemptInv, WorkHasRows, InPart, PlanPCs, Loop
    <3>2. ByConfig(s, configChanges)
      BY <2>1, <3>1 DEF KnownFor, ByConfig
    <3> QED
      BY <1>1, <3>2 DEF HasWork, ByConfig, LiveConfigs
  <2> QED
    BY <1>2, <2>2, <2>3, <2>4
<1>9. GlobalInv'
  <2>1. IdsAreIssued'
    BY <1>1, <1>5, Typed DEF GlobalInv, IdsAreIssued, IssuedGrows, TypeOK, SyncsType, OutboxType,
                             RequestsType
  <2>2. SyncsAreLive' /\ ChangesAreKnown'
    BY <1>1, <1>5, <1>7, Typed DEF GlobalInv, SyncsAreLive, ChangesAreKnown
  <2>3. DriftIsCovered'
    BY <1>1, <1>6, <1>8, Typed DEF GlobalInv, DriftIsCovered, HasWork, Agrees, ByConfig, LiveConfigs
  <2>4. OrphansOnlyUnannounced'
    BY <1>1, Typed DEF GlobalInv, OrphansOnlyUnannounced
  <2> QED
    BY <2>1, <2>2, <2>3, <2>4 DEF GlobalInv
<1>10. LocalsMatchPC(w)' /\ RowsAreThere(w)' /\ RemovalIsAnnounced(w)'
  BY <1>1, <1>2, <1>3, Typed
  DEF AttemptInv, LocalsMatchPC, RowsAreThere, RemovalIsAnnounced, InPart, PlanPCs, Loop, BatchPCs,
      Loaded
<1>11. WorkHasRows(w)'
  BY <1>1, <1>3, Typed DEF AttemptInv, WorkHasRows, InPart, PlanPCs, Loop
<1>12. NothingForgotten(w)'
  <2> SUFFICES ASSUME NEW s \in syncs' PROVE Remembered(w, s)'
    BY DEF NothingForgotten
  <2>1. CASE s \in new
    BY <1>1, <1>3, <1>5, <2>1 DEF Remembered, InHand
  <2>2. CASE s \in syncs /\ (s \in paused' <=> s \in paused)
    <3>1. Remembered(w, s)
      BY <1>1, <2>2, Typed DEF AttemptInv, NothingForgotten
    <3>2. InHand(w, s) => InHand(w, s)'
      BY <1>1, <1>3 DEF InHand, ByConfig, LiveConfigs
    <3> QED
      BY <1>1, <2>2, <3>1, <3>2 DEF Remembered, Agrees, ByConfig, LiveConfigs
  <2> QED
    BY <1>6, <2>1, <2>2
<1>13. CopyIsCurrent(w)' /\ BatchMatchesPC(w)'
  BY <1>1, <1>2, NoBatchIsFine DEF BatchPCs, Loaded
<1> QED
  BY <1>9, <1>10, <1>11, <1>12, <1>13 DEF AttemptInv

LEMMA InsertSyncChangesKeeps ==
  ASSUME IndInv, NEW w \in Attempts, InsertSyncChanges(w)
  PROVE  GlobalInv' /\ AttemptInv(w)'
<1> DEFINE added == {s \in syncs : s[1] \in plan[w].cur}
<1>1. /\ pc[w] = "insert" /\ pc'[w] = "remove"
      /\ syncChanges' = syncChanges \cup added /\ syncRows'[w] = syncRows[w] \ added
      /\ connRows'[w] = connRows[w] /\ configRows'[w] = configRows[w]
      /\ UNCHANGED <<full, plan, batch, syncs, paused, issued, connection, syncConfig,
                     connChanges, configChanges, fullFlag, schedules, schedPaused,
                     listed, dropListed, unannounced>>
  BY Typed DEF InsertSyncChanges, At, Goto, AddChanges, TypeOK, LocalsType, tables, temporal,
               requests, history
<1>2. batch[w] = NoBatch /\ syncRows[w] = {} /\ (full[w] => fullFlag)
  BY <1>1, Typed DEF AttemptInv, LocalsMatchPC, BatchPCs, Loaded
<1>3. \A s \in added : s \in syncs
  OBVIOUS
<1>4. GlobalInv'
  <2>1. IdsAreIssued' /\ SyncsAreLive' /\ ChangesAreKnown'
    BY <1>1, Typed DEF GlobalInv, IdsAreIssued, Issued, SyncsAreLive, ChangesAreKnown
  <2>2. DriftIsCovered' /\ OrphansOnlyUnannounced'
    BY <1>1, Typed DEF GlobalInv, DriftIsCovered, HasWork, Agrees, ByConfig, LiveConfigs,
                       OrphansOnlyUnannounced
  <2> QED
    BY <2>1, <2>2 DEF GlobalInv
<1>5. LocalsMatchPC(w)' /\ RowsAreThere(w)' /\ WorkHasRows(w)'
  BY <1>1, <1>2, Typed DEF AttemptInv, LocalsMatchPC, RowsAreThere, WorkHasRows, InPart, PlanPCs,
                           Loop, BatchPCs, Loaded
<1>6. RemovalIsAnnounced(w)'
  BY <1>1 DEF RemovalIsAnnounced
<1>7. NothingForgotten(w)'
  BY <1>1, Typed DEF AttemptInv, NothingForgotten, Remembered, InHand, Agrees, ByConfig, LiveConfigs
<1>8. CopyIsCurrent(w)' /\ BatchMatchesPC(w)'
  BY <1>1, <1>2, NoBatchIsFine DEF BatchPCs, Loaded
<1> QED
  BY <1>4, <1>5, <1>6, <1>7, <1>8 DEF AttemptInv

LEMMA RemoveSyncsKeeps ==
  ASSUME IndInv, NEW w \in Attempts, RemoveSyncs(w)
  PROVE  GlobalInv' /\ AttemptInv(w)'
<1> DEFINE next == [plan[w] EXCEPT !.cur = {}]
<1>1. /\ pc[w] = "remove" /\ pc'[w] = "create" /\ plan'[w] = next
      /\ syncs' = syncs \ Surplus(w) /\ paused' = paused \ Surplus(w)
      /\ UNCHANGED <<full, connRows, configRows, syncRows, batch, issued, connection, syncConfig,
                     connChanges, configChanges, syncChanges, fullFlag, schedules, schedPaused,
                     listed, dropListed>>
      /\ unannounced \subseteq unannounced'
  BY Typed DEF RemoveSyncs, DropSyncs, At, Goto, Plans, TypeOK, LocalsType, read, outbox, temporal,
               requests
<1>2. batch[w] = NoBatch /\ syncRows[w] = {} /\ (full[w] => fullFlag)
  BY <1>1, Typed DEF AttemptInv, LocalsMatchPC, BatchPCs, Loaded
<1>3. /\ next.part = plan[w].part /\ next.connTodo = plan[w].connTodo
      /\ next.configTodo = plan[w].configTodo /\ next.known = plan[w].known
  BY Typed DEF Plan
(* What is deleted was announced by the INSERT. *)
<1>4. \A s \in Surplus(w) : s \in syncChanges
  BY <1>1, Typed DEF Surplus, AttemptInv, RemovalIsAnnounced
<1> HIDE DEF next
<1>5. \A s \in syncs' : s \in syncs /\ (s \in paused' <=> s \in paused)
  BY <1>1
<1>6. GlobalInv'
  <2>1. IdsAreIssued' /\ SyncsAreLive' /\ ChangesAreKnown'
    BY <1>1, Typed DEF GlobalInv, IdsAreIssued, Issued, SyncsAreLive, ChangesAreKnown
  <2>2. DriftIsCovered'
    BY <1>1, <1>5, Typed DEF GlobalInv, DriftIsCovered, HasWork, Agrees, ByConfig, LiveConfigs
  <2>3. OrphansOnlyUnannounced'
    BY <1>1, <1>4, Typed DEF GlobalInv, OrphansOnlyUnannounced
  <2> QED
    BY <2>1, <2>2, <2>3 DEF GlobalInv
<1>7. LocalsMatchPC(w)' /\ RowsAreThere(w)' /\ WorkHasRows(w)' /\ RemovalIsAnnounced(w)'
  BY <1>1, <1>2, <1>3, Typed
  DEF AttemptInv, LocalsMatchPC, RowsAreThere, WorkHasRows, RemovalIsAnnounced, InPart, PlanPCs,
      Loop, BatchPCs, Loaded
<1>8. NothingForgotten(w)'
  BY <1>1, <1>3, <1>5, Typed DEF AttemptInv, NothingForgotten, Remembered, InHand, Agrees, ByConfig,
                                 LiveConfigs
<1>9. CopyIsCurrent(w)' /\ BatchMatchesPC(w)'
  BY <1>1, <1>2, NoBatchIsFine DEF BatchPCs, Loaded
<1> QED
  BY <1>6, <1>7, <1>8, <1>9 DEF AttemptInv

(* With nothing left in hand, the rows of part 1 can go. *)
LEMMA FinishPart1Keeps ==
  ASSUME IndInv, NEW w \in Attempts, FinishPart1(w)
  PROVE  GlobalInv' /\ AttemptInv(w)'
<1>1. /\ pc[w] = "create" /\ pc'[w] = "readConfigChanges" /\ plan'[w] = NoPlan
      /\ plan[w].part = 1 /\ plan[w].connTodo = {}
      /\ connChanges' = connChanges \ connRows[w] /\ connRows'[w] = {}
      /\ UNCHANGED <<full, configRows, syncRows, batch, syncs, paused, issued, connection,
                     syncConfig, configChanges, syncChanges, fullFlag, schedules, schedPaused,
                     listed, dropListed, unannounced>>
  BY Typed DEF FinishPart1, At, Goto, Plans, TypeOK, LocalsType, tables, temporal, requests, history
<1>2. /\ plan[w].configTodo = {} /\ batch[w] = NoBatch /\ (full[w] => fullFlag)
      /\ configRows[w] = {} /\ syncRows[w] = {}
  BY <1>1, Typed DEF AttemptInv, LocalsMatchPC, InPart, PlanPCs, Loop, BatchPCs, Loaded
<1>3. \A s \in syncs : Agrees(s)' \/ HasWork(s)'
  BY <1>1, <1>2, Typed DEF AttemptInv, NothingForgotten, Remembered, InHand, Agrees, HasWork,
                           ByConfig, LiveConfigs
<1>4. GlobalInv'
  <2>1. IdsAreIssued' /\ SyncsAreLive' /\ ChangesAreKnown' /\ OrphansOnlyUnannounced'
    BY <1>1, Typed DEF GlobalInv, IdsAreIssued, Issued, SyncsAreLive, ChangesAreKnown,
                       OrphansOnlyUnannounced
  <2> QED
    BY <1>1, <1>3, <2>1 DEF GlobalInv, DriftIsCovered
<1>5. LocalsMatchPC(w)' /\ RowsAreThere(w)'
  BY <1>1, <1>2, Typed DEF AttemptInv, LocalsMatchPC, RowsAreThere, InPart, NoPlan, PlanPCs, Loop,
                           BatchPCs, Loaded
<1>6. NothingForgotten(w)'
  BY <1>1, <1>2, Typed DEF AttemptInv, NothingForgotten, Remembered, InHand, Agrees, ByConfig,
                           LiveConfigs, NoPlan
<1>7. WorkHasRows(w)' /\ RemovalIsAnnounced(w)' /\ CopyIsCurrent(w)' /\ BatchMatchesPC(w)'
  BY <1>1, <1>2, NoBatchIsFine, NoPlanIsFine DEF PlanPCs, Loop, BatchPCs, Loaded
<1> QED
  BY <1>4, <1>5, <1>6, <1>7 DEF AttemptInv

LEMMA ReadConfigChangesKeeps ==
  ASSUME IndInv, NEW w \in Attempts, ReadConfigChanges(w)
  PROVE  GlobalInv' /\ AttemptInv(w)'
<1> DEFINE next == [plan[w] EXCEPT !.part = 2, !.configTodo = configChanges]
<1>1. /\ pc[w] = "readConfigChanges" /\ pc'[w] = "loadChangedConfigs"
      /\ configRows'[w] = configChanges
      /\ plan'[w] = next /\ UNCHANGED <<full, connRows, syncRows, batch, shared>>
  BY Typed DEF ReadConfigChanges, At, Goto, Plans, TypeOK, LocalsType
<1>2. plan[w] = NoPlan /\ batch[w] = NoBatch /\ connRows[w] = {} /\ configRows[w] = {}
      /\ syncRows[w] = {} /\ (full[w] => fullFlag)
  BY <1>1, Typed DEF AttemptInv, LocalsMatchPC, InPart, PlanPCs, Loop, BatchPCs, Loaded
<1>3. next.part = 2 /\ next.connTodo = {} /\ next.configTodo = configChanges /\ next.known = {}
  BY <1>2 DEF NoPlan
<1> HIDE DEF next
<1>4. UNCHANGED <<syncs, connChanges, configChanges, syncChanges, fullFlag, paused, schedules,
                  schedPaused, syncConfig>>
  BY <1>1 DEF shared, tables, outbox, temporal
<1>5. LocalsMatchPC(w)' /\ RowsAreThere(w)' /\ WorkHasRows(w)' /\ RemovalIsAnnounced(w)'
  BY <1>1, <1>2, <1>3, <1>4 DEF LocalsMatchPC, RowsAreThere, WorkHasRows, RemovalIsAnnounced,
                                InPart, PlanPCs, Loop, BatchPCs, Loaded
<1>6. NothingForgotten(w)'
  BY <1>1, <1>2, <1>3, <1>4, Typed DEF AttemptInv, NothingForgotten, Remembered, InHand, Agrees,
                                       ByConfig, LiveConfigs, NoPlan
<1>7. CopyIsCurrent(w)' /\ BatchMatchesPC(w)'
  BY <1>1, <1>2, NoBatchIsFine DEF BatchPCs, Loaded
<1> QED
  BY <1>1, <1>5, <1>6, <1>7, Typed, KeepGlobal DEF AttemptInv

LEMMA LoadChangedConfigsKeeps ==
  ASSUME IndInv, NEW w \in Attempts, LoadChangedConfigs(w)
  PROVE  GlobalInv' /\ AttemptInv(w)'
<1> DEFINE todo == IF full[w] THEN LiveConfigs ELSE plan[w].configTodo \cap LiveConfigs
           next == [plan[w] EXCEPT !.configTodo = todo, !.contents = config]
<1>1. /\ pc[w] = "loadChangedConfigs" /\ pc'[w] = "create"
      /\ plan'[w] = next /\ UNCHANGED <<full, read, batch, shared>>
  BY Typed DEF LoadChangedConfigs, At, Goto, Plans, TypeOK, LocalsType
<1>2. plan[w].part = 2 /\ plan[w].connTodo = {} /\ plan[w].known = {} /\ batch[w] = NoBatch
      /\ (full[w] => fullFlag) /\ connRows[w] = {} /\ syncRows[w] = {}
  BY <1>1, Typed DEF AttemptInv, LocalsMatchPC, InPart, PlanPCs, Loop, BatchPCs, Loaded
<1>3. next.part = 2 /\ next.connTodo = {} /\ next.configTodo = todo /\ next.known = {}
  BY <1>2, Typed DEF Plan
<1> HIDE DEF next
<1>4. UNCHANGED <<syncs, connChanges, configChanges, syncChanges, fullFlag, paused, schedules,
                  schedPaused, syncConfig, connRows, configRows, syncRows>>
  BY <1>1 DEF shared, tables, outbox, temporal, read
<1>5. LocalsMatchPC(w)' /\ RowsAreThere(w)' /\ WorkHasRows(w)' /\ RemovalIsAnnounced(w)'
  BY <1>1, <1>2, <1>3, <1>4, Typed
  DEF AttemptInv, LocalsMatchPC, RowsAreThere, WorkHasRows, RemovalIsAnnounced, InPart, PlanPCs,
      Loop, BatchPCs, Loaded
<1>6. NothingForgotten(w)'
  BY <1>1, <1>2, <1>3, <1>4, Typed
  DEF AttemptInv, NothingForgotten, Remembered, InHand, Agrees, ByConfig, LiveConfigs
<1>7. CopyIsCurrent(w)' /\ BatchMatchesPC(w)'
  BY <1>1, <1>2, NoBatchIsFine DEF BatchPCs, Loaded
<1> QED
  BY <1>1, <1>5, <1>6, <1>7, Typed, KeepGlobal DEF AttemptInv

LEMMA LoadConnectionsOfKeeps ==
  ASSUME IndInv, NEW w \in Attempts, NEW k \in SyncConfigs, LoadConnectionsOf(w, k)
  PROVE  GlobalInv' /\ AttemptInv(w)'
<1> DEFINE next == [plan[w] EXCEPT !.connTodo = ConnectionsOf(k) \cap LiveConnections,
                                   !.overrides = override,
                                   !.known = {k}, !.configTodo = @ \ {k}]
<1>1. /\ pc[w] = "create" /\ plan[w].connTodo = {} /\ k \in plan[w].configTodo
      /\ plan'[w] = next /\ UNCHANGED <<pc, full, read, batch, shared>>
  BY Typed DEF LoadConnectionsOf, At, Plans, TypeOK, LocalsType
<1>2. plan[w].part = 2 /\ batch[w] = NoBatch /\ (full[w] => fullFlag)
      /\ connRows[w] = {} /\ syncRows[w] = {}
  BY <1>1, Typed DEF AttemptInv, LocalsMatchPC, Plan, InPart, PlanPCs, Loop, BatchPCs, Loaded
<1>3. /\ next.part = 2 /\ next.connTodo = ConnectionsOf(k) \cap LiveConnections
      /\ next.configTodo = plan[w].configTodo \ {k} /\ next.known = {k}
  BY <1>2, Typed DEF Plan
<1> HIDE DEF next
<1>4. UNCHANGED <<syncs, connChanges, configChanges, syncChanges, fullFlag, paused, schedules,
                  schedPaused, syncConfig, connRows, configRows, syncRows>>
  BY <1>1 DEF shared, tables, outbox, temporal, read
<1>5. \A s \in syncs : s[1] \in LiveConnections
  BY Typed, SyncParts DEF GlobalInv, SyncsAreLive, LiveConnections
<1>6. LocalsMatchPC(w)' /\ RowsAreThere(w)' /\ RemovalIsAnnounced(w)'
  BY <1>1, <1>2, <1>3, <1>4, Typed
  DEF AttemptInv, LocalsMatchPC, RowsAreThere, RemovalIsAnnounced, InPart, PlanPCs, Loop, BatchPCs,
      Loaded
<1>7. WorkHasRows(w)'
  BY <1>1, <1>2, <1>3, <1>4, Typed DEF AttemptInv, WorkHasRows, InPart, PlanPCs, Loop
<1>8. NothingForgotten(w)'
  <2> SUFFICES ASSUME NEW s \in syncs PROVE Remembered(w, s)'
    BY <1>4 DEF NothingForgotten
  <2>1. Remembered(w, s)
    BY <1>1, Typed DEF AttemptInv, NothingForgotten
  <2>2. ByConfig(s, plan[w].configTodo) => s[1] \in next.connTodo \/ ByConfig(s, next.configTodo)
    BY <1>3, <1>5 DEF ByConfig
  <2>3. InHand(w, s) => InHand(w, s)'
    BY <1>1, <1>4, <2>2 DEF InHand, ByConfig, LiveConfigs
  <2> QED
    BY <1>1, <1>4, <2>1, <2>3 DEF Remembered, Agrees, ByConfig, LiveConfigs
<1>9. CopyIsCurrent(w)' /\ BatchMatchesPC(w)'
  BY <1>1, <1>2, NoBatchIsFine DEF BatchPCs, Loaded
<1> QED
  BY <1>1, <1>6, <1>7, <1>8, <1>9, Typed, KeepGlobal DEF AttemptInv

LEMMA FinishPart2Keeps ==
  ASSUME IndInv, NEW w \in Attempts, FinishPart2(w)
  PROVE  GlobalInv' /\ AttemptInv(w)'
<1>1. /\ pc[w] = "create" /\ pc'[w] = "readSyncChanges" /\ plan'[w] = NoPlan
      /\ plan[w].part = 2 /\ plan[w].connTodo = {} /\ plan[w].configTodo = {}
      /\ configChanges' = configChanges \ configRows[w] /\ configRows'[w] = {}
      /\ UNCHANGED <<full, connRows, syncRows, batch, syncs, paused, issued, connection,
                     syncConfig, connChanges, syncChanges, fullFlag, schedules, schedPaused,
                     listed, dropListed, unannounced>>
  BY Typed DEF FinishPart2, At, Goto, Plans, TypeOK, LocalsType, tables, temporal, requests, history
<1>2. batch[w] = NoBatch /\ (full[w] => fullFlag) /\ connRows[w] = {} /\ syncRows[w] = {}
  BY <1>1, Typed DEF AttemptInv, LocalsMatchPC, InPart, PlanPCs, Loop, BatchPCs, Loaded
<1>3. \A s \in syncs : Agrees(s)' \/ HasWork(s)'
  BY <1>1, <1>2, Typed DEF AttemptInv, NothingForgotten, Remembered, InHand, Agrees, HasWork,
                           ByConfig, LiveConfigs
<1>4. GlobalInv'
  <2>1. IdsAreIssued' /\ SyncsAreLive' /\ ChangesAreKnown' /\ OrphansOnlyUnannounced'
    BY <1>1, Typed DEF GlobalInv, IdsAreIssued, Issued, SyncsAreLive, ChangesAreKnown,
                       OrphansOnlyUnannounced
  <2> QED
    BY <1>1, <1>3, <2>1 DEF GlobalInv, DriftIsCovered
<1>5. LocalsMatchPC(w)' /\ RowsAreThere(w)'
  BY <1>1, <1>2, Typed DEF AttemptInv, LocalsMatchPC, RowsAreThere, InPart, NoPlan, PlanPCs, Loop,
                           BatchPCs, Loaded
<1>6. NothingForgotten(w)'
  BY <1>1, <1>2, Typed DEF AttemptInv, NothingForgotten, Remembered, InHand, Agrees, ByConfig,
                           LiveConfigs, NoPlan
<1>7. WorkHasRows(w)' /\ RemovalIsAnnounced(w)' /\ CopyIsCurrent(w)' /\ BatchMatchesPC(w)'
  BY <1>1, <1>2, NoBatchIsFine, NoPlanIsFine DEF PlanPCs, Loop, BatchPCs, Loaded
<1> QED
  BY <1>4, <1>5, <1>6, <1>7 DEF AttemptInv

-----------------------------------------------------------------------------
(* Part 3: the attempt reads the SyncChanges, writes the schedules, deletes the rows. *)

(* What part 3 needs of the plan, and what it does not touch. *)
InPart3(w) ==
  /\ plan[w] = NoPlan /\ connRows[w] = {} /\ configRows[w] = {} /\ (full[w] => fullFlag)
  /\ pc[w] = "resetFull" => full[w]
Part3PCs == {"readSyncChanges", "resetFull"} \cup BatchPCs

LEMMA Part3Gives ==
  ASSUME IndInv, NEW w \in Attempts, pc[w] \in Part3PCs
  PROVE  InPart3(w)
  BY Typed DEF InPart3, Part3PCs, AttemptInv, LocalsMatchPC, InPart, PlanPCs, Loop, BatchPCs, Loaded

LEMMA Part3Locals ==
  ASSUME IndInv, NEW w \in Attempts, pc[w] \in Part3PCs, pc'[w] \in BatchPCs,
         UNCHANGED <<full, connRows, configRows, connChanges, configChanges, syncChanges, fullFlag>>,
         plan'[w] = plan[w], syncRows'[w] \subseteq syncChanges
  PROVE  (LocalsMatchPC(w) /\ RowsAreThere(w) /\ WorkHasRows(w) /\ RemovalIsAnnounced(w))'
<1>1. InPart3(w)
  BY Part3Gives
<1>2. pc'[w] \notin PlanPCs \cup {"idle", "resetFull", "remove"}
  BY DEF PlanPCs, Loop, BatchPCs, Loaded
<1>3. (LocalsMatchPC(w) /\ RowsAreThere(w))'
  BY <1>1, <1>2 DEF InPart3, LocalsMatchPC, RowsAreThere, InPart, NoPlan, PlanPCs, Loop
<1>4. (WorkHasRows(w) /\ RemovalIsAnnounced(w))'
  BY <1>1, <1>2 DEF WorkHasRows, RemovalIsAnnounced, InPart
<1> QED
  BY <1>3, <1>4

(* A step of part 3 that leaves the agreement of every sync, or its SyncChange, alone. *)
LEMMA Part3Remembers ==
  ASSUME IndInv, NEW w \in Attempts, pc[w] \in Part3PCs, pc'[w] \in BatchPCs,
         UNCHANGED <<full, connRows, configRows, connChanges, configChanges, syncChanges, fullFlag,
                     syncs, syncConfig>>,
         plan'[w] = plan[w],
         \A s \in syncs : Agrees(s) => Agrees(s)' \/ s \in syncChanges
  PROVE  NothingForgotten(w)'
<1> SUFFICES ASSUME NEW s \in syncs PROVE Remembered(w, s)'
  BY DEF NothingForgotten
<1>1. Remembered(w, s) /\ InPart3(w)
  BY Typed, Part3Gives DEF AttemptInv, NothingForgotten, Part3PCs, BatchPCs, Loaded
<1>2. ~InHand(w, s) /\ pc[w] \notin {"readConnChanges", "loadConnections"}
  BY <1>1 DEF InHand, InPart3, NoPlan, ByConfig, Part3PCs, BatchPCs, Loaded
<1> QED
  BY <1>1, <1>2 DEF Remembered, ByConfig, LiveConfigs

LEMMA ReadSyncChangesKeeps ==
  ASSUME IndInv, NEW w \in Attempts, ReadSyncChanges(w)
  PROVE  GlobalInv' /\ AttemptInv(w)'
<1> DEFINE next == [batch[w] EXCEPT !.todo = syncChanges]
<1>1. /\ pc[w] = "readSyncChanges" /\ pc'[w] = "loadSyncs" /\ syncRows'[w] = syncChanges
      /\ batch'[w] = next /\ UNCHANGED <<full, connRows, configRows, plan, shared>>
  BY Typed DEF ReadSyncChanges, At, Goto, Batches, TypeOK, LocalsType
<1>2. batch[w] = NoBatch
  BY <1>1, Typed DEF AttemptInv, LocalsMatchPC, BatchPCs, Loaded
<1>3. next.todo = syncChanges /\ next.doomed = {}
  BY <1>2 DEF NoBatch
<1> HIDE DEF next
<1>4. UNCHANGED <<syncs, connChanges, configChanges, syncChanges, fullFlag, paused, schedules,
                  schedPaused, syncConfig, issued>>
  BY <1>1 DEF shared, tables, outbox, temporal
<1>5. pc[w] \in Part3PCs /\ pc'[w] \in BatchPCs
  BY <1>1 DEF Part3PCs, BatchPCs
<1>6. LocalsMatchPC(w)' /\ RowsAreThere(w)' /\ WorkHasRows(w)' /\ RemovalIsAnnounced(w)'
  BY <1>1, <1>4, <1>5, Part3Locals
<1>7. NothingForgotten(w)'
  BY <1>1, <1>4, <1>5, Part3Remembers DEF Agrees
<1>8. CopyIsCurrent(w)' /\ BatchMatchesPC(w)'
  BY <1>1, <1>3, <1>4, Typed DEF GlobalInv, IdsAreIssued, Issued, CopyIsCurrent, BatchMatchesPC,
                                 Loaded
<1> QED
  BY <1>1, <1>6, <1>7, <1>8, Typed, KeepGlobal DEF AttemptInv

LEMMA LoadSyncsKeeps ==
  ASSUME IndInv, NEW w \in Attempts, LoadSyncs(w)
  PROVE  GlobalInv' /\ AttemptInv(w)'
<1> DEFINE found == IF full[w] THEN syncs ELSE batch[w].todo \cap syncs
           next == [todo |-> found, doomed |-> batch[w].todo \ syncs,
                    wantPaused |-> paused \cap found, cur |-> {}]
<1>1. /\ pc[w] = "loadSyncs" /\ pc'[w] = "pauseDoomed"
      /\ batch'[w] = next /\ UNCHANGED <<full, connRows, configRows, syncRows, plan, shared>>
  BY Typed DEF LoadSyncs, At, Goto, Batches, read, TypeOK, LocalsType
<1>2. /\ syncRows[w] \subseteq batch[w].todo /\ syncRows[w] \subseteq syncChanges
      /\ \A s \in batch[w].todo : Issued(s)
  BY <1>1, Typed DEF AttemptInv, RowsAreThere, BatchMatchesPC
<1>3. /\ next.todo = found /\ next.doomed = batch[w].todo \ syncs
      /\ next.wantPaused = paused \cap found
  OBVIOUS
<1> HIDE DEF next
<1>4. UNCHANGED <<syncs, connChanges, configChanges, syncChanges, fullFlag, paused, schedules,
                  schedPaused, syncConfig, issued>>
  BY <1>1 DEF shared, tables, outbox, temporal
<1>5. pc[w] \in Part3PCs /\ pc'[w] \in BatchPCs
  BY <1>1 DEF Part3PCs, BatchPCs, Loaded
<1>6. LocalsMatchPC(w)' /\ RowsAreThere(w)' /\ WorkHasRows(w)' /\ RemovalIsAnnounced(w)'
  BY <1>1, <1>2, <1>4, <1>5, Part3Locals
<1>7. NothingForgotten(w)'
  BY <1>1, <1>4, <1>5, Part3Remembers DEF Agrees
<1>8. CopyIsCurrent(w)'
  BY <1>1, <1>2, <1>3, <1>4 DEF CopyIsCurrent, Unread
<1>9. BatchMatchesPC(w)'
  BY <1>1, <1>2, <1>3, <1>4, Typed DEF GlobalInv, IdsAreIssued, Issued, BatchMatchesPC
<1> QED
  BY <1>1, <1>6, <1>7, <1>8, <1>9, Typed, KeepGlobal DEF AttemptInv

LEMMA PauseDoomedKeeps ==
  ASSUME IndInv, NEW w \in Attempts, PauseDoomed(w)
  PROVE  GlobalInv' /\ AttemptInv(w)'
<1>1. /\ pc[w] = "pauseDoomed" /\ pc'[w] = "deleteDoomed"
      /\ schedPaused' = schedPaused \cup (batch[w].doomed \cap schedules)
      /\ UNCHANGED <<full, connRows, configRows, syncRows, plan, batch, connection, syncs, paused,
                     issued, connChanges, configChanges, syncChanges, fullFlag, schedules,
                     syncConfig, listed, dropListed, unannounced>>
  BY Typed DEF PauseDoomed, At, Goto, read, TypeOK, LocalsType, tables, outbox, requests, history
<1>2. \A s \in syncs : Agrees(s)' <=> Agrees(s)
  BY <1>1, Typed DEF AttemptInv, BatchMatchesPC, Agrees
<1>3. GlobalInv'
  <2>1. IdsAreIssued' /\ SyncsAreLive' /\ ChangesAreKnown' /\ OrphansOnlyUnannounced'
    BY <1>1, Typed DEF GlobalInv, IdsAreIssued, Issued, SyncsAreLive, ChangesAreKnown,
                       OrphansOnlyUnannounced
  <2>2. DriftIsCovered'
    BY <1>1, <1>2, Typed DEF GlobalInv, DriftIsCovered, HasWork, ByConfig, LiveConfigs
  <2> QED
    BY <2>1, <2>2 DEF GlobalInv
<1>4. pc[w] \in Part3PCs /\ pc'[w] \in BatchPCs
  BY <1>1 DEF Part3PCs, BatchPCs, Loaded
<1>5. LocalsMatchPC(w)' /\ RowsAreThere(w)' /\ WorkHasRows(w)' /\ RemovalIsAnnounced(w)'
  BY <1>1, <1>4, Part3Locals, Typed DEF AttemptInv, RowsAreThere
<1>6. NothingForgotten(w)'
  BY <1>1, <1>2, <1>4, Part3Remembers
<1>7. CopyIsCurrent(w)' /\ BatchMatchesPC(w)'
  BY <1>1, <1>2, Typed DEF AttemptInv, CopyIsCurrent, BatchMatchesPC, Unread, Issued, Loaded
<1> QED
  BY <1>3, <1>5, <1>6, <1>7 DEF AttemptInv

LEMMA DeleteDoomedKeeps ==
  ASSUME IndInv, NEW w \in Attempts, DeleteDoomed(w)
  PROVE  GlobalInv' /\ AttemptInv(w)'
<1> DEFINE next == [batch[w] EXCEPT !.doomed = {}]
<1>1. /\ pc[w] = "deleteDoomed" /\ pc'[w] = "upsert" /\ batch'[w] = next
      /\ schedules' = schedules \ batch[w].doomed
      /\ schedPaused' = schedPaused \ batch[w].doomed
      /\ UNCHANGED <<full, connRows, configRows, syncRows, plan, connection, syncs, paused,
                     issued, connChanges, configChanges, syncChanges, fullFlag,
                     syncConfig, listed, dropListed, unannounced>>
  BY Typed DEF DeleteDoomed, At, Goto, Batches, read, TypeOK, LocalsType, tables, outbox, requests,
               history
<1>2. next.todo = batch[w].todo /\ next.doomed = {} /\ next.wantPaused = batch[w].wantPaused
  BY Typed DEF Batch
<1> HIDE DEF next
<1>3. \A s \in syncs : Agrees(s)' <=> Agrees(s)
  BY <1>1, Typed DEF AttemptInv, BatchMatchesPC, Agrees
<1>4. GlobalInv'
  <2>1. IdsAreIssued' /\ SyncsAreLive' /\ ChangesAreKnown' /\ OrphansOnlyUnannounced'
    BY <1>1, Typed DEF GlobalInv, IdsAreIssued, Issued, SyncsAreLive, ChangesAreKnown,
                       OrphansOnlyUnannounced
  <2>2. DriftIsCovered'
    BY <1>1, <1>3, Typed DEF GlobalInv, DriftIsCovered, HasWork, ByConfig, LiveConfigs
  <2> QED
    BY <2>1, <2>2 DEF GlobalInv
<1>5. pc[w] \in Part3PCs /\ pc'[w] \in BatchPCs
  BY <1>1 DEF Part3PCs, BatchPCs, Loaded
<1>6. LocalsMatchPC(w)' /\ RowsAreThere(w)' /\ WorkHasRows(w)' /\ RemovalIsAnnounced(w)'
  BY <1>1, <1>5, Part3Locals, Typed DEF AttemptInv, RowsAreThere
<1>7. NothingForgotten(w)'
  BY <1>1, <1>3, <1>5, Part3Remembers
<1>8. CopyIsCurrent(w)' /\ BatchMatchesPC(w)'
  BY <1>1, <1>2, <1>3, Typed DEF AttemptInv, CopyIsCurrent, BatchMatchesPC, Unread, Issued, Loaded
<1> QED
  BY <1>4, <1>6, <1>7, <1>8 DEF AttemptInv

LEMMA UpdateStrategyKeeps ==
  ASSUME IndInv, NEW w \in Attempts, NEW s \in batch[w].todo, UpdateStrategy(w, s)
  PROVE  GlobalInv' /\ AttemptInv(w)'
<1> DEFINE next == [batch[w] EXCEPT !.cur = {s}]
<1>1. /\ pc[w] = "upsert" /\ pc'[w] = "schedule" /\ batch'[w] = next /\ s \in syncs
      /\ UNCHANGED <<full, connRows, configRows, syncRows, plan, shared>>
  BY Typed DEF UpdateStrategy, At, Goto, Batches, read, TypeOK, LocalsType
<1>2. /\ next.todo = batch[w].todo /\ next.doomed = batch[w].doomed
      /\ next.wantPaused = batch[w].wantPaused /\ next.cur = {s}
  BY Typed DEF Batch
<1> HIDE DEF next
<1>3. UNCHANGED <<syncs, connChanges, configChanges, syncChanges, fullFlag, paused, schedules,
                  schedPaused, syncConfig, issued, unannounced>>
  BY <1>1 DEF shared, tables, outbox, temporal, history
<1>4. pc[w] \in Part3PCs /\ pc'[w] \in BatchPCs
  BY <1>1 DEF Part3PCs, BatchPCs, Loaded
<1>5. LocalsMatchPC(w)' /\ RowsAreThere(w)' /\ WorkHasRows(w)' /\ RemovalIsAnnounced(w)'
  BY <1>1, <1>3, <1>4, Part3Locals, Typed DEF AttemptInv, RowsAreThere
<1>6. NothingForgotten(w)'
  BY <1>1, <1>3, <1>4, Part3Remembers DEF Agrees
<1>7. CopyIsCurrent(w)' /\ BatchMatchesPC(w)'
  BY <1>1, <1>2, <1>3, Typed DEF AttemptInv, CopyIsCurrent, BatchMatchesPC, Unread, Issued, Agrees,
                                 Loaded
<1> QED
  BY <1>1, <1>5, <1>6, <1>7, Typed, KeepGlobal DEF AttemptInv

LEMMA UpsertScheduleKeeps ==
  ASSUME IndInv, NEW w \in Attempts, UpsertSchedule(w)
  PROVE  GlobalInv' /\ AttemptInv(w)'
<1> DEFINE cur == batch[w].cur
           next == [batch[w] EXCEPT !.todo = @ \ cur, !.cur = {}]
<1>1. /\ pc[w] = "schedule" /\ pc'[w] = "upsert" /\ batch'[w] = next
      /\ schedules' = schedules \cup cur
      /\ schedPaused' = (schedPaused \ cur) \cup (cur \cap batch[w].wantPaused)
      /\ UNCHANGED <<full, connRows, configRows, syncRows, plan, connection, syncs, paused,
                     issued, connChanges, configChanges, syncChanges, fullFlag,
                     syncConfig, listed, dropListed, unannounced>>
  BY Typed DEF UpsertSchedule, At, Goto, Batches, read, TypeOK, LocalsType, tables, outbox,
               requests, history
<1>2. /\ cur \subseteq batch[w].todo /\ batch[w].doomed = {}
      /\ \A s \in cur : s \in syncs \/ s \in unannounced \/ Unread(w, s)
  BY <1>1, Typed DEF AttemptInv, BatchMatchesPC
<1>3. next.todo = batch[w].todo \ cur /\ next.doomed = {} /\ next.wantPaused = batch[w].wantPaused
  BY <1>2, Typed DEF Batch
<1> HIDE DEF next
(* What the copy says is what the row says, or a SyncChange is left that is not read. *)
<1>4. \A s \in syncs : s \in cur => Agrees(s)' \/ Unread(w, s)
  BY <1>1, <1>2, Typed DEF AttemptInv, CopyIsCurrent, Loaded, Agrees
<1>5. \A s \in syncs : s \notin cur => (Agrees(s)' <=> Agrees(s))
  BY <1>1 DEF Agrees
<1>6. GlobalInv'
  <2>1. IdsAreIssued' /\ SyncsAreLive' /\ ChangesAreKnown'
    BY <1>1, Typed DEF GlobalInv, IdsAreIssued, Issued, SyncsAreLive, ChangesAreKnown
  <2>2. OrphansOnlyUnannounced'
    BY <1>1, <1>2, Typed DEF GlobalInv, OrphansOnlyUnannounced, Unread
  <2>3. DriftIsCovered'
    BY <1>1, <1>4, <1>5, Typed DEF GlobalInv, DriftIsCovered, HasWork, ByConfig, LiveConfigs, Unread
  <2> QED
    BY <2>1, <2>2, <2>3 DEF GlobalInv
<1>7. pc[w] \in Part3PCs /\ pc'[w] \in BatchPCs
  BY <1>1 DEF Part3PCs, BatchPCs, Loaded
<1>8. LocalsMatchPC(w)' /\ RowsAreThere(w)' /\ WorkHasRows(w)' /\ RemovalIsAnnounced(w)'
  BY <1>1, <1>7, Part3Locals, Typed DEF AttemptInv, RowsAreThere
<1>9. NothingForgotten(w)'
  BY <1>1, <1>4, <1>5, <1>7, Part3Remembers DEF Unread
<1>10. CopyIsCurrent(w)'
  <2>1. \A s \in syncs \cap next.todo : (s \in paused <=> s \in batch[w].wantPaused) \/ Unread(w, s)
    BY <1>1, <1>3, Typed DEF AttemptInv, CopyIsCurrent, Loaded
  <2>2. \A s \in syncs \cap syncRows[w] : s \in next.todo \/ Agrees(s)'
    BY <1>1, <1>3, <1>4, <1>5, Typed DEF AttemptInv, CopyIsCurrent, Loaded, Unread
  <2>3. \A s \in syncRows[w] \cap schedules' : s \in syncs \/ s \in unannounced
    BY <1>1, <1>2, Typed DEF AttemptInv, CopyIsCurrent, Loaded, Unread
  <2> QED
    BY <1>1, <1>3, <2>1, <2>2, <2>3 DEF CopyIsCurrent, Unread
<1>11. BatchMatchesPC(w)'
  BY <1>1, <1>3, Typed DEF AttemptInv, BatchMatchesPC, Issued
<1> QED
  BY <1>6, <1>8, <1>9, <1>10, <1>11 DEF AttemptInv

(* Every schedule is as its sync wants it, so the SyncChanges that were read can go. *)
LEMMA FinishPart3Keeps ==
  ASSUME IndInv, NEW w \in Attempts, FinishPart3(w)
  PROVE  /\ GlobalInv' /\ AttemptInv(w)'
         /\ \A s \in syncRows[w] : /\ s \in syncs => Agrees(s)
                                   /\ s \in schedules => s \in syncs \/ s \in unannounced
<1>1. /\ pc[w] = "upsert" /\ batch[w].todo = {} /\ batch'[w] = NoBatch
      /\ pc'[w] = IF full[w] THEN "resetFull" ELSE "idle"
      /\ syncChanges' = syncChanges \ syncRows[w] /\ syncRows'[w] = {}
      /\ UNCHANGED <<full, connRows, configRows, plan, connection, syncs, paused, issued,
                     connChanges, configChanges, fullFlag, schedules, schedPaused,
                     syncConfig, listed, dropListed, unannounced>>
  BY Typed DEF FinishPart3, At, Goto, Batches, TypeOK, LocalsType, tables, temporal, requests,
               history
<1>2. InPart3(w)
  BY <1>1, Part3Gives DEF Part3PCs, BatchPCs, Loaded
<1>3. \A s \in syncRows[w] : /\ s \in syncs => Agrees(s)
                             /\ s \in schedules => s \in syncs \/ s \in unannounced
  BY <1>1, Typed DEF AttemptInv, CopyIsCurrent, BatchMatchesPC, Loaded
<1>4. \A s \in syncs : Agrees(s) \/ s \in syncChanges' \/ s[1] \in connChanges
                                 \/ ByConfig(s, configChanges) \/ (fullFlag /\ ~full[w])
  BY <1>1, <1>2, <1>3, Typed DEF AttemptInv, NothingForgotten, Remembered, InHand, InPart3, NoPlan,
                                 ByConfig
<1>5. GlobalInv'
  <2>1. IdsAreIssued' /\ SyncsAreLive' /\ ChangesAreKnown'
    BY <1>1, Typed DEF GlobalInv, IdsAreIssued, Issued, SyncsAreLive, ChangesAreKnown
  <2>2. DriftIsCovered'
    BY <1>1, <1>4 DEF DriftIsCovered, HasWork, Agrees, ByConfig, LiveConfigs
  <2>3. OrphansOnlyUnannounced'
    BY <1>1, <1>3, Typed DEF GlobalInv, OrphansOnlyUnannounced
  <2> QED
    BY <2>1, <2>2, <2>3 DEF GlobalInv
<1>6. LocalsMatchPC(w)' /\ RowsAreThere(w)'
  BY <1>1, <1>2 DEF InPart3, LocalsMatchPC, RowsAreThere, InPart, NoPlan, PlanPCs, Loop, BatchPCs,
                    Loaded
<1>7. NothingForgotten(w)'
  BY <1>1, <1>2, <1>4 DEF InPart3, NothingForgotten, Remembered, Agrees, ByConfig, LiveConfigs
<1>8. WorkHasRows(w)' /\ RemovalIsAnnounced(w)' /\ CopyIsCurrent(w)' /\ BatchMatchesPC(w)'
  BY <1>1, <1>2, NoBatchIsFine, NoPlanIsFine DEF InPart3, PlanPCs, Loop, BatchPCs, Loaded
<1> QED
  BY <1>3, <1>5, <1>6, <1>7, <1>8 DEF AttemptInv

LEMMA ResetFullKeeps ==
  ASSUME IndInv, NEW w \in Attempts, ResetFull(w)
  PROVE  GlobalInv' /\ AttemptInv(w)'
<1>1. /\ pc[w] = "resetFull" /\ Clear(w)
      /\ UNCHANGED <<connection, syncs, paused, issued, connChanges, configChanges, syncChanges,
                     schedules, schedPaused, syncConfig, listed, dropListed, unannounced>>
  BY DEF ResetFull, At, tables, temporal, requests, history
<1>2. InPart3(w)
  BY <1>1, Part3Gives DEF Part3PCs
(* A full run has looked at everything: without the flag, nothing is forgotten. *)
<1>3. \A s \in syncs : Agrees(s) \/ s \in syncChanges \/ s[1] \in connChanges
                                 \/ ByConfig(s, configChanges)
  BY <1>1, <1>2, Typed DEF AttemptInv, NothingForgotten, Remembered, InHand, InPart3, NoPlan,
                           ByConfig
<1>4. GlobalInv'
  <2>1. IdsAreIssued' /\ SyncsAreLive' /\ ChangesAreKnown' /\ OrphansOnlyUnannounced'
    BY <1>1, Typed DEF GlobalInv, IdsAreIssued, Issued, SyncsAreLive, ChangesAreKnown,
                       OrphansOnlyUnannounced
  <2>2. DriftIsCovered'
    BY <1>1, <1>3 DEF DriftIsCovered, HasWork, Agrees, ByConfig, LiveConfigs
  <2> QED
    BY <2>1, <2>2 DEF GlobalInv
<1> QED
  BY <1>1, <1>4, Typed, ClearGives

LEMMA FailureKeeps ==
  ASSUME IndInv, NEW w \in Attempts, Throw(w) \/ Crash(w)
  PROVE  GlobalInv' /\ AttemptInv(w)'
<1>1. Clear(w) /\ UNCHANGED <<tables, outbox, temporal, requests, history>>
  BY DEF Throw, Crash, shared
<1> QED
  BY <1>1, Typed, ClearGives, SameGlobal DEF tables, outbox, temporal, requests, history

LEMMA AttemptKeepsInvariant ==
  ASSUME Overlap = FALSE, IndInv, NEW w \in Attempts, AttemptNext(w) \/ Crash(w)
  PROVE  IndInv'
<1>1. GlobalInv' /\ AttemptInv(w)'
  BY StartKeeps, ReadConnChangesKeeps, LoadConnectionsKeeps, LoadConfigsKeeps, CreateSyncsKeeps,
     InsertSyncChangesKeeps, RemoveSyncsKeeps, FinishPart1Keeps, ReadConfigChangesKeeps,
     LoadChangedConfigsKeeps, LoadConnectionsOfKeeps, FinishPart2Keeps, ReadSyncChangesKeeps,
     LoadSyncsKeeps, PauseDoomedKeeps, DeleteDoomedKeeps, UpdateStrategyKeeps, UpsertScheduleKeeps,
     FinishPart3Keeps, ResetFullKeeps, FailureKeeps DEF AttemptNext
<1>2. TypeOK' /\ Rest(w)
  BY Typed, RestRests, StepType DEF Next
<1>3. \A v \in Attempts \ {w} : At(v, "idle")
  <2>1. CASE Start(w)
    BY <2>1 DEF Start
  <2>2. CASE ~At(w, "idle")
    BY <2>2 DEF IndInv, Alone
  <2>3. ~Start(w) => ~At(w, "idle")
    BY DEF AttemptNext, Crash, ReadConnChanges, LoadConnections, LoadConfigs, CreateSyncs,
           InsertSyncChanges, RemoveSyncs, FinishPart1, ReadConfigChanges, LoadChangedConfigs,
           LoadConnectionsOf, FinishPart2, ReadSyncChanges, LoadSyncs, PauseDoomed, DeleteDoomed,
           UpdateStrategy, UpsertSchedule, FinishPart3, ResetFull, Throw, At
  <2> QED
    BY <2>1, <2>2, <2>3
<1> QED
  BY <1>1, <1>2, <1>3, RestStaysIdle

-----------------------------------------------------------------------------
LEMMA InitInvariant == Init => IndInv
<1> SUFFICES ASSUME Init PROVE IndInv
  OBVIOUS
<1>1. TypeOK
  BY InitType
<1>2. Alone /\ \A w \in Attempts : Idle(w)
  BY DEF Init, Alone, At, Idle
<1>3. IdsAreIssued /\ SyncsAreLive /\ ChangesAreKnown /\ DriftIsCovered /\ OrphansOnlyUnannounced
  BY DEF Init, IdsAreIssued, SyncsAreLive, ChangesAreKnown, DriftIsCovered, OrphansOnlyUnannounced
<1> QED
  BY <1>1, <1>2, <1>3, IdleIsFineNow DEF IndInv, GlobalInv

LEMMA StutterKeepsInvariant == IndInv /\ UNCHANGED vars => IndInv'
<1> SUFFICES ASSUME IndInv, UNCHANGED vars PROVE IndInv'
  OBVIOUS
<1>1. UNCHANGED shared /\ UNCHANGED locals
  BY DEF vars
<1>2. GlobalInv' /\ TypeOK'
  BY <1>1, KeepGlobal, KeepShared, KeepLocals DEF IndInv, TypeOK
<1>3. ApiStep
  BY <1>1, <1>2, QuietStep DEF IndInv, GlobalInv, shared, tables, outbox, temporal, history
<1>4. \A w \in Attempts : AttemptInv(w)'
  BY <1>2, <1>3, ApiKeepsAttempt DEF IndInv
<1> QED
  BY <1>1, <1>2, <1>4 DEF IndInv, Alone, At, locals, control

LEMMA StepKeepsInvariant == Overlap = FALSE /\ IndInv /\ [Next]_vars => IndInv'
  BY ApiKeepsInvariant, AttemptKeepsInvariant, StutterKeepsInvariant DEF Next

(* IndInv holds of every reachable state when attempts do not overlap. *)
THEOREM InvariantHolds == Overlap = FALSE => (Spec => []IndInv)
<1> SUFFICES ASSUME Overlap = FALSE PROVE Spec => []IndInv
  OBVIOUS
<1>1. IndInv /\ [Next]_vars => IndInv'
  BY StepKeepsInvariant
<1> QED
  BY <1>1, InitInvariant, PTL DEF Spec

(* A live sync that disagrees with Temporal always has a change row, or the flag, left  *)
(* that will bring an attempt to it: no crash, retry, pause or deletion makes the       *)
(* activity forget a sync, as long as no attempt outlives its timeout.                  *)
THEOREM DriftStaysPending == Overlap = FALSE => (Spec => []DriftIsPending)
<1>1. IndInv => DriftIsPending
  BY DEF IndInv, GlobalInv, DriftIsCovered, DriftIsPending, HasWork, Covered, ByConfig
<1> SUFFICES ASSUME Overlap = FALSE PROVE Spec => []DriftIsPending
  OBVIOUS
<1>2. Spec => []IndInv
  BY InvariantHolds
<1> QED
  BY <1>1, <1>2, PTL

(* A schedule without a sync has a SyncChange left to delete it by, but for the syncs   *)
(* that a foreign key removed without a SyncChange.                                     *)
THEOREM OrphansStayNamed == Overlap = FALSE => (Spec => []OrphansOnlyUnannounced)
<1>1. IndInv => OrphansOnlyUnannounced
  BY DEF IndInv, GlobalInv
<1> SUFFICES ASSUME Overlap = FALSE PROVE Spec => []OrphansOnlyUnannounced
  OBVIOUS
<1>2. Spec => []IndInv
  BY InvariantHolds
<1> QED
  BY <1>1, <1>2, PTL

-----------------------------------------------------------------------------
(* Only the end of part 3 deletes SyncChanges. *)

Acknowledged ==
  \A s \in syncChanges \ syncChanges' :
    /\ s \in syncs => Agrees(s)
    /\ s \in schedules => s \in syncs \/ s \in unannounced

LEMMA StepAcknowledges == IndInv /\ [Next]_vars => [Acknowledged]_vars
<1> SUFFICES ASSUME IndInv, Next PROVE Acknowledged
  OBVIOUS
<1>1. CASE ApiNext
  BY <1>1, ApiContract DEF IndInv, ApiStep, RowsGrow, Acknowledged
<1>2. ASSUME NEW w \in Attempts, FinishPart3(w) PROVE Acknowledged
  BY <1>2, FinishPart3Keeps DEF FinishPart3, Acknowledged
<1>3. ASSUME NEW w \in Attempts, AttemptNext(w) \/ Crash(w), ~FinishPart3(w)
      PROVE  syncChanges \subseteq syncChanges'
  BY <1>3 DEF AttemptNext, Crash, Start, ReadConnChanges, LoadConnections, LoadConfigs, CreateSyncs,
              InsertSyncChanges, AddChanges, RemoveSyncs, FinishPart1, ReadConfigChanges,
              LoadChangedConfigs, LoadConnectionsOf, FinishPart2, ReadSyncChanges, LoadSyncs,
              PauseDoomed, DeleteDoomed, UpdateStrategy, UpsertSchedule, ResetFull, Throw,
              shared, outbox
<1> QED
  BY <1>1, <1>2, <1>3 DEF Next, Acknowledged

(* A SyncChange disappears only when Temporal shows what the row said at that time. *)
THEOREM AcksAreApplied == Overlap = FALSE => (Spec => AckMeansApplied)
<1> SUFFICES ASSUME Overlap = FALSE PROVE Spec => AckMeansApplied
  OBVIOUS
<1>1. Spec => []IndInv
  BY InvariantHolds
<1>2. IndInv /\ [Next]_vars => [Acknowledged]_vars
  BY StepAcknowledges
<1>3. Spec => [][Acknowledged]_vars
  BY <1>1, <1>2, PTL DEF Spec
<1> QED
  BY <1>3 DEF AckMeansApplied, Acknowledged

-----------------------------------------------------------------------------
(* One sync for each connection and object: this needs no bound on the attempts. *)

OnlyLive == SyncsAreLive /\ OneSyncPerObject

(* Syncs are added for objects the connection has no sync of. *)
LEMMA NewAreDistinct ==
  ASSUME OneSyncPerObject, NEW c, NEW objs,
         syncs' = syncs \cup {NewSync(c, o) : o \in objs},
         \A s \in syncs : s[1] = c => s[2] \notin objs
  PROVE  OneSyncPerObject' /\ \A s \in syncs' : s \in syncs \/ (s[1] = c /\ objs # {})
<1> DEFINE new == {NewSync(c, o) : o \in objs}
<1>1. \A s \in new : s[1] = c /\ s[2] \in objs
  BY DEF NewSync
<1>2. \A s, t \in new : s[2] = t[2] => s = t
  BY DEF NewSync
<1> QED
  BY <1>1, <1>2 DEF OneSyncPerObject

LEMMA CreationKeepsOne ==
  ASSUME TypeOK, OnlyLive, NEW c \in Connections,
         \/ \E autoStart \in BOOLEAN : CommitCreateConnection(c, autoStart)
         \/ \E w \in Attempts : CreateSyncs(w, c)
  PROVE  OnlyLive'
<1>0. connection \in [Connections -> Life]
  BY DEF TypeOK, TablesType
<1>1. ASSUME NEW autoStart \in BOOLEAN, CommitCreateConnection(c, autoStart) PROVE OnlyLive'
  <2>1. /\ syncs' = syncs \cup {NewSync(c, o) : o \in birth[c].objects}
        /\ connection[c] = "creating" /\ connection' = [connection EXCEPT ![c] = "live"]
    BY <1>1 DEF CommitCreateConnection
  <2>2. \A s \in syncs : s[1] # c
    BY <2>1 DEF OnlyLive, SyncsAreLive
  <2> QED
    BY <1>0, <2>1, <2>2, NewAreDistinct, SyncParts DEF OnlyLive, SyncsAreLive
<1>2. ASSUME NEW w \in Attempts, CreateSyncs(w, c) PROVE OnlyLive'
  <2>1. /\ syncs' = syncs \cup {NewSync(c, o) : o \in Missing(w, c)}
        /\ (Missing(w, c) # {} => connection[c] = "live") /\ connection' = connection
    BY <1>2 DEF CreateSyncs, CanCreate
  <2>2. \A s \in syncs : s[1] = c => s[2] \notin Missing(w, c)
    BY DEF Missing, SyncsOf
  <2> QED
    BY <2>1, <2>2, NewAreDistinct DEF OnlyLive, SyncsAreLive
<1> QED
  BY <1>1, <1>2

LEMMA RemovalKeepsOne ==
  ASSUME TypeOK, OnlyLive, syncs' \subseteq syncs,
         \A s \in syncs' : connection'[s[1]] = connection[s[1]]
  PROVE  OnlyLive'
  BY DEF OnlyLive, SyncsAreLive, OneSyncPerObject

LEMMA StepKeepsOne == TypeOK /\ OnlyLive /\ [Next]_vars => OnlyLive'
<1> SUFFICES ASSUME TypeOK, OnlyLive, [Next]_vars PROVE OnlyLive'
  OBVIOUS
<1>0. connection \in [Connections -> Life] /\ \A s \in syncs : s[1] \in Connections
  BY SyncParts DEF TypeOK, TablesType
<1>1. ASSUME syncs' \subseteq syncs, UNCHANGED connection PROVE OnlyLive'
  BY <1>1, RemovalKeepsOne
<1>2. ASSUME NEW c \in Connections, BeginCreateConnection(c) \/ AbortCreateConnection(c)
      PROVE  OnlyLive'
  BY <1>0, <1>2, RemovalKeepsOne DEF BeginCreateConnection, AbortCreateConnection, OnlyLive,
                                     SyncsAreLive
<1>3. ASSUME NEW c \in Connections, CommitDeleteConnection(c) PROVE OnlyLive'
  BY <1>0, <1>3, RemovalKeepsOne DEF CommitDeleteConnection, DropSyncs, SyncsOf
<1>4. ASSUME NEW C \in SUBSET Connections, DeleteCustomer(C) PROVE OnlyLive'
  BY <1>0, <1>4, RemovalKeepsOne DEF DeleteCustomer, DropSyncs
<1>5. CASE \/ \E c \in Connections : \/ BeginDeleteConnection(c) \/ AbortDeleteConnection(c)
                                     \/ \E objs \in Listings : SetConnectionSyncConfig(c, objs)
           \/ \E s \in syncs, pausedState \in BOOLEAN : SetPaused(s, pausedState)
           \/ \E e \in Entities : DeleteEntity(e)
           \/ RequestFullRun
  BY <1>1, <1>5 DEF BeginDeleteConnection, AbortDeleteConnection, SetConnectionSyncConfig, SetPaused,
                    DeleteEntity, RequestFullRun, DropSyncs, tables
<1>6. CASE \E k \in SyncConfigs :
             \/ \E objs \in Listings, autoStart \in BOOLEAN :
                  CreateSyncConfig(k, objs, autoStart) \/ UpdateSyncConfig(k, objs, autoStart)
             \/ \E o \in Objects : AddObject(k, o)
             \/ BeginDeleteSyncConfig(k) \/ CommitDeleteSyncConfig(k) \/ AbortDeleteSyncConfig(k)
  BY <1>1, <1>6 DEF CreateSyncConfig, UpdateSyncConfig, AddObject, BeginDeleteSyncConfig,
                    CommitDeleteSyncConfig, AbortDeleteSyncConfig, DropSyncs, tables
<1>7. CASE ApiNext
  BY <1>2, <1>3, <1>4, <1>5, <1>6, <1>7, CreationKeepsOne DEF ApiNext
<1>8. ASSUME NEW w \in Attempts, AttemptNext(w) \/ Crash(w),
             ~ \E c \in Connections : CreateSyncs(w, c)
      PROVE  syncs' \subseteq syncs /\ UNCHANGED connection
  BY <1>8 DEF AttemptNext, Crash, Start, ReadConnChanges, LoadConnections, LoadConfigs,
              InsertSyncChanges, RemoveSyncs, DropSyncs, FinishPart1, ReadConfigChanges,
              LoadChangedConfigs, LoadConnectionsOf, FinishPart2, ReadSyncChanges, LoadSyncs,
              PauseDoomed, DeleteDoomed, UpdateStrategy, UpsertSchedule, FinishPart3, ResetFull,
              Throw, shared, tables
<1>9. CASE UNCHANGED vars
  BY <1>1, <1>9 DEF vars, shared, tables
<1> QED
  BY <1>1, <1>7, <1>8, <1>9, CreationKeepsOne DEF Next

(* No two syncs for one connection and object, whatever is created, retried or raced,  *)
(* attempts that overlap included.                                                     *)
THEOREM SyncsAreUnique == Spec => []OneSyncPerObject
<1>1. Init => OnlyLive
  BY DEF Init, OnlyLive, SyncsAreLive, OneSyncPerObject
<1>2. OnlyLive => OneSyncPerObject
  BY DEF OnlyLive
<1> QED
  BY <1>1, <1>2, StepKeepsOne, TypeCorrect, PTL DEF Spec

-----------------------------------------------------------------------------
(* The refinement: initial states map to initial states of ScheduleMirror, every step to *)
(* a step of the mirror or to a stutter.                                                  *)

(* The inductive invariant is what the mirror owes in each state. *)
LEMMA InvariantAccounts == IndInv => Mirror!Accounted
<1> SUFFICES ASSUME IndInv PROVE Mirror!Accounted
  OBVIOUS
<1>1. \A s \in syncs : Agrees(s) \/ s \in Behind
  BY DEF IndInv, GlobalInv, DriftIsCovered, HasWork, ByConfig, Behind, Covered
<1>2. \A s \in schedules : s \in syncs \/ s \in Behind \/ s \in unannounced
  BY DEF IndInv, GlobalInv, OrphansOnlyUnannounced, Behind
<1> QED
  BY <1>1, <1>2 DEF Mirror!Accounted, Mirror!InStep, Agrees

LEMMA InvariantAccountsLater == IndInv' => Mirror!Accounted'
<1> SUFFICES ASSUME IndInv' PROVE Mirror!Accounted'
  OBVIOUS
<1>1. \A s \in syncs' : Agrees(s)' \/ s \in Behind'
  BY DEF IndInv, GlobalInv, DriftIsCovered, HasWork, ByConfig, Behind, Covered
<1>2. \A s \in schedules' : s \in syncs' \/ s \in Behind' \/ s \in unannounced'
  BY DEF IndInv, GlobalInv, OrphansOnlyUnannounced, Behind
<1> QED
  BY <1>1, <1>2 DEF Mirror!Accounted, Mirror!InStep, Agrees

-----------------------------------------------------------------------------
(* Steps that leave Temporal alone *)

(* A step that takes no row away and lets no sync go in silence is a request. *)
LEMMA IsRequest ==
  ASSUME IndInv', UNCHANGED temporal,
         connChanges \subseteq connChanges', configChanges \subseteq configChanges',
         syncChanges \subseteq syncChanges', unannounced \subseteq unannounced',
         fullFlag => fullFlag',
         \A s \in syncs \ syncs' : s \in unannounced' \/ s \in syncChanges'
  PROVE  Mirror!Request
<1>1. Behind \subseteq Behind' \cup unannounced'
  BY DEF Behind, Covered
<1> QED
  BY <1>1, InvariantAccountsLater DEF Mirror!Request, Mirror!actual, temporal

(* A step that only takes rows away is an acknowledgement. *)
LEMMA IsAcknowledgement ==
  ASSUME IndInv', UNCHANGED <<temporal, tables, unannounced>>,
         connChanges' \subseteq connChanges, configChanges' \subseteq configChanges,
         syncChanges' \subseteq syncChanges, fullFlag' => fullFlag
  PROVE  Mirror!Acknowledge
<1>1. Behind' \subseteq Behind
  BY DEF Behind, Covered, tables
<1> QED
  BY <1>1, InvariantAccountsLater
  DEF Mirror!Acknowledge, Mirror!actual, Mirror!desired, temporal, tables

LEMMA ApiIsRequest == IndInv /\ IndInv' /\ ApiNext => Mirror!Request
<1> SUFFICES ASSUME IndInv, IndInv', ApiNext PROVE Mirror!Request
  OBVIOUS
<1>1. ApiStep
  BY ApiContract DEF IndInv
<1> QED
  BY <1>1, IsRequest DEF ApiStep, RowsGrow, SyncsAnnounced, Fresh

(* In the loops of parts 1 and 2: the syncs the attempt removes have their SyncChange. *)
LEMMA LoopIsRequest ==
  ASSUME IndInv, IndInv', NEW w \in Attempts,
         \/ \E c \in Connections : CreateSyncs(w, c)
         \/ InsertSyncChanges(w) \/ RemoveSyncs(w)
  PROVE  Mirror!Request
<1>1. ASSUME NEW c \in Connections, CreateSyncs(w, c) PROVE Mirror!Request
  BY <1>1, IsRequest DEF CreateSyncs, outbox, temporal, history
<1>2. CASE InsertSyncChanges(w)
  BY <1>2, IsRequest DEF InsertSyncChanges, AddChanges, tables, temporal, history
<1>3. CASE RemoveSyncs(w)
  <2>1. \A s \in Surplus(w) : s \in syncChanges
    BY <1>3 DEF RemoveSyncs, At, Surplus, IndInv, AttemptInv, RemovalIsAnnounced
  <2> QED
    BY <1>3, <2>1, IsRequest DEF RemoveSyncs, DropSyncs, outbox, temporal
<1> QED
  BY <1>1, <1>2, <1>3

LEMMA EndOfPartAcknowledges ==
  ASSUME IndInv, IndInv', NEW w \in Attempts,
         FinishPart1(w) \/ FinishPart2(w) \/ FinishPart3(w) \/ ResetFull(w)
  PROVE  Mirror!Acknowledge
  BY IsAcknowledgement DEF FinishPart1, FinishPart2, FinishPart3, ResetFull, history, temporal

-----------------------------------------------------------------------------
(* Steps that touch Temporal *)

(* The doomed are not wanted, and if they have a schedule they are on the list. *)
LEMMA DoomedRetire ==
  ASSUME IndInv, NEW w \in Attempts, PauseDoomed(w) \/ DeleteDoomed(w)
  PROVE  \E S \in SUBSET schedules : Mirror!Retire(S)
<1> DEFINE S == batch[w].doomed \cap schedules
<1>1. S \cap syncs = {} /\ S \subseteq Behind \cup unannounced /\ schedPaused \subseteq schedules
  BY DEF IndInv, GlobalInv, AttemptInv, BatchMatchesPC, OrphansOnlyUnannounced, Behind, TypeOK,
         TemporalType
<1>2. UNCHANGED <<syncs, paused, Behind, unannounced>>
  BY DEF PauseDoomed, DeleteDoomed, tables, outbox, history, Behind, Covered
<1>3. \/ schedules' = schedules /\ schedPaused' = schedPaused \cup S
      \/ schedules' = schedules \ S /\ schedPaused' = schedPaused \ S
  BY <1>1 DEF PauseDoomed, DeleteDoomed
<1> QED
  BY <1>1, <1>2, <1>3 DEF Mirror!Retire, Mirror!desired

(* The one sync that is written: either it is on a list, or its schedule is right and *)
(* the attempt's copy says the same, so that nothing changes.                         *)
LEMMA ScheduleUpserts ==
  ASSUME IndInv, NEW w \in Attempts, NEW s \in batch[w].todo, batch[w].cur = {s},
         UpsertSchedule(w)
  PROVE  Mirror!Upsert(s) \/ UNCHANGED Mirror!vars
<1>0. /\ schedules' = schedules \cup {s}
      /\ schedPaused' = (schedPaused \ {s}) \cup ({s} \cap batch[w].wantPaused)
      /\ UNCHANGED <<syncs, paused, Behind, unannounced>>
  BY DEF UpsertSchedule, tables, outbox, history, Behind, Covered
<1>1. CASE s \in Behind \cup unannounced
  BY <1>0, <1>1 DEF Mirror!Upsert, Mirror!desired
<1>2. CASE s \notin Behind \cup unannounced
  <2>1. s \in syncs /\ pc[w] = "schedule"
    BY <1>2 DEF UpsertSchedule, At, IndInv, AttemptInv, BatchMatchesPC, Unread, Behind
  <2>2. s \in paused <=> s \in batch[w].wantPaused
    BY <1>2, <2>1 DEF IndInv, AttemptInv, CopyIsCurrent, Loaded, Unread, Behind
  <2>3. Agrees(s)
    BY <1>2, <2>1 DEF IndInv, GlobalInv, DriftIsCovered, HasWork, ByConfig, Behind, Covered
  <2> QED
    BY <1>0, <2>2, <2>3 DEF Agrees, Mirror!vars, Mirror!desired, Mirror!actual
<1> QED
  BY <1>1, <1>2

-----------------------------------------------------------------------------
(* The other steps of an attempt read, or drop what they have read. *)
LEMMA ReadingIsRequest ==
  ASSUME IndInv, IndInv', NEW w \in Attempts,
         \/ Start(w)
         \/ ReadConnChanges(w) \/ LoadConnections(w) \/ LoadConfigs(w)
         \/ ReadConfigChanges(w) \/ LoadChangedConfigs(w)
         \/ \E k \in SyncConfigs : LoadConnectionsOf(w, k)
         \/ ReadSyncChanges(w) \/ LoadSyncs(w)
         \/ \E s \in batch[w].todo : UpdateStrategy(w, s)
         \/ Throw(w) \/ Crash(w)
  PROVE  Mirror!Request
<1>1. UNCHANGED <<tables, outbox, temporal, unannounced>>
  BY DEF Start, ReadConnChanges, LoadConnections, LoadConfigs, ReadConfigChanges,
         LoadChangedConfigs, LoadConnectionsOf, ReadSyncChanges, LoadSyncs, UpdateStrategy,
         Throw, Crash, shared, history
<1> QED
  BY <1>1, IsRequest DEF tables, outbox

LEMMA StepMirrors == IndInv /\ IndInv' /\ [Next]_vars => [Mirror!Next]_(Mirror!vars)
<1> SUFFICES ASSUME IndInv, IndInv', [Next]_vars PROVE Mirror!Next \/ UNCHANGED Mirror!vars
  OBVIOUS
<1>1. CASE ApiNext
  BY <1>1, ApiIsRequest DEF Mirror!Next
<1>2. ASSUME NEW w \in Attempts, AttemptNext(w) \/ Crash(w)
      PROVE  Mirror!Next \/ UNCHANGED Mirror!vars
  <2>1. CASE UpsertSchedule(w)
    <3>1. PICK s \in batch[w].todo : batch[w].cur = {s}
      BY <2>1 DEF UpsertSchedule, At, IndInv, AttemptInv, BatchMatchesPC
    <3> QED
      BY <2>1, <3>1, ScheduleUpserts DEF Mirror!Next, Mirror!Upsert
  <2>2. CASE PauseDoomed(w) \/ DeleteDoomed(w)
    BY <2>2, DoomedRetire DEF Mirror!Next
  <2>3. CASE FinishPart1(w) \/ FinishPart2(w) \/ FinishPart3(w) \/ ResetFull(w)
    BY <2>3, EndOfPartAcknowledges DEF Mirror!Next
  <2>4. CASE (\E c \in Connections : CreateSyncs(w, c)) \/ InsertSyncChanges(w) \/ RemoveSyncs(w)
    BY <2>4, LoopIsRequest DEF Mirror!Next
  <2> QED
    BY <1>2, <2>1, <2>2, <2>3, <2>4, ReadingIsRequest DEF AttemptNext, Mirror!Next
<1>3. CASE UNCHANGED vars
  BY <1>3 DEF vars, shared, tables, outbox, temporal, history, Mirror!vars, Mirror!desired,
              Mirror!actual, Behind, Covered
<1> QED
  BY <1>1, <1>2, <1>3 DEF Next

LEMMA InitMirrors == Init => Mirror!Init
  BY DEF Init, Mirror!Init, Behind

(* The control plane implements the mirror, for every set of connections, objects and   *)
(* configs and any number of requests and crashes, as long as attempts do not overlap.  *)
THEOREM ScheduleMirrorImplemented == Overlap = FALSE => (Spec => MirrorsSyncs)
<1> SUFFICES ASSUME Overlap = FALSE PROVE Spec => MirrorsSyncs
  OBVIOUS
<1>1. Spec => []IndInv
  BY InvariantHolds
<1>2. IndInv /\ IndInv' /\ [Next]_vars => [Mirror!Next]_(Mirror!vars)
  BY StepMirrors
<1>3. Init => Mirror!Init
  BY InitMirrors
<1> QED
  BY <1>1, <1>2, <1>3, PTL DEF Spec, MirrorsSyncs, Mirror!Spec

=============================================================================
