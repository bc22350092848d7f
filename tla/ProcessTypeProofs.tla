-------------------------- MODULE ProcessTypeProofs --------------------------
(* Type correctness of ProcessSyncChanges, for every value of its constants. *)
EXTENDS ProcessSyncChanges, TLAPS

-----------------------------------------------------------------------------
(* What a step leaves alone keeps its type. *)

LEMMA KeepTables == ASSUME TypeOK, UNCHANGED tables PROVE TablesType' /\ SyncsType'
  BY DEF TypeOK, tables, TablesType, SyncsType

LEMMA KeepOutbox == ASSUME TypeOK, UNCHANGED outbox PROVE OutboxType'
  BY DEF TypeOK, outbox, OutboxType

LEMMA KeepTemporal == ASSUME TypeOK, UNCHANGED temporal PROVE TemporalType'
  BY DEF TypeOK, temporal, TemporalType

LEMMA KeepRequests == ASSUME TypeOK, UNCHANGED requests PROVE RequestsType'
  BY DEF TypeOK, requests, RequestsType

LEMMA KeepLocals == ASSUME TypeOK, UNCHANGED locals PROVE LocalsType'
  BY DEF TypeOK, locals, control, read, LocalsType

LEMMA KeepHistory == ASSUME TypeOK, UNCHANGED <<history, bounds>> PROVE HistoryType'
  BY DEF TypeOK, history, bounds, HistoryType

LEMMA KeepShared ==
  ASSUME TypeOK, UNCHANGED shared
  PROVE  TablesType' /\ SyncsType' /\ OutboxType' /\ TemporalType' /\ RequestsType' /\ HistoryType'
  BY KeepTables, KeepOutbox, KeepTemporal, KeepRequests, KeepHistory DEF shared

-----------------------------------------------------------------------------
(* What the helpers of the actions return. *)

LEMMA RecordTypes == NoConfig \in Config /\ NoBirth \in Birth /\ NoPlan \in Plan /\ NoBatch \in Batch
<1>1. NoConfig \in Config
  BY DEF NoConfig, Config
<1>2. NoBirth \in Birth
  BY DEF NoBirth, Birth
<1>3. NoPlan \in Plan
  BY <1>1 DEF NoPlan, Plan
<1>4. NoBatch \in Batch
  BY DEF NoBatch, Batch
<1> QED
  BY <1>1, <1>2, <1>3, <1>4

LEMMA NewSyncType ==
  ASSUME SyncsType, NEW c \in Connections, NEW o \in Objects
  PROVE  NewSync(c, o) \in SyncId
  BY DEF SyncsType, NewSync, SyncId

LEMMA IssueType ==
  ASSUME SyncsType, NEW c \in Connections, NEW objs
  PROVE  Issue(c, objs) \in [Connections -> [Objects -> Nat]]
  BY DEF SyncsType, Issue

LEMMA CurrentBirthType ==
  ASSUME TablesType, NEW c \in Connections
  PROVE  CurrentBirth(c) \in Birth
  BY DEF TablesType, CurrentBirth, ConfigsFor, LiveConfigs, Config, Birth

LEMMA CallType ==
  ASSUME TypeOK, NEW op, Call(op)
  PROVE  apiCalls' \in Nat /\ crashes' \in Nat
  BY DEF TypeOK, HistoryType, Call

LEMMA AddChangesType ==
  ASSUME TypeOK, NEW C \in SUBSET Connections, NEW K \in SUBSET SyncConfigs,
         NEW S \in SUBSET SyncId, AddChanges(C, K, S), UNCHANGED <<fullFlag, control>>
  PROVE  OutboxType' /\ LocalsType'
<1>1. OutboxType'
  BY DEF TypeOK, OutboxType, AddChanges
<1>2. LocalsType'
  BY DEF TypeOK, LocalsType, AddChanges, control
<1> QED
  BY <1>1, <1>2

LEMMA DropSyncsType ==
  ASSUME TypeOK, NEW S \in SUBSET SyncId, NEW announced, DropSyncs(S, announced), UNCHANGED issued
  PROVE  SyncsType' /\ unannounced' \subseteq SyncId
  BY DEF TypeOK, SyncsType, HistoryType, DropSyncs

LEMMA SyncSets ==
  ASSUME TypeOK
  PROVE  /\ \A c \in Connections : SyncsOf(c) \in SUBSET SyncId
         /\ \A k \in SyncConfigs : SyncsUnder(k) \in SUBSET SyncId
  BY DEF TypeOK, SyncsType, SyncsOf, SyncsUnder

-----------------------------------------------------------------------------
THEOREM InitType == Init => TypeOK
<1> SUFFICES ASSUME Init PROVE TypeOK
  OBVIOUS
<1>1. TablesType
  BY RecordTypes DEF Init, TablesType, Life
<1>2. SyncsType
  BY DEF Init, SyncsType
<1>3. OutboxType /\ TemporalType
  BY DEF Init, OutboxType, TemporalType
<1>4. RequestsType
  BY RecordTypes DEF Init, RequestsType
<1>5. LocalsType
  BY RecordTypes DEF Init, LocalsType, PCs
<1>6. HistoryType
  BY DEF Init, HistoryType
<1> QED
  BY <1>1, <1>2, <1>3, <1>4, <1>5, <1>6 DEF TypeOK

-----------------------------------------------------------------------------
(* The operations of the API *)

LEMMA ConnectionOpsType ==
  ASSUME TypeOK, NEW c \in Connections,
         \/ BeginCreateConnection(c) \/ AbortCreateConnection(c)
         \/ \E autoStart \in BOOLEAN : CommitCreateConnection(c, autoStart)
         \/ BeginDeleteConnection(c) \/ CommitDeleteConnection(c) \/ AbortDeleteConnection(c)
  PROVE  TypeOK'
<1>1. CASE BeginCreateConnection(c)
  <2>1. TablesType' /\ SyncsType'
    BY <1>1 DEF BeginCreateConnection, TypeOK, TablesType, SyncsType, Life
  <2>2. RequestsType'
    BY <1>1, CurrentBirthType DEF BeginCreateConnection, TypeOK, RequestsType
  <2>3. HistoryType'
    BY <1>1, CallType DEF BeginCreateConnection, TypeOK, HistoryType, history
  <2> QED
    BY <1>1, <2>1, <2>2, <2>3, KeepOutbox, KeepTemporal, KeepLocals
    DEF BeginCreateConnection, TypeOK
<1>2. CASE AbortCreateConnection(c)
  <2>1. TablesType' /\ SyncsType'
    BY <1>2 DEF AbortCreateConnection, TypeOK, TablesType, SyncsType, Life
  <2>2. RequestsType'
    BY <1>2, RecordTypes DEF AbortCreateConnection, TypeOK, RequestsType
  <2> QED
    BY <1>2, <2>1, <2>2, KeepOutbox, KeepTemporal, KeepLocals, KeepHistory
    DEF AbortCreateConnection, TypeOK
<1>3. ASSUME NEW autoStart \in BOOLEAN, CommitCreateConnection(c, autoStart)
      PROVE  TypeOK'
  <2> DEFINE new == {NewSync(c, o) : o \in birth[c].objects}
  <2>1. birth[c].objects \subseteq Objects /\ new \in SUBSET SyncId
    BY NewSyncType DEF TypeOK, RequestsType, Birth
  <2>2. TablesType'
    BY <1>3 DEF CommitCreateConnection, TypeOK, TablesType, Life
  <2>3. SyncsType'
    BY <1>3, <2>1, IssueType DEF CommitCreateConnection, TypeOK, SyncsType
  <2>4. OutboxType' /\ LocalsType'
    BY <1>3, <2>1, AddChangesType DEF CommitCreateConnection
  <2>5. RequestsType'
    BY <1>3, RecordTypes DEF CommitCreateConnection, TypeOK, RequestsType
  <2>6. HistoryType'
    BY <1>3 DEF CommitCreateConnection, TypeOK, HistoryType, bounds
  <2> QED
    BY <1>3, <2>2, <2>3, <2>4, <2>5, <2>6, KeepTemporal DEF CommitCreateConnection, TypeOK
<1>4. CASE BeginDeleteConnection(c)
  <2>1. RequestsType'
    BY <1>4, SyncSets DEF BeginDeleteConnection, TypeOK, RequestsType
  <2>2. HistoryType'
    BY <1>4, CallType DEF BeginDeleteConnection, TypeOK, HistoryType, history
  <2> QED
    BY <1>4, <2>1, <2>2, KeepTables, KeepOutbox, KeepTemporal, KeepLocals
    DEF BeginDeleteConnection, TypeOK
<1>5. CASE CommitDeleteConnection(c)
  <2>1. TablesType'
    BY <1>5 DEF CommitDeleteConnection, TypeOK, TablesType, Life
  <2>2. SyncsType' /\ unannounced' \subseteq SyncId
    BY <1>5, SyncSets, DropSyncsType DEF CommitDeleteConnection
  <2>3. OutboxType' /\ LocalsType'
    BY <1>5, AddChangesType DEF CommitDeleteConnection, TypeOK, RequestsType
  <2>4. RequestsType'
    BY <1>5 DEF CommitDeleteConnection, TypeOK, RequestsType
  <2>5. HistoryType'
    BY <1>5, <2>2 DEF CommitDeleteConnection, TypeOK, HistoryType, bounds
  <2> QED
    BY <1>5, <2>1, <2>2, <2>3, <2>4, <2>5, KeepTemporal DEF CommitDeleteConnection, TypeOK
<1>6. CASE AbortDeleteConnection(c)
  <2>1. RequestsType'
    BY <1>6 DEF AbortDeleteConnection, TypeOK, RequestsType
  <2> QED
    BY <1>6, <2>1, KeepTables, KeepOutbox, KeepTemporal, KeepLocals, KeepHistory
    DEF AbortDeleteConnection, TypeOK
<1> QED
  BY <1>1, <1>2, <1>3, <1>4, <1>5, <1>6

LEMMA ClientOpsType ==
  ASSUME TypeOK,
         \/ \E C \in SUBSET Connections : DeleteCustomer(C)
         \/ \E s \in syncs, pausedState \in BOOLEAN : SetPaused(s, pausedState)
         \/ \E c \in Connections, objs \in Listings : SetConnectionSyncConfig(c, objs)
         \/ \E e \in Entities : DeleteEntity(e)
         \/ RequestFullRun
  PROVE  TypeOK'
<1>1. ASSUME NEW C \in SUBSET Connections, DeleteCustomer(C) PROVE TypeOK'
  <2>1. TablesType'
    BY <1>1 DEF DeleteCustomer, TypeOK, TablesType, Life
  <2>2. {s \in syncs : s[1] \in C} \in SUBSET SyncId
    BY DEF TypeOK, SyncsType
  <2>3. SyncsType' /\ unannounced' \subseteq SyncId
    BY <1>1, <2>2, DropSyncsType DEF DeleteCustomer
  <2>4. HistoryType'
    BY <1>1, <2>3, CallType DEF DeleteCustomer, TypeOK, HistoryType
  <2> QED
    BY <1>1, <2>1, <2>3, <2>4, KeepOutbox, KeepTemporal, KeepRequests, KeepLocals
    DEF DeleteCustomer, TypeOK
<1>2. ASSUME NEW s \in syncs, NEW pausedState \in BOOLEAN, SetPaused(s, pausedState)
      PROVE  TypeOK'
  <2>1. s \in SyncId
    BY DEF TypeOK, SyncsType
  <2>2. TablesType'
    BY <1>2 DEF SetPaused, TypeOK, TablesType
  <2>3. SyncsType'
    BY <1>2 DEF SetPaused, TypeOK, SyncsType
  <2>4. OutboxType' /\ LocalsType'
    BY <1>2, <2>1, AddChangesType DEF SetPaused
  <2>5. HistoryType'
    BY <1>2, CallType DEF SetPaused, TypeOK, HistoryType, history
  <2> QED
    BY <1>2, <2>2, <2>3, <2>4, <2>5, KeepTemporal, KeepRequests DEF SetPaused, TypeOK
<1>3. ASSUME NEW c \in Connections, NEW objs \in Listings, SetConnectionSyncConfig(c, objs)
      PROVE  TypeOK'
  <2>1. objs \subseteq Objects
    BY ConstantsAssumption
  <2>2. TablesType'
    BY <1>3, <2>1 DEF SetConnectionSyncConfig, TypeOK, TablesType
  <2>3. SyncsType'
    BY <1>3 DEF SetConnectionSyncConfig, TypeOK, SyncsType
  <2>4. OutboxType' /\ LocalsType'
    BY <1>3, AddChangesType DEF SetConnectionSyncConfig
  <2>5. HistoryType'
    BY <1>3, CallType DEF SetConnectionSyncConfig, TypeOK, HistoryType, history
  <2> QED
    BY <1>3, <2>2, <2>3, <2>4, <2>5, KeepTemporal, KeepRequests
    DEF SetConnectionSyncConfig, TypeOK
<1>4. ASSUME NEW e \in Entities, DeleteEntity(e) PROVE TypeOK'
  <2>1. TablesType'
    BY <1>4 DEF DeleteEntity, TypeOK, TablesType
  <2>2. {s \in syncs : s[2] = e} \in SUBSET SyncId
    BY DEF TypeOK, SyncsType
  <2>3. SyncsType' /\ unannounced' \subseteq SyncId
    BY <1>4, <2>2, DropSyncsType DEF DeleteEntity
  <2>4. HistoryType'
    BY <1>4, <2>3, CallType DEF DeleteEntity, TypeOK, HistoryType
  <2> QED
    BY <1>4, <2>1, <2>3, <2>4, KeepOutbox, KeepTemporal, KeepRequests, KeepLocals
    DEF DeleteEntity, TypeOK
<1>5. CASE RequestFullRun
  <2>1. OutboxType'
    BY <1>5 DEF RequestFullRun, TypeOK, OutboxType
  <2>2. HistoryType'
    BY <1>5, CallType DEF RequestFullRun, TypeOK, HistoryType
  <2> QED
    BY <1>5, <2>1, <2>2, KeepTables, KeepTemporal, KeepRequests, KeepLocals
    DEF RequestFullRun, TypeOK
<1> QED
  BY <1>1, <1>2, <1>3, <1>4, <1>5

LEMMA ConfigOpsType ==
  ASSUME TypeOK, NEW k \in SyncConfigs,
         \/ \E objs \in Listings, autoStart \in BOOLEAN :
              CreateSyncConfig(k, objs, autoStart) \/ UpdateSyncConfig(k, objs, autoStart)
         \/ \E o \in Objects : AddObject(k, o)
         \/ BeginDeleteSyncConfig(k) \/ CommitDeleteSyncConfig(k) \/ AbortDeleteSyncConfig(k)
  PROVE  TypeOK'
<1>1. ASSUME NEW objs \in Listings, NEW autoStart \in BOOLEAN,
             CreateSyncConfig(k, objs, autoStart)
      PROVE  TypeOK'
  <2>1. [objects |-> objs, autoStart |-> autoStart] \in Config
    BY ConstantsAssumption DEF Config
  <2>2. TablesType'
    BY <1>1, <2>1 DEF CreateSyncConfig, TypeOK, TablesType, Life
  <2>3. SyncsType'
    BY <1>1 DEF CreateSyncConfig, TypeOK, SyncsType
  <2>4. OutboxType' /\ LocalsType'
    BY <1>1, AddChangesType DEF CreateSyncConfig
  <2>5. HistoryType'
    BY <1>1, CallType DEF CreateSyncConfig, TypeOK, HistoryType
  <2> QED
    BY <1>1, <2>2, <2>3, <2>4, <2>5, KeepTemporal, KeepRequests DEF CreateSyncConfig, TypeOK
<1>2. ASSUME NEW objs \in Listings, NEW autoStart \in BOOLEAN,
             UpdateSyncConfig(k, objs, autoStart)
      PROVE  TypeOK'
  <2>1. [objects |-> objs, autoStart |-> autoStart] \in Config
    BY ConstantsAssumption DEF Config
  <2>2. TablesType'
    BY <1>2, <2>1 DEF UpdateSyncConfig, TypeOK, TablesType
  <2>3. SyncsType'
    BY <1>2 DEF UpdateSyncConfig, TypeOK, SyncsType
  <2>4. OutboxType' /\ LocalsType'
    BY <1>2, AddChangesType DEF UpdateSyncConfig
  <2>5. HistoryType'
    BY <1>2, CallType DEF UpdateSyncConfig, TypeOK, HistoryType
  <2> QED
    BY <1>2, <2>2, <2>3, <2>4, <2>5, KeepTemporal, KeepRequests DEF UpdateSyncConfig, TypeOK
<1>3. ASSUME NEW o \in Objects, AddObject(k, o) PROVE TypeOK'
  <2>1. [objects |-> config[k].objects \cup {o}, autoStart |-> config[k].autoStart] \in Config
    BY DEF TypeOK, TablesType, Config
  <2>2. TablesType'
    BY <1>3, <2>1 DEF AddObject, TypeOK, TablesType
  <2>3. SyncsType'
    BY <1>3 DEF AddObject, TypeOK, SyncsType
  <2>4. HistoryType'
    BY <1>3, CallType DEF AddObject, TypeOK, HistoryType, ConnectionsOf
  <2> QED
    BY <1>3, <2>2, <2>3, <2>4, KeepOutbox, KeepTemporal, KeepRequests, KeepLocals
    DEF AddObject, TypeOK
<1>4. CASE BeginDeleteSyncConfig(k)
  <2>1. RequestsType'
    BY <1>4, SyncSets DEF BeginDeleteSyncConfig, TypeOK, RequestsType
  <2>2. HistoryType'
    BY <1>4, CallType DEF BeginDeleteSyncConfig, TypeOK, HistoryType, history
  <2> QED
    BY <1>4, <2>1, <2>2, KeepTables, KeepOutbox, KeepTemporal, KeepLocals
    DEF BeginDeleteSyncConfig, TypeOK
<1>5. CASE CommitDeleteSyncConfig(k)
  <2>1. TablesType'
    BY <1>5, RecordTypes DEF CommitDeleteSyncConfig, TypeOK, TablesType, Life
  <2>2. SyncsType' /\ unannounced' \subseteq SyncId
    BY <1>5, SyncSets, DropSyncsType DEF CommitDeleteSyncConfig
  <2>3. OutboxType' /\ LocalsType'
    BY <1>5, AddChangesType DEF CommitDeleteSyncConfig, TypeOK, RequestsType
  <2>4. RequestsType'
    BY <1>5 DEF CommitDeleteSyncConfig, TypeOK, RequestsType
  <2>5. HistoryType'
    BY <1>5, <2>2 DEF CommitDeleteSyncConfig, TypeOK, HistoryType, bounds
  <2> QED
    BY <1>5, <2>1, <2>2, <2>3, <2>4, <2>5, KeepTemporal DEF CommitDeleteSyncConfig, TypeOK
<1>6. CASE AbortDeleteSyncConfig(k)
  <2>1. RequestsType'
    BY <1>6 DEF AbortDeleteSyncConfig, TypeOK, RequestsType
  <2> QED
    BY <1>6, <2>1, KeepTables, KeepOutbox, KeepTemporal, KeepLocals, KeepHistory
    DEF AbortDeleteSyncConfig, TypeOK
<1> QED
  BY <1>1, <1>2, <1>3, <1>4, <1>5, <1>6

LEMMA ApiType == TypeOK /\ ApiNext => TypeOK'
  BY ConnectionOpsType, ClientOpsType, ConfigOpsType DEF ApiNext

-----------------------------------------------------------------------------
(* The steps of an attempt *)

LEMMA ClearType ==
  ASSUME TypeOK, NEW w \in Attempts, Clear(w)
  PROVE  LocalsType'
  BY RecordTypes DEF TypeOK, LocalsType, Clear, Goto, Plans, Batches, PCs

LEMMA PlanType == ASSUME TypeOK, NEW w \in Attempts PROVE plan[w] \in Plan
  BY DEF TypeOK, LocalsType

LEMMA PlanUpdateType ==
  ASSUME TypeOK, NEW w \in Attempts, NEW p \in Plan, Plans(w, p)
  PROVE  plan' \in [Attempts -> Plan]
  BY DEF TypeOK, LocalsType, Plans

LEMMA ReadStepsType ==
  ASSUME TypeOK, NEW w \in Attempts,
         \/ Start(w) \/ ReadConnChanges(w) \/ LoadConnections(w) \/ LoadConfigs(w)
         \/ ReadConfigChanges(w) \/ LoadChangedConfigs(w)
         \/ \E k \in SyncConfigs : LoadConnectionsOf(w, k)
  PROVE  TypeOK'
<1>1. CASE Start(w)
  <2>1. LocalsType'
    BY <1>1 DEF Start, Goto, TypeOK, LocalsType, OutboxType, PCs, read
  <2>2. HistoryType'
    BY <1>1 DEF Start, TypeOK, HistoryType, bounds
  <2> QED
    BY <1>1, <2>1, <2>2, KeepTables, KeepOutbox, KeepTemporal, KeepRequests DEF Start, TypeOK
<1>2. CASE ReadConnChanges(w)
  <2>1. [plan[w] EXCEPT !.part = 1, !.connTodo = connChanges] \in Plan
    BY PlanType DEF Plan, TypeOK, OutboxType
  <2>2. LocalsType'
    BY <1>2, <2>1, PlanUpdateType DEF ReadConnChanges, Goto, TypeOK, LocalsType, OutboxType, PCs
  <2> QED
    BY <1>2, <2>2, KeepShared DEF ReadConnChanges, TypeOK
<1>3. CASE LoadConnections(w)
  <2> DEFINE todo == IF full[w] THEN LiveConnections ELSE plan[w].connTodo \cap LiveConnections
             next == [plan[w] EXCEPT !.connTodo = todo, !.overrides = override]
  <2>1. todo \in SUBSET Connections
    BY DEF LiveConnections
  <2>2. next \in Plan
    <3> HIDE DEF todo
    <3> QED
      BY <2>1, PlanType DEF Plan, TypeOK, TablesType
  <2>3. Plans(w, next)
    BY <1>3 DEF LoadConnections
  <2> HIDE DEF next
  <2>4. LocalsType'
    BY <1>3, <2>2, <2>3, PlanUpdateType DEF LoadConnections, Goto, TypeOK, LocalsType, PCs, read
  <2> QED
    BY <1>3, <2>4, KeepShared DEF LoadConnections, TypeOK
<1>4. CASE LoadConfigs(w)
  <2> DEFINE next == [plan[w] EXCEPT !.known = UNION {ConfigsFor(c) : c \in plan[w].connTodo},
                                     !.contents = config]
  <2>1. UNION {ConfigsFor(c) : c \in plan[w].connTodo} \in SUBSET SyncConfigs
    BY DEF ConfigsFor, LiveConfigs
  <2>2. next \in Plan
    BY <2>1, PlanType DEF Plan, TypeOK, TablesType
  <2>3. Plans(w, next)
    BY <1>4 DEF LoadConfigs
  <2> HIDE DEF next
  <2>4. LocalsType'
    BY <1>4, <2>2, <2>3, PlanUpdateType DEF LoadConfigs, Goto, TypeOK, LocalsType, PCs, read
  <2> QED
    BY <1>4, <2>4, KeepShared DEF LoadConfigs, TypeOK
<1>5. CASE ReadConfigChanges(w)
  <2>1. [plan[w] EXCEPT !.part = 2, !.configTodo = configChanges] \in Plan
    BY PlanType DEF Plan, TypeOK, OutboxType
  <2>2. LocalsType'
    BY <1>5, <2>1, PlanUpdateType
    DEF ReadConfigChanges, Goto, TypeOK, LocalsType, OutboxType, PCs
  <2> QED
    BY <1>5, <2>2, KeepShared DEF ReadConfigChanges, TypeOK
<1>6. CASE LoadChangedConfigs(w)
  <2> DEFINE todo == IF full[w] THEN LiveConfigs ELSE plan[w].configTodo \cap LiveConfigs
             next == [plan[w] EXCEPT !.configTodo = todo, !.contents = config]
  <2>1. todo \in SUBSET SyncConfigs
    BY DEF LiveConfigs
  <2>2. next \in Plan
    <3> HIDE DEF todo
    <3> QED
      BY <2>1, PlanType DEF Plan, TypeOK, TablesType
  <2>3. Plans(w, next)
    BY <1>6 DEF LoadChangedConfigs
  <2> HIDE DEF next
  <2>4. LocalsType'
    BY <1>6, <2>2, <2>3, PlanUpdateType DEF LoadChangedConfigs, Goto, TypeOK, LocalsType, PCs, read
  <2> QED
    BY <1>6, <2>4, KeepShared DEF LoadChangedConfigs, TypeOK
<1>7. ASSUME NEW k \in SyncConfigs, LoadConnectionsOf(w, k) PROVE TypeOK'
  <2> DEFINE todo == ConnectionsOf(k) \cap LiveConnections
             left == plan[w].configTodo \ {k}
             next == [plan[w] EXCEPT !.connTodo = todo, !.overrides = override, !.known = {k},
                                     !.configTodo = left]
  <2>1. todo \in SUBSET Connections
    BY DEF LiveConnections
  <2>2. left \in SUBSET SyncConfigs
    BY PlanType DEF Plan
  <2>3. override \in [Connections -> SUBSET Objects] /\ {k} \in SUBSET SyncConfigs
    BY DEF TypeOK, TablesType
  <2>4. Plans(w, next)
    BY <1>7 DEF LoadConnectionsOf
  <2>5. next \in Plan
    <3> HIDE DEF todo, left
    <3> QED
      BY <2>1, <2>2, <2>3, PlanType DEF Plan
  <2> HIDE DEF next
  <2>6. LocalsType'
    BY <1>7, <2>4, <2>5, PlanUpdateType DEF LoadConnectionsOf, TypeOK, LocalsType, read
  <2> QED
    BY <1>7, <2>6, KeepShared DEF LoadConnectionsOf, TypeOK
<1> QED
  BY <1>1, <1>2, <1>3, <1>4, <1>5, <1>6, <1>7

LEMMA ArgsType ==
  ASSUME TypeOK, NEW w \in Attempts, NEW c \in Connections
  PROVE  Args(w, c) \subseteq Objects /\ Missing(w, c) \subseteq Objects
<1>1. plan[w].overrides[c] \subseteq Objects
  BY PlanType DEF Plan
<1>2. UNION {plan[w].contents[k].objects : k \in KnownFor(w, c)} \subseteq Objects
  BY PlanType DEF Plan, KnownFor, Config
<1>3. Args(w, c) \subseteq Objects
  BY <1>1, <1>2 DEF Args, Desired, Overridden, OfKind
<1> QED
  BY <1>3 DEF Missing

LEMMA LoopStepsType ==
  ASSUME TypeOK, NEW w \in Attempts,
         \/ \E c \in Connections : CreateSyncs(w, c)
         \/ InsertSyncChanges(w) \/ RemoveSyncs(w)
         \/ FinishPart1(w) \/ FinishPart2(w)
  PROVE  TypeOK'
<1>1. ASSUME NEW c \in Connections, CreateSyncs(w, c) PROVE TypeOK'
  <2> DEFINE new == {NewSync(c, o) : o \in Missing(w, c)}
  <2>1. new \in SUBSET SyncId
    BY ArgsType, NewSyncType DEF TypeOK
  <2>2. TablesType'
    BY <1>1 DEF CreateSyncs, TypeOK, TablesType
  <2>3. SyncsType'
    BY <1>1, <2>1, IssueType DEF CreateSyncs, TypeOK, SyncsType
  <2>4. [plan[w] EXCEPT !.cur = {c}, !.connTodo = plan[w].connTodo \ {c}] \in Plan
    BY PlanType DEF Plan
  <2>5. LocalsType'
    BY <1>1, <2>4, PlanUpdateType DEF CreateSyncs, Goto, TypeOK, LocalsType, PCs, read
  <2> QED
    BY <1>1, <2>2, <2>3, <2>5, KeepOutbox, KeepTemporal, KeepRequests, KeepHistory
    DEF CreateSyncs, TypeOK
<1>2. CASE InsertSyncChanges(w)
  <2> DEFINE ids == {s \in syncs : s[1] \in plan[w].cur}
  <2>1. ids \in SUBSET SyncId
    BY DEF TypeOK, SyncsType
  <2>2. OutboxType'
    BY <1>2, <2>1 DEF InsertSyncChanges, AddChanges, TypeOK, OutboxType
  <2>3. LocalsType'
    BY <1>2, <2>1 DEF InsertSyncChanges, AddChanges, Goto, TypeOK, LocalsType, PCs
  <2> QED
    BY <1>2, <2>2, <2>3, KeepTables, KeepTemporal, KeepRequests, KeepHistory
    DEF InsertSyncChanges, TypeOK
<1>3. CASE RemoveSyncs(w)
  <2>1. Surplus(w) \in SUBSET SyncId
    BY DEF Surplus, TypeOK, SyncsType
  <2>2. SyncsType' /\ unannounced' \subseteq SyncId
    BY <1>3, <2>1, DropSyncsType DEF RemoveSyncs
  <2>3. TablesType'
    BY <1>3 DEF RemoveSyncs, TypeOK, TablesType
  <2>4. LocalsType'
    <3>1. [plan[w] EXCEPT !.cur = {}] \in Plan
      BY PlanType DEF Plan
    <3> QED
      BY <1>3, <3>1, PlanUpdateType DEF RemoveSyncs, Goto, TypeOK, LocalsType, PCs, read
  <2>5. HistoryType'
    BY <1>3, <2>2 DEF RemoveSyncs, TypeOK, HistoryType, bounds
  <2> QED
    BY <1>3, <2>2, <2>3, <2>4, <2>5, KeepOutbox, KeepTemporal, KeepRequests
    DEF RemoveSyncs, TypeOK
<1>4. CASE FinishPart1(w)
  <2>1. OutboxType'
    BY <1>4 DEF FinishPart1, TypeOK, OutboxType
  <2>2. LocalsType'
    BY <1>4, RecordTypes DEF FinishPart1, Goto, Plans, TypeOK, LocalsType, PCs
  <2> QED
    BY <1>4, <2>1, <2>2, KeepTables, KeepTemporal, KeepRequests, KeepHistory
    DEF FinishPart1, TypeOK
<1>5. CASE FinishPart2(w)
  <2>1. OutboxType'
    BY <1>5 DEF FinishPart2, TypeOK, OutboxType
  <2>2. LocalsType'
    BY <1>5, RecordTypes DEF FinishPart2, Goto, Plans, TypeOK, LocalsType, PCs
  <2> QED
    BY <1>5, <2>1, <2>2, KeepTables, KeepTemporal, KeepRequests, KeepHistory
    DEF FinishPart2, TypeOK
<1> QED
  BY <1>1, <1>2, <1>3, <1>4, <1>5

LEMMA ScheduleStepsType ==
  ASSUME TypeOK, NEW w \in Attempts,
         \/ ReadSyncChanges(w) \/ LoadSyncs(w) \/ PauseDoomed(w) \/ DeleteDoomed(w)
         \/ \E s \in batch[w].todo : UpdateStrategy(w, s)
         \/ UpsertSchedule(w) \/ FinishPart3(w) \/ ResetFull(w) \/ Throw(w) \/ Crash(w)
  PROVE  TypeOK'
<1>0. batch[w] \in Batch
  BY DEF TypeOK, LocalsType
<1>1. CASE ReadSyncChanges(w)
  <2>1. [batch[w] EXCEPT !.todo = syncChanges] \in Batch
    BY <1>0 DEF Batch, TypeOK, OutboxType
  <2>2. LocalsType'
    BY <1>1, <2>1 DEF ReadSyncChanges, Goto, Batches, TypeOK, LocalsType, OutboxType, PCs
  <2> QED
    BY <1>1, <2>2, KeepShared DEF ReadSyncChanges, TypeOK
<1>2. CASE LoadSyncs(w)
  <2> DEFINE found == IF full[w] THEN syncs ELSE batch[w].todo \cap syncs
             next == [todo |-> found, doomed |-> batch[w].todo \ syncs,
                      wantPaused |-> paused \cap found, cur |-> {}]
  <2>1. next \in Batch
    BY <1>0 DEF Batch, TypeOK, SyncsType
  <2>2. LocalsType'
    BY <1>2, <2>1 DEF LoadSyncs, Goto, Batches, TypeOK, LocalsType, PCs, read
  <2> QED
    BY <1>2, <2>2, KeepShared DEF LoadSyncs, TypeOK
<1>3. CASE PauseDoomed(w)
  <2>1. TemporalType'
    BY <1>3 DEF PauseDoomed, TypeOK, TemporalType
  <2>2. LocalsType'
    BY <1>3 DEF PauseDoomed, Goto, TypeOK, LocalsType, PCs, read
  <2> QED
    BY <1>3, <2>1, <2>2, KeepTables, KeepOutbox, KeepRequests, KeepHistory
    DEF PauseDoomed, TypeOK
<1>4. CASE DeleteDoomed(w)
  <2>1. TemporalType'
    BY <1>4 DEF DeleteDoomed, TypeOK, TemporalType
  <2>2. [batch[w] EXCEPT !.doomed = {}] \in Batch
    BY <1>0 DEF Batch
  <2>3. LocalsType'
    BY <1>4, <2>2 DEF DeleteDoomed, Goto, Batches, TypeOK, LocalsType, PCs, read
  <2> QED
    BY <1>4, <2>1, <2>3, KeepTables, KeepOutbox, KeepRequests, KeepHistory
    DEF DeleteDoomed, TypeOK
<1>5. ASSUME NEW s \in batch[w].todo, UpdateStrategy(w, s) PROVE TypeOK'
  <2>1. [batch[w] EXCEPT !.cur = {s}] \in Batch
    BY <1>0 DEF Batch
  <2>2. LocalsType'
    BY <1>5, <2>1 DEF UpdateStrategy, Goto, Batches, TypeOK, LocalsType, PCs, read
  <2> QED
    BY <1>5, <2>2, KeepShared DEF UpdateStrategy, TypeOK
<1>6. CASE UpsertSchedule(w)
  <2>1. TemporalType'
    BY <1>0, <1>6 DEF UpsertSchedule, TypeOK, TemporalType, Batch
  <2>2. [batch[w] EXCEPT !.todo = batch[w].todo \ batch[w].cur, !.cur = {}] \in Batch
    BY <1>0 DEF Batch
  <2>3. LocalsType'
    BY <1>6, <2>2 DEF UpsertSchedule, Goto, Batches, TypeOK, LocalsType, PCs, read
  <2> QED
    BY <1>6, <2>1, <2>3, KeepTables, KeepOutbox, KeepRequests, KeepHistory
    DEF UpsertSchedule, TypeOK
<1>7. CASE FinishPart3(w)
  <2>1. OutboxType'
    BY <1>7 DEF FinishPart3, TypeOK, OutboxType
  <2>2. LocalsType'
    BY <1>7, RecordTypes DEF FinishPart3, Goto, Batches, TypeOK, LocalsType, PCs
  <2> QED
    BY <1>7, <2>1, <2>2, KeepTables, KeepTemporal, KeepRequests, KeepHistory
    DEF FinishPart3, TypeOK
<1>8. CASE ResetFull(w)
  <2>1. OutboxType'
    BY <1>8 DEF ResetFull, TypeOK, OutboxType
  <2> QED
    BY <1>8, <2>1, ClearType, KeepTables, KeepTemporal, KeepRequests, KeepHistory
    DEF ResetFull, TypeOK
<1>9. CASE Throw(w)
  BY <1>9, ClearType, KeepShared DEF Throw, TypeOK
<1>10. CASE Crash(w)
  <2>1. HistoryType'
    BY <1>10 DEF Crash, TypeOK, HistoryType, history
  <2> QED
    BY <1>10, <2>1, ClearType, KeepTables, KeepOutbox, KeepTemporal, KeepRequests
    DEF Crash, TypeOK
<1> QED
  BY <1>1, <1>2, <1>3, <1>4, <1>5, <1>6, <1>7, <1>8, <1>9, <1>10

-----------------------------------------------------------------------------
LEMMA StepType == TypeOK /\ [Next]_vars => TypeOK'
<1>1. ASSUME TypeOK, UNCHANGED vars PROVE TypeOK'
  BY <1>1, KeepShared, KeepLocals DEF vars, TypeOK
<1>2. ASSUME TypeOK, NEW w \in Attempts, AttemptNext(w) \/ Crash(w) PROVE TypeOK'
  BY <1>2, ReadStepsType, LoopStepsType, ScheduleStepsType DEF AttemptNext
<1> QED
  BY <1>1, <1>2, ApiType DEF Next

(* Every variable keeps its type, whatever the clients and the attempts do. *)
THEOREM TypeCorrect == Spec => []TypeOK
  BY InitType, StepType, PTL DEF Spec

=============================================================================
