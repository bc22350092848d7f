------------------------- MODULE ProcessMatchProofs -------------------------
(***************************************************************************)
(* What attempts that do not overlap bring about, for every value of the   *)
(* constants: the syncs of a connection match its sync config (MatchInv is *)
(* inductive), and an attempt no request disturbs settles everything.      *)
(***************************************************************************)
EXTENDS ProcessMatch, ProcessQuiet, ProcessSafetyProofs

-----------------------------------------------------------------------------
(* Nothing in the plan, no rows read: then the pair is as SyncsMatchConfig says. *)

AtRest(w) == plan[w] = NoPlan /\ connRows[w] = {} /\ configRows[w] = {}

LEMMA RestIsFineNow ==
  \A w \in Attempts :
    AtRest(w) /\ SyncsMatchConfig =>
      WorkIsKnown(w) /\ \A c \in Connections : \A k \in ConfigsFor(c) : PairInv(w, c, k)
<1> SUFFICES ASSUME NEW w \in Attempts, AtRest(w), SyncsMatchConfig
    PROVE  WorkIsKnown(w) /\ \A c \in Connections : \A k \in ConfigsFor(c) : PairInv(w, c, k)
  OBVIOUS
<1>1. plan[w].connTodo = {} /\ plan[w].cur = {} /\ plan[w].known = {} /\ plan[w].configTodo = {}
  BY DEF AtRest, NoPlan
<1>2. WorkIsKnown(w)
  BY <1>1 DEF WorkIsKnown
<1>3. ASSUME NEW c \in Connections, NEW k \in ConfigsFor(c), UpWithout(w, c, k)
      PROVE  /\ ConfigIsCurrent(w, c, k)
             /\ connection[c] = "live" => Owed(w, c, k) /\ OverrideIsCurrent(w, c)
  <2>1. ConfigIsCurrent(w, c, k) /\ OverrideIsCurrent(w, c)
    BY <1>1 DEF ConfigIsCurrent, OverrideIsCurrent, InWork
  <2>2. Up(c, k)
    BY <1>3 DEF UpWithout, Up, AtRest
  <2>3. connection[c] = "live" => Fits(c, k)
    BY <2>2 DEF SyncsMatchConfig, LiveConnections, Fits, HasAll, HasOnly, Want
  <2> QED
    BY <1>1, <2>1, <2>3 DEF Owed
<1> QED
  BY <1>2, <1>3 DEF PairInv

LEMMA RestIsFine ==
  \A w \in Attempts :
    AtRest(w)' /\ SyncsMatchConfig' =>
      WorkIsKnown(w)' /\ \A c \in Connections : \A k \in ConfigsFor(c)' : PairInv(w, c, k)'
<1>1. (\A w \in Attempts :
         AtRest(w) /\ SyncsMatchConfig =>
           WorkIsKnown(w) /\ \A c \in Connections : \A k \in ConfigsFor(c) : PairInv(w, c, k))'
  BY RestIsFineNow, PTL
<1> QED
  BY <1>1

(* SyncsMatchConfig in the terms of the invariant. *)
LEMMA MatchMeansNow ==
  SyncsMatchConfig <=>
    \A c \in Connections : \A k \in ConfigsFor(c) :
      connection[c] = "live" /\ Up(c, k) => Fits(c, k)
BY DEF SyncsMatchConfig, LiveConnections, Fits, HasAll, HasOnly, Want

LEMMA MatchMeans ==
  SyncsMatchConfig' <=>
    \A c \in Connections : \A k \in ConfigsFor(c)' :
      connection'[c] = "live" /\ Up(c, k)' => Fits(c, k)'
<1>1. (SyncsMatchConfig <=>
         \A c \in Connections : \A k \in ConfigsFor(c) :
           connection[c] = "live" /\ Up(c, k) => Fits(c, k))'
  BY MatchMeansNow, PTL
<1> QED
  BY <1>1

-----------------------------------------------------------------------------
(* What a step does not touch stays as it is. *)

LEMMA SameFit ==
  ASSUME NEW c \in Connections, NEW k \in SyncConfigs,
         config'[k] = config[k], override'[c] = override[c], UNCHANGED entities,
         ObjectsOf(c)' = ObjectsOf(c)
  PROVE  (HasAll(c, k)' <=> HasAll(c, k)) /\ (HasOnly(c, k)' <=> HasOnly(c, k))
<1>1. Want(c, k)' = Want(c, k)
  BY DEF Want
<1> QED
  BY <1>1 DEF HasAll, HasOnly

LEMMA SameObjects ==
  ASSUME NEW c \in Connections, \A s : s[1] = c => (s \in syncs' <=> s \in syncs)
  PROVE  ObjectsOf(c)' = ObjectsOf(c)
BY DEF ObjectsOf, SyncsOf

LEMMA SameConfigsFor ==
  ASSUME NEW c \in Connections, UNCHANGED syncConfig
  PROVE  ConfigsFor(c)' = ConfigsFor(c)
BY DEF ConfigsFor, LiveConfigs

-----------------------------------------------------------------------------
(* What every operation of the API guarantees *)

(* A row no attempt has read, or outdated, makes the pair one that nothing is said of. *)
Marked(c, k) ==
  \/ c \in outdated
  \/ c \in connChanges /\ \A w \in Attempts : c \notin connRows[w]
  \/ k \in configChanges /\ \A w \in Attempts : k \notin configRows[w]

(* The connection keeps its own config, and its syncs but for deleted entities. *)
KeepsSyncs(c) ==
  /\ connection[c] = "live" /\ override'[c] = override[c]
  /\ entities' \subseteq entities
  /\ ObjectsOf(c)' \subseteq ObjectsOf(c)
  /\ ObjectsOf(c) \ ObjectsOf(c)' \subseteq Entities \ entities'

PairStep(c, k) ==
  \/ Marked(c, k)'
  \/ /\ k \in ConfigsFor(c) /\ config'[k] = config[k]
     /\ c \in outdated => c \in outdated'
     /\ connection'[c] = "live" =>
          KeepsSyncs(c) \/ (connection[c] = "creating" /\ Fits(c, k)')

MatchStep ==
  /\ \A c \in Connections : \A k \in ConfigsFor(c)' : PairStep(c, k)
  /\ \A c \in Connections :
       connection[c] \in {"live", "gone"} => connection'[c] \in {"live", "gone"}
  /\ OneConfig' /\ BareAtBirth'

LEMMA KeptSyncsFit ==
  ASSUME NEW c \in Connections, NEW k \in SyncConfigs, config'[k] = config[k], KeepsSyncs(c)
  PROVE  (HasAll(c, k) => HasAll(c, k)') /\ (HasOnly(c, k) => HasOnly(c, k)')
<1>1. Want(c, k)' = Want(c, k)
  BY DEF Want, KeepsSyncs
<1>2. HasOnly(c, k) => HasOnly(c, k)'
  BY <1>1 DEF HasOnly, KeepsSyncs
<1>3. HasAll(c, k) => HasAll(c, k)'
  BY <1>1 DEF HasAll, KeepsSyncs
<1> QED
  BY <1>2, <1>3

LEMMA MarkedIsExempt ==
  ASSUME NEW c \in Connections, NEW k \in SyncConfigs, Marked(c, k)'
  PROVE  ~Up(c, k)' /\ \A w \in Attempts : ~UpWithout(w, c, k)'
BY DEF Marked, Up, UpWithout

LEMMA MatchStepKeeps ==
  ASSUME TypeOK, MatchInv, ApiStep, MatchStep, DroppedAreLive'
  PROVE  MatchInv'
<1>0. UNCHANGED <<pc, plan>> /\ RowsGrow
  BY DEF ApiStep, control
<1>1. SyncsMatchConfig'
  <2> SUFFICES ASSUME NEW c \in Connections, NEW k \in ConfigsFor(c)', connection'[c] = "live",
                      Up(c, k)'
               PROVE  Fits(c, k)'
    BY MatchMeans
  <2>0. k \in SyncConfigs /\ ~Marked(c, k)'
    BY MarkedIsExempt DEF ConfigsFor, LiveConfigs
  <2>1. /\ k \in ConfigsFor(c) /\ config'[k] = config[k] /\ (c \in outdated => c \in outdated')
        /\ KeepsSyncs(c) \/ Fits(c, k)'
    BY <2>0 DEF MatchStep, PairStep
  <2>2. CASE KeepsSyncs(c)
    <3>1. Up(c, k)
      BY <1>0, <2>1 DEF Up, RowsGrow
    <3>2. Fits(c, k)
      BY <2>1, <2>2, <3>1, MatchMeansNow DEF MatchInv, KeepsSyncs
    <3> QED
      BY <2>0, <2>1, <2>2, <3>2, KeptSyncsFit DEF Fits
  <2> QED
    BY <2>1, <2>2
<1>2. ASSUME NEW w \in Attempts PROVE WorkIsKnown(w)'
  <2>1. plan[w].connTodo \cup plan[w].cur \subseteq Connections
    BY DEF TypeOK, LocalsType, Plan
  <2>2. \A c : KnownFor(w, c)' = KnownFor(w, c)
    BY <1>0 DEF KnownFor
  <2>3. WorkIsKnown(w)
    BY <1>2 DEF MatchInv
  <2>4. \A c \in plan[w].connTodo \cup plan[w].cur : connection'[c] \in {"live", "gone"}
    BY <2>1, <2>3 DEF MatchStep, WorkIsKnown
  <2> QED
    BY <1>0, <2>2, <2>3, <2>4 DEF WorkIsKnown
<1>3. ASSUME NEW w \in Attempts, NEW c \in Connections, NEW k \in ConfigsFor(c)',
             UpWithout(w, c, k)'
      PROVE  /\ ConfigIsCurrent(w, c, k)'
             /\ connection'[c] = "live" => Owed(w, c, k)' /\ OverrideIsCurrent(w, c)'
  <2>0. k \in SyncConfigs /\ ~Marked(c, k)'
    BY <1>3, MarkedIsExempt DEF ConfigsFor, LiveConfigs
  <2>1. /\ k \in ConfigsFor(c) /\ config'[k] = config[k] /\ (c \in outdated => c \in outdated')
        /\ connection'[c] = "live" =>
             KeepsSyncs(c) \/ (connection[c] = "creating" /\ Fits(c, k)')
    BY <2>0 DEF MatchStep, PairStep
  <2>2. UpWithout(w, c, k)
    BY <1>0, <1>3, <2>1 DEF UpWithout, RowsGrow
  <2>3. PairInv(w, c, k) /\ WorkIsKnown(w)
    BY <2>1 DEF MatchInv
  <2>4. ConfigIsCurrent(w, c, k)'
    <3> SUFFICES ASSUME pc[w] \in Loop, NEW j \in plan[w].known \cup plan[w].configTodo,
                        c \in ConnectionsOf(j)
                 PROVE  j = k /\ plan[w].contents[j] = config'[j]
      BY <1>0 DEF ConfigIsCurrent
    <3>1. j = k /\ plan[w].contents[j] = config[j]
      BY <2>2, <2>3 DEF PairInv, ConfigIsCurrent
    <3> QED
      BY <2>1, <3>1
  <2>5. CASE KeepsSyncs(c)
    <3>1. Owed(w, c, k) /\ OverrideIsCurrent(w, c)
      BY <2>2, <2>3, <2>5 DEF PairInv, KeepsSyncs
    <3>2. Owed(w, c, k)'
      BY <1>0, <2>0, <2>1, <2>5, <3>1, KeptSyncsFit DEF Owed, Fits, ToDo, InWork
    <3>3. OverrideIsCurrent(w, c)'
      BY <1>0, <2>5, <3>1 DEF OverrideIsCurrent, InWork, KeepsSyncs
    <3> QED
      BY <2>4, <3>2, <3>3
  <2>6. CASE connection[c] = "creating" /\ Fits(c, k)'
    <3>1. ~InWork(w, c)
      BY <2>3, <2>6 DEF WorkIsKnown, InWork
    <3> QED
      BY <1>0, <2>4, <2>6, <3>1 DEF Owed, OverrideIsCurrent, InWork, Fits
  <2> QED
    BY <2>1, <2>4, <2>5, <2>6
<1> QED
  BY <1>1, <1>2, <1>3 DEF MatchInv, MatchStep, PairInv

-----------------------------------------------------------------------------
(* The operations keep to it. *)

LEMMA TableTypes ==
  ASSUME TypeOK
  PROVE  /\ connection \in [Connections -> Life] /\ override \in [Connections -> SUBSET Objects]
         /\ syncConfig \in [SyncConfigs -> Life] /\ config \in [SyncConfigs -> Config]
BY DEF TypeOK, TablesType

LEMMA ConfigsForMeans ==
  \A c : ConfigsFor(c) = {k \in SyncConfigs : syncConfig[k] = "live" /\ c \in ConnectionsOf(k)}
BY DEF ConfigsFor, LiveConfigs

LEMMA ConfigsForMeansLater ==
  \A c : ConfigsFor(c)' = {k \in SyncConfigs : syncConfig'[k] = "live" /\ c \in ConnectionsOf(k)}
BY DEF ConfigsFor, LiveConfigs

(* A connection may start, be given up or go: no live one is touched. *)
LEMMA ConnectionsGo ==
  ASSUME MatchInv, UNCHANGED <<syncConfig, config, entities, outdated>>,
         \A c \in Connections :
           /\ connection[c] \in {"live", "gone"} => connection'[c] \in {"live", "gone"}
           /\ connection'[c] = "live" =>
                /\ connection[c] = "live" /\ override'[c] = override[c]
                /\ ObjectsOf(c)' = ObjectsOf(c)
           /\ connection'[c] \in {"unused", "creating"} =>
                connection[c] \in {"unused", "creating"} /\ override'[c] = override[c]
  PROVE  MatchStep
<1>1. OneConfig' /\ BareAtBirth'
  BY DEF MatchInv, OneConfig, LiveConfigs, BareAtBirth
<1>2. \A c \in Connections : \A k \in ConfigsFor(c)' : PairStep(c, k)
  BY ConfigsForMeans, ConfigsForMeansLater DEF PairStep, KeepsSyncs
<1> QED
  BY <1>1, <1>2 DEF MatchStep

LEMMA ConnectionOpsMatch ==
  ASSUME TypeOK, GlobalInv, MatchInv, NEW c \in Connections,
         \/ BeginCreateConnection(c) \/ AbortCreateConnection(c)
         \/ BeginDeleteConnection(c) \/ CommitDeleteConnection(c) \/ AbortDeleteConnection(c)
  PROVE  MatchStep
<1>1. CASE BeginCreateConnection(c) \/ AbortCreateConnection(c)
  <2>1. \A d \in Connections : ObjectsOf(d)' = ObjectsOf(d)
    BY <1>1 DEF BeginCreateConnection, AbortCreateConnection, ObjectsOf, SyncsOf
  <2> QED
    BY <1>1, <2>1, TableTypes, ConnectionsGo
    DEF BeginCreateConnection, AbortCreateConnection, history
<1>2. CASE BeginDeleteConnection(c) \/ AbortDeleteConnection(c)
  <2>1. \A d \in Connections : ObjectsOf(d)' = ObjectsOf(d)
    BY <1>2 DEF BeginDeleteConnection, AbortDeleteConnection, tables, ObjectsOf, SyncsOf
  <2> QED
    BY <1>2, <2>1, ConnectionsGo DEF BeginDeleteConnection, AbortDeleteConnection, tables, history
<1>3. CASE CommitDeleteConnection(c)
  <2>1. \A d \in Connections \ {c} : ObjectsOf(d)' = ObjectsOf(d)
    BY <1>3, SameObjects DEF CommitDeleteConnection, DropSyncs, SyncsOf
  <2> QED
    BY <1>3, <2>1, TableTypes, ConnectionsGo DEF CommitDeleteConnection
<1> QED
  BY <1>1, <1>2, <1>3

LEMMA CreationMatches ==
  ASSUME TypeOK, GlobalInv, MatchInv, NEW c \in Connections, NEW autoStart \in BOOLEAN,
         CommitCreateConnection(c, autoStart)
  PROVE  MatchStep
<1> DEFINE objs == birth[c].objects
<1>1. /\ connection[c] = "creating" /\ connection' = [connection EXCEPT ![c] = "live"]
      /\ syncs' = syncs \cup {NewSync(c, o) : o \in objs}
      /\ outdated' = IF birth[c] = CurrentBirth(c) THEN outdated ELSE outdated \cup {c}
      /\ UNCHANGED <<override, syncConfig, config, entities>>
      /\ (objs \cap Entities \subseteq entities)
  BY DEF CommitCreateConnection
<1>2. OneConfig' /\ BareAtBirth'
  BY <1>1, TableTypes DEF MatchInv, OneConfig, LiveConfigs, BareAtBirth
<1>3. \A s \in syncs : s[1] # c
  BY <1>1 DEF GlobalInv, SyncsAreLive
<1>4. ASSUME NEW d \in Connections \ {c}, NEW k \in ConfigsFor(d)' PROVE PairStep(d, k)
  <2>1. ObjectsOf(d)' = ObjectsOf(d)
    BY <1>1, SameObjects DEF NewSync
  <2> QED
    BY <1>1, <1>4, <2>1, TableTypes, SameConfigsFor DEF PairStep, KeepsSyncs
<1>5. ASSUME NEW k \in ConfigsFor(c)' PROVE PairStep(c, k)
  <2>1. k \in ConfigsFor(c)
    BY <1>1, <1>5, SameConfigsFor
  <2>2. CASE birth[c] # CurrentBirth(c)
    BY <1>1, <2>2 DEF PairStep, Marked
  <2>3. CASE birth[c] = CurrentBirth(c)
    <3>1. ConfigsFor(c) = {k}
      BY <2>1 DEF MatchInv, OneConfig, ConfigsFor, ConnectionsOf
    <3>2. objs = config[k].objects
      BY <2>3, <3>1 DEF CurrentBirth
    <3>3. ObjectsOf(c)' = objs
      <4>1. SyncsOf(c)' = {NewSync(c, o) : o \in objs}
        BY <1>1, <1>3 DEF SyncsOf, NewSync
      <4>2. \A o \in objs : NewSync(c, o)[2] = o
        BY DEF NewSync
      <4>3. ObjectsOf(c)' = {s[2] : s \in {NewSync(c, o) : o \in objs}}
        BY <4>1 DEF ObjectsOf
      <4> QED
        BY <4>2, <4>3
    <3>4. objs \in SUBSET Objects /\ override'[c] = {}
      BY <1>1, TableTypes DEF MatchInv, BareAtBirth, TypeOK, RequestsType, Birth
    <3>5. Want(c, k)' = objs
      <4>1. \A o \in objs : KindOf[o] \in Kinds
        BY <3>4, ConstantsAssumption
      <4>2. Desired(objs, {}) = objs
        BY <4>1 DEF Desired, Overridden, OfKind, Kinds
      <4> QED
        BY <1>1, <3>2, <3>4, <4>2 DEF Want
    <3>6. Fits(c, k)'
      BY <3>3, <3>5 DEF Fits, HasAll, HasOnly, Matches
    <3> QED
      BY <1>1, <2>1, <2>3, <3>6 DEF PairStep
  <2> QED
    BY <2>2, <2>3
<1>6. \A d \in Connections :
        connection[d] \in {"live", "gone"} => connection'[d] \in {"live", "gone"}
  BY <1>1, TableTypes
<1> QED
  BY <1>2, <1>4, <1>5, <1>6 DEF MatchStep

LEMMA ClientOpsMatch ==
  ASSUME TypeOK, GlobalInv, MatchInv,
         \/ \E C \in SUBSET Connections : DeleteCustomer(C)
         \/ \E s \in syncs, pausedState \in BOOLEAN : SetPaused(s, pausedState)
         \/ \E c \in Connections, objs \in Listings : SetConnectionSyncConfig(c, objs)
         \/ \E e \in Entities : DeleteEntity(e)
         \/ RequestFullRun
  PROVE  MatchStep
<1>1. ASSUME NEW C \in SUBSET Connections, DeleteCustomer(C) PROVE MatchStep
  <2>1. \A d \in Connections \ C : ObjectsOf(d)' = ObjectsOf(d)
    BY <1>1, SameObjects DEF DeleteCustomer, DropSyncs
  <2> QED
    BY <1>1, <2>1, TableTypes, ConnectionsGo DEF DeleteCustomer
<1>2. CASE RequestFullRun \/ \E s \in syncs, pausedState \in BOOLEAN : SetPaused(s, pausedState)
  <2>1. UNCHANGED <<connection, override, syncConfig, config, entities, syncs, outdated>>
    BY <1>2 DEF RequestFullRun, SetPaused, tables, history
  <2>2. \A d \in Connections : ObjectsOf(d)' = ObjectsOf(d)
    BY <2>1 DEF ObjectsOf, SyncsOf
  <2> QED
    BY <2>1, <2>2, ConnectionsGo
<1>3. ASSUME NEW c \in Connections, NEW objs \in Listings, SetConnectionSyncConfig(c, objs)
      PROVE  MatchStep
  <2>1. /\ UNCHANGED <<connection, syncConfig, config, entities, syncs, outdated>>
        /\ connection[c] = "live" /\ override' = [override EXCEPT ![c] = objs]
        /\ Marked(c, c)'
    BY <1>3 DEF SetConnectionSyncConfig, history, AddChanges, Marked
  <2>2. OneConfig' /\ BareAtBirth'
    BY <2>1, TableTypes DEF MatchInv, OneConfig, LiveConfigs, BareAtBirth
  <2>3. \A k \in SyncConfigs : Marked(c, k)'
    BY <1>3 DEF SetConnectionSyncConfig, AddChanges, Marked
  <2>4. ASSUME NEW d \in Connections \ {c}, NEW k \in ConfigsFor(d)' PROVE PairStep(d, k)
    <3>1. ObjectsOf(d)' = ObjectsOf(d)
      BY <2>1 DEF ObjectsOf, SyncsOf
    <3> QED
      BY <2>1, <2>4, <3>1, TableTypes, SameConfigsFor DEF PairStep, KeepsSyncs
  <2> QED
    BY <2>1, <2>2, <2>3, <2>4, ConfigsForMeansLater DEF MatchStep, PairStep
<1>4. ASSUME NEW e \in Entities, DeleteEntity(e) PROVE MatchStep
  <2>1. /\ UNCHANGED <<connection, override, syncConfig, config, outdated>>
        /\ entities' = entities \ {e} /\ syncs' = syncs \ {s \in syncs : s[2] = e}
    BY <1>4 DEF DeleteEntity, DropSyncs
  <2>2. OneConfig' /\ BareAtBirth'
    BY <2>1 DEF MatchInv, OneConfig, LiveConfigs, BareAtBirth
  <2>3. \A d \in Connections :
          ObjectsOf(d)' \subseteq ObjectsOf(d) /\ ObjectsOf(d) \ ObjectsOf(d)' \subseteq {e}
    BY <2>1 DEF ObjectsOf, SyncsOf
  <2>4. \A d \in Connections : connection[d] = "live" => KeepsSyncs(d)
    BY <1>4, <2>1, <2>3 DEF KeepsSyncs
  <2> QED
    BY <2>1, <2>2, <2>4, SameConfigsFor DEF MatchStep, PairStep
<1> QED
  BY <1>1, <1>2, <1>3, <1>4

(* Only delete() itself ends the life of a config. *)
LEMMA DropsStayLive ==
  ASSUME TypeOK, DroppedAreLive, ApiNext
  PROVE  DroppedAreLive'
<1>1. ASSUME UNCHANGED <<syncConfig, dropping>> PROVE DroppedAreLive'
  BY <1>1 DEF DroppedAreLive, LiveConfigs
<1>2. ASSUME NEW k \in SyncConfigs,
             \/ \E objs \in Listings, autoStart \in BOOLEAN : CreateSyncConfig(k, objs, autoStart)
             \/ CommitDeleteSyncConfig(k)
      PROVE  DroppedAreLive'
  BY <1>2, TableTypes
  DEF CreateSyncConfig, requests, CommitDeleteSyncConfig, DroppedAreLive, LiveConfigs
<1>3. ASSUME NEW k \in SyncConfigs, BeginDeleteSyncConfig(k) \/ AbortDeleteSyncConfig(k)
      PROVE  DroppedAreLive'
  BY <1>3 DEF BeginDeleteSyncConfig, AbortDeleteSyncConfig, tables, DroppedAreLive, LiveConfigs
<1>4. CASE \/ \E k \in SyncConfigs :
                \/ \E objs \in Listings, autoStart \in BOOLEAN : UpdateSyncConfig(k, objs, autoStart)
                \/ \E o \in Objects : AddObject(k, o)
           \/ \E e \in Entities : DeleteEntity(e)
           \/ \E C \in SUBSET Connections : DeleteCustomer(C)
           \/ \E s \in syncs, pausedState \in BOOLEAN : SetPaused(s, pausedState)
           \/ RequestFullRun
  BY <1>1, <1>4 DEF UpdateSyncConfig, AddObject, DeleteEntity, DeleteCustomer, SetPaused,
                    RequestFullRun, tables, requests
<1>5. CASE \E c \in Connections :
             \/ BeginCreateConnection(c) \/ AbortCreateConnection(c)
             \/ \E autoStart \in BOOLEAN : CommitCreateConnection(c, autoStart)
             \/ BeginDeleteConnection(c) \/ CommitDeleteConnection(c) \/ AbortDeleteConnection(c)
             \/ \E objs \in Listings : SetConnectionSyncConfig(c, objs)
  BY <1>1, <1>5 DEF BeginCreateConnection, AbortCreateConnection, CommitCreateConnection,
                    BeginDeleteConnection, CommitDeleteConnection, AbortDeleteConnection,
                    SetConnectionSyncConfig, tables, requests
<1> QED
  BY <1>2, <1>3, <1>4, <1>5 DEF ApiNext

(* The config that changes has a fresh row, or its connections are outdated. *)
LEMMA ConfigChangesMatch ==
  ASSUME MatchInv, NEW k \in SyncConfigs, OneConfig',
         UNCHANGED <<connection, override, entities>>,
         \A j \in SyncConfigs \ {k} : syncConfig'[j] = syncConfig[j] /\ config'[j] = config[j],
         \A c \in Connections \ ConnectionsOf(k) :
           ObjectsOf(c)' = ObjectsOf(c) /\ (c \in outdated => c \in outdated'),
         \A c \in ConnectionsOf(k) : \A j \in ConfigsFor(c)' : Marked(c, j)'
  PROVE  MatchStep
<1>1. BareAtBirth'
  BY DEF MatchInv, BareAtBirth
<1>2. ASSUME NEW c \in Connections \ ConnectionsOf(k), NEW j \in ConfigsFor(c)'
      PROVE  PairStep(c, j)
  BY <1>2, ConfigsForMeans, ConfigsForMeansLater DEF PairStep, KeepsSyncs
<1> QED
  BY <1>1, <1>2 DEF MatchStep, PairStep

LEMMA ConfigOpsMatch ==
  ASSUME TypeOK, MatchInv, NEW k \in SyncConfigs,
         \/ \E objs \in Listings, autoStart \in BOOLEAN :
              CreateSyncConfig(k, objs, autoStart) \/ UpdateSyncConfig(k, objs, autoStart)
         \/ \E o \in Objects : AddObject(k, o)
         \/ BeginDeleteSyncConfig(k) \/ CommitDeleteSyncConfig(k) \/ AbortDeleteSyncConfig(k)
  PROVE  MatchStep
<1>0. \A c \in Connections : c \in ConnectionsOf(k) => \A j \in ConfigsFor(c)' :
        ProviderOfConfig[j] = ProviderOfConfig[k]
  BY DEF ConfigsFor, ConnectionsOf
<1>1. ASSUME NEW objs \in Listings, NEW autoStart \in BOOLEAN,
             CreateSyncConfig(k, objs, autoStart) \/ UpdateSyncConfig(k, objs, autoStart)
      PROVE  MatchStep
  <2>1. /\ UNCHANGED <<connection, override, entities, syncs>>
        /\ config' = [config EXCEPT ![k] = [objects |-> objs, autoStart |-> autoStart]]
        /\ AddChanges({}, {k}, {}) /\ outdated' = outdated \ ConnectionsOf(k)
    BY <1>1 DEF CreateSyncConfig, UpdateSyncConfig
  <2>2. /\ \A j \in SyncConfigs \ {k} : syncConfig'[j] = syncConfig[j]
        /\ syncConfig'[k] = "live" /\ OneConfig'
    BY <1>1, TableTypes DEF CreateSyncConfig, UpdateSyncConfig, MatchInv, OneConfig, LiveConfigs
  <2>3. \A c \in Connections : ObjectsOf(c)' = ObjectsOf(c)
    BY <2>1 DEF ObjectsOf, SyncsOf
  <2>4. \A c : Marked(c, k)'
    BY <2>1 DEF Marked, AddChanges
  <2>5. \A c \in ConnectionsOf(k) : \A j \in ConfigsFor(c)' : j = k
    BY <1>0, <2>2 DEF OneConfig, ConfigsFor, LiveConfigs, ConnectionsOf
  <2> QED
    BY <2>1, <2>2, <2>3, <2>4, <2>5, TableTypes, ConfigChangesMatch
<1>2. ASSUME NEW o \in Objects, AddObject(k, o) PROVE MatchStep
  <2>1. /\ UNCHANGED <<connection, override, syncConfig, entities, syncs>>
        /\ \A j \in SyncConfigs \ {k} : config'[j] = config[j]
        /\ outdated' = outdated \cup ConnectionsOf(k)
    BY <1>2, TableTypes DEF AddObject
  <2>2. OneConfig' /\ \A c \in Connections : ObjectsOf(c)' = ObjectsOf(c)
    BY <2>1 DEF MatchInv, OneConfig, LiveConfigs, ObjectsOf, SyncsOf
  <2>3. \A c \in ConnectionsOf(k) : \A j : Marked(c, j)'
    BY <2>1 DEF Marked
  <2> QED
    BY <2>1, <2>2, <2>3, ConfigChangesMatch
<1>3. CASE BeginDeleteSyncConfig(k) \/ AbortDeleteSyncConfig(k)
  <2>1. UNCHANGED <<connection, override, syncConfig, config, entities, syncs, outdated>>
    BY <1>3 DEF BeginDeleteSyncConfig, AbortDeleteSyncConfig, tables, history
  <2>2. \A d \in Connections : ObjectsOf(d)' = ObjectsOf(d)
    BY <2>1 DEF ObjectsOf, SyncsOf
  <2> QED
    BY <2>1, <2>2, ConnectionsGo
<1>4. CASE CommitDeleteSyncConfig(k)
  <2>1. /\ UNCHANGED <<connection, override, entities, outdated>>
        /\ syncConfig' = [syncConfig EXCEPT ![k] = "gone"]
        /\ config' = [config EXCEPT ![k] = NoConfig]
        /\ syncs' = syncs \ SyncsUnder(k) /\ k \in dropping
    BY <1>4 DEF CommitDeleteSyncConfig, DropSyncs
  <2>2. \A j \in SyncConfigs \ {k} : syncConfig'[j] = syncConfig[j] /\ config'[j] = config[j]
    BY <2>1, TableTypes
  <2>3. syncConfig'[k] = "gone" /\ OneConfig'
    BY <2>1, <2>2, TableTypes DEF MatchInv, OneConfig, LiveConfigs
  <2>4. \A c \in Connections \ ConnectionsOf(k) : ObjectsOf(c)' = ObjectsOf(c)
    BY <2>1, SameObjects DEF SyncsUnder
  <2>5. \A c \in ConnectionsOf(k) : ConfigsFor(c)' = {}
    BY <2>1, <2>2, <2>3 DEF MatchInv, DroppedAreLive, OneConfig, ConfigsFor, LiveConfigs, ConnectionsOf
  <2> QED
    BY <2>1, <2>2, <2>3, <2>4, <2>5, ConfigChangesMatch
<1> QED
  BY <1>1, <1>2, <1>3, <1>4

LEMMA ApiKeepsMatch == IndInv /\ MatchInv /\ ApiNext => MatchInv'
<1> SUFFICES ASSUME IndInv, MatchInv, ApiNext PROVE MatchInv'
  OBVIOUS
<1>1. TypeOK /\ GlobalInv /\ ApiStep
  BY ApiContract DEF IndInv
<1>2. MatchStep
  BY <1>1, ConnectionOpsMatch, CreationMatches, ClientOpsMatch, ConfigOpsMatch DEF ApiNext
<1>3. DroppedAreLive'
  BY <1>1, DropsStayLive DEF MatchInv
<1> QED
  BY <1>1, <1>2, <1>3, MatchStepKeeps

-----------------------------------------------------------------------------
(* The attempt *)

(* What the properties of a pair depend on beside the attempt. *)
database == <<connection, override, syncConfig, config, entities, outdated>>

LEMMA AttemptLeavesDatabase ==
  ASSUME NEW w \in Attempts, AttemptNext(w) \/ Crash(w)
  PROVE  UNCHANGED <<database, dropping>>
BY DEF AttemptNext, Crash, Start, ReadConnChanges, LoadConnections, LoadConfigs, CreateSyncs,
       InsertSyncChanges, RemoveSyncs, FinishPart1, ReadConfigChanges, LoadChangedConfigs,
       LoadConnectionsOf, FinishPart2, ReadSyncChanges, LoadSyncs, PauseDoomed, DeleteDoomed,
       UpdateStrategy, UpsertSchedule, FinishPart3, ResetFull, Throw, shared, tables, history,
       requests, database

(* What has to hold again after a step of the attempt. *)
AttemptMatch(w) ==
  /\ SyncsMatchConfig /\ WorkIsKnown(w)
  /\ \A c \in Connections : \A k \in ConfigsFor(c) : PairInv(w, c, k)

LEMMA SameMatch ==
  ASSUME SyncsMatchConfig, UNCHANGED <<database, syncs, connChanges, configChanges>>
  PROVE  /\ SyncsMatchConfig'
         /\ \A c : ConfigsFor(c)' = ConfigsFor(c)
         /\ \A c \in Connections, k \in SyncConfigs :
              /\ HasAll(c, k)' <=> HasAll(c, k)
              /\ HasOnly(c, k)' <=> HasOnly(c, k)
<1>1. \A c : ConfigsFor(c)' = ConfigsFor(c)
  BY DEF database, ConfigsFor, LiveConfigs
<1>2. \A c : ObjectsOf(c)' = ObjectsOf(c)
  BY DEF ObjectsOf, SyncsOf
<1>3. ASSUME NEW c \in Connections, NEW k \in SyncConfigs
      PROVE  (HasAll(c, k)' <=> HasAll(c, k)) /\ (HasOnly(c, k)' <=> HasOnly(c, k))
  BY <1>2, SameFit DEF database
<1>4. \A c \in Connections, k \in SyncConfigs : Up(c, k)' <=> Up(c, k)
  BY DEF Up, database
<1>5. \A c \in Connections : \A k \in ConfigsFor(c) :
        connection'[c] = "live" /\ Up(c, k)' => Fits(c, k)'
  BY <1>3, <1>4, MatchMeansNow DEF Fits, ConfigsFor, LiveConfigs, database
<1> QED
  BY <1>1, <1>3, <1>5, MatchMeans

(* Steps outside parts 1 and 2, and failures. *)
LEMMA OutsideMatches ==
  ASSUME IndInv, MatchInv, NEW w \in Attempts,
         \/ Start(w) \/ ReadSyncChanges(w) \/ LoadSyncs(w) \/ PauseDoomed(w) \/ DeleteDoomed(w)
         \/ \E s \in batch[w].todo : UpdateStrategy(w, s)
         \/ UpsertSchedule(w) \/ FinishPart3(w) \/ ResetFull(w) \/ Throw(w) \/ Crash(w)
  PROVE  AttemptMatch(w)'
<1>1. UNCHANGED <<database, syncs, connChanges, configChanges>>
  BY DEF Start, ReadSyncChanges, LoadSyncs, PauseDoomed, DeleteDoomed, UpdateStrategy,
         UpsertSchedule, FinishPart3, ResetFull, Throw, Crash, shared, tables, outbox, history,
         database
<1>2. ASSUME Clear(w) PROVE AtRest(w)'
  BY <1>2, Typed DEF Clear, Plans, AtRest, TypeOK, LocalsType
<1>3. ASSUME pc[w] \notin PlanPCs, UNCHANGED <<plan, connRows, configRows>> PROVE AtRest(w)'
  BY <1>3, Typed DEF AttemptInv, LocalsMatchPC, InPart, AtRest
<1>4. AtRest(w)'
  <2>1. Clear(w) \/ UNCHANGED <<plan, connRows, configRows>>
    BY DEF Start, ReadSyncChanges, LoadSyncs, PauseDoomed, DeleteDoomed, UpdateStrategy,
           UpsertSchedule, FinishPart3, ResetFull, Throw, Crash, read
  <2>2. Clear(w) \/ pc[w] \notin PlanPCs
    BY DEF Start, ReadSyncChanges, LoadSyncs, PauseDoomed, DeleteDoomed, UpdateStrategy,
           UpsertSchedule, FinishPart3, ResetFull, Throw, Crash, At, PlanPCs, Loop
  <2> QED
    BY <1>2, <1>3, <2>1, <2>2
<1> QED
  BY <1>1, <1>4, SameMatch, RestIsFine DEF MatchInv, AttemptMatch

(* What an attempt in part 1 or 2 has and leaves. *)
LEMMA InPartFacts ==
  ASSUME IndInv, MatchInv, NEW w \in Attempts
  PROVE  /\ plan[w] \in Plan /\ WorkIsKnown(w) /\ SyncsMatchConfig
         /\ \A c \in Connections : \A k \in ConfigsFor(c) : PairInv(w, c, k)
         /\ plan[w].connTodo \cup plan[w].cur \subseteq Connections
         /\ plan[w].known \cup plan[w].configTodo \subseteq SyncConfigs
         /\ pc[w] \notin {"insert", "remove"} => plan[w].cur = {}
BY Typed DEF MatchInv, WorkIsKnown, Plan

LEMMA ReadConnChangesMatches ==
  ASSUME IndInv, MatchInv, NEW w \in Attempts, ReadConnChanges(w)
  PROVE  AttemptMatch(w)'
<1> DEFINE next == [plan[w] EXCEPT !.part = 1, !.connTodo = connChanges]
<1>1. /\ pc[w] = "readConnChanges" /\ pc'[w] = "loadConnections" /\ connRows'[w] = connChanges
      /\ plan'[w] = next /\ UNCHANGED <<configRows, shared>>
  BY Typed DEF ReadConnChanges, At, Goto, Plans, TypeOK, LocalsType
<1>2. plan[w] = NoPlan /\ connRows[w] = {} /\ configRows[w] = {}
  BY <1>1, Typed DEF AttemptInv, LocalsMatchPC, InPart, PlanPCs, Loop, BatchPCs, Loaded
<1>3. next.connTodo = connChanges /\ next.cur = {} /\ next.configTodo = {}
  BY <1>2 DEF NoPlan
<1> HIDE DEF next
<1>4. UNCHANGED <<database, syncs, connChanges, configChanges>>
  BY <1>1 DEF shared, tables, outbox, history, database
<1>5. WorkIsKnown(w)'
  BY <1>1, <1>3, Typed DEF WorkIsKnown, shared, tables, GlobalInv, ChangesAreKnown
<1>6. ASSUME NEW c \in Connections, NEW k \in ConfigsFor(c)', UpWithout(w, c, k)'
      PROVE  /\ ConfigIsCurrent(w, c, k)' /\ OverrideIsCurrent(w, c)'
             /\ connection'[c] = "live" => Owed(w, c, k)'
  <2>1. ConfigIsCurrent(w, c, k)' /\ OverrideIsCurrent(w, c)'
    BY <1>1 DEF ConfigIsCurrent, OverrideIsCurrent, Loop
  <2>2. CASE c \in connChanges
    BY <1>1, <1>3, <2>1, <2>2 DEF Owed, ToDo, InWork
  <2>3. CASE c \notin connChanges
    <3>1. Up(c, k)' /\ k \in SyncConfigs
      BY <1>1, <1>2, <1>4, <1>6, <2>3 DEF UpWithout, Up, database, ConfigsFor, LiveConfigs
    <3>2. connection'[c] = "live" => Fits(c, k)'
      BY <1>4, <3>1, InPartFacts, SameMatch, MatchMeans
    <3> QED
      BY <1>1, <1>3, <2>1, <3>2 DEF Owed
  <2> QED
    BY <2>2, <2>3
<1> QED
  BY <1>4, <1>5, <1>6, InPartFacts, SameMatch DEF AttemptMatch, PairInv

LEMMA LoadConnectionsMatches ==
  ASSUME IndInv, MatchInv, NEW w \in Attempts, LoadConnections(w)
  PROVE  AttemptMatch(w)'
<1> DEFINE todo == IF full[w] THEN LiveConnections ELSE plan[w].connTodo \cap LiveConnections
           next == [plan[w] EXCEPT !.connTodo = todo, !.overrides = override]
<1>1. /\ pc[w] = "loadConnections" /\ pc'[w] = "loadConfigs"
      /\ plan'[w] = next /\ UNCHANGED <<connRows, configRows, shared>>
  BY Typed DEF LoadConnections, At, Goto, Plans, read, TypeOK, LocalsType
<1>2. plan[w].configTodo = {} /\ plan[w].cur = {}
  BY <1>1, Typed, InPartFacts DEF AttemptInv, LocalsMatchPC
<1>3. next.connTodo = todo /\ next.overrides = override /\ next.cur = {} /\ next.configTodo = {}
  BY <1>2, Typed DEF Plan
<1>4. todo \subseteq LiveConnections /\ plan[w].connTodo \cap LiveConnections \subseteq todo
  OBVIOUS
<1> HIDE DEF next, todo
<1>5. UNCHANGED <<database, syncs, connChanges, configChanges>>
  BY <1>1 DEF shared, tables, outbox, history, database
<1>6. WorkIsKnown(w)'
  BY <1>1, <1>3, <1>4, <1>5 DEF WorkIsKnown, LiveConnections, database
<1>7. ASSUME NEW c \in Connections, NEW k \in ConfigsFor(c)', UpWithout(w, c, k)'
      PROVE  /\ ConfigIsCurrent(w, c, k)' /\ OverrideIsCurrent(w, c)'
             /\ connection'[c] = "live" => Owed(w, c, k)'
  <2>1. ConfigIsCurrent(w, c, k)' /\ OverrideIsCurrent(w, c)'
    BY <1>1, <1>3, <1>5 DEF ConfigIsCurrent, OverrideIsCurrent, Loop, database
  <2>2. UpWithout(w, c, k) /\ k \in ConfigsFor(c) /\ k \in SyncConfigs
    BY <1>1, <1>5, <1>7, InPartFacts, SameMatch
    DEF UpWithout, database, ConfigsFor, LiveConfigs
  <2>3. ASSUME connection[c] = "live" PROVE Owed(w, c, k)'
    <3>1. Fits(c, k) \/ c \in plan[w].connTodo
      BY <1>2, <2>2, <2>3, InPartFacts DEF PairInv, Owed, ToDo, InWork
    <3>2. Fits(c, k)' \/ c \in todo
      BY <1>4, <1>5, <2>2, <2>3, <3>1, InPartFacts, SameMatch DEF Fits, LiveConnections
    <3> QED
      BY <1>1, <1>3, <3>2 DEF Owed, ToDo, InWork
  <2> QED
    BY <1>5, <2>1, <2>3 DEF database
<1> QED
  BY <1>5, <1>6, <1>7, InPartFacts, SameMatch DEF AttemptMatch, PairInv

LEMMA LoadConfigsMatches ==
  ASSUME IndInv, MatchInv, NEW w \in Attempts, LoadConfigs(w)
  PROVE  AttemptMatch(w)'
<1> DEFINE known == UNION {ConfigsFor(c) : c \in plan[w].connTodo}
           next == [plan[w] EXCEPT !.known = known, !.contents = config]
<1>1. /\ pc[w] = "loadConfigs" /\ pc'[w] = "create"
      /\ plan'[w] = next /\ UNCHANGED <<connRows, configRows, shared>>
  BY Typed DEF LoadConfigs, At, Goto, Plans, read, TypeOK, LocalsType
<1>2. plan[w].configTodo = {} /\ plan[w].cur = {}
  BY <1>1, Typed, InPartFacts DEF AttemptInv, LocalsMatchPC
<1>3. /\ next.connTodo = plan[w].connTodo /\ next.overrides = plan[w].overrides
      /\ next.cur = {} /\ next.configTodo = {} /\ next.known = known /\ next.contents = config
  BY <1>2, Typed DEF Plan
<1>4. known \subseteq LiveConfigs
  BY DEF ConfigsFor
<1> HIDE DEF next, known
<1>5. UNCHANGED <<database, syncs, connChanges, configChanges>>
  BY <1>1 DEF shared, tables, outbox, history, database
<1>6. WorkIsKnown(w)'
  BY <1>1, <1>2, <1>3, <1>5, InPartFacts DEF WorkIsKnown, database
<1>7. ASSUME NEW c \in Connections, NEW k \in ConfigsFor(c)', UpWithout(w, c, k)'
      PROVE  /\ ConfigIsCurrent(w, c, k)'
             /\ connection'[c] = "live" => Owed(w, c, k)' /\ OverrideIsCurrent(w, c)'
  <2>1. UpWithout(w, c, k) /\ k \in ConfigsFor(c) /\ k \in LiveConfigs /\ k \in SyncConfigs
    BY <1>1, <1>5, <1>7, InPartFacts, SameMatch
    DEF UpWithout, database, ConfigsFor, LiveConfigs
  <2>2. ConfigIsCurrent(w, c, k)'
    <3> SUFFICES ASSUME NEW j \in known, c \in ConnectionsOf(j) PROVE j = k
      BY <1>1, <1>3, <1>5 DEF ConfigIsCurrent, database
    <3> QED
      BY <1>4, <2>1 DEF MatchInv, OneConfig, ConfigsFor, ConnectionsOf
  <2>3. ASSUME connection[c] = "live" PROVE Owed(w, c, k)' /\ OverrideIsCurrent(w, c)'
    <3>1. Owed(w, c, k) /\ OverrideIsCurrent(w, c)
      BY <2>1, <2>3, InPartFacts DEF PairInv
    <3>2. OverrideIsCurrent(w, c)'
      BY <1>1, <1>2, <1>3, <1>5, <3>1 DEF OverrideIsCurrent, InWork, database
    <3>3. Owed(w, c, k)'
      BY <1>1, <1>2, <1>3, <1>5, <2>1, <3>1, InPartFacts, SameMatch DEF Owed, Fits, ToDo, InWork
    <3> QED
      BY <3>2, <3>3
  <2> QED
    BY <1>5, <2>2, <2>3 DEF database
<1> QED
  BY <1>5, <1>6, <1>7, InPartFacts, SameMatch DEF AttemptMatch, PairInv

LEMMA ReadConfigChangesMatches ==
  ASSUME IndInv, MatchInv, NEW w \in Attempts, ReadConfigChanges(w)
  PROVE  AttemptMatch(w)'
<1> DEFINE next == [plan[w] EXCEPT !.part = 2, !.configTodo = configChanges]
<1>1. /\ pc[w] = "readConfigChanges" /\ pc'[w] = "loadChangedConfigs"
      /\ configRows'[w] = configChanges
      /\ plan'[w] = next /\ UNCHANGED <<connRows, shared>>
  BY Typed DEF ReadConfigChanges, At, Goto, Plans, TypeOK, LocalsType
<1>2. plan[w] = NoPlan /\ connRows[w] = {} /\ configRows[w] = {}
  BY <1>1, Typed DEF AttemptInv, LocalsMatchPC, InPart, PlanPCs, Loop, BatchPCs, Loaded
<1>3. next.connTodo = {} /\ next.cur = {} /\ next.configTodo = configChanges
  BY <1>2 DEF NoPlan
<1> HIDE DEF next
<1>4. UNCHANGED <<database, syncs, connChanges, configChanges>>
  BY <1>1 DEF shared, tables, outbox, history, database
<1>5. WorkIsKnown(w)'
  BY <1>1, <1>3 DEF WorkIsKnown
<1>6. ASSUME NEW c \in Connections, NEW k \in ConfigsFor(c)', UpWithout(w, c, k)'
      PROVE  /\ ConfigIsCurrent(w, c, k)' /\ OverrideIsCurrent(w, c)'
             /\ connection'[c] = "live" => Owed(w, c, k)'
  <2>1. ConfigIsCurrent(w, c, k)' /\ OverrideIsCurrent(w, c)'
    BY <1>1 DEF ConfigIsCurrent, OverrideIsCurrent, Loop
  <2>2. CASE k \in configChanges
    BY <1>1, <1>3, <2>1, <2>2 DEF Owed, ToDo
  <2>3. CASE k \notin configChanges
    <3>1. Up(c, k)' /\ k \in SyncConfigs
      BY <1>1, <1>2, <1>4, <1>6, <2>3 DEF UpWithout, Up, database, ConfigsFor, LiveConfigs
    <3>2. connection'[c] = "live" => Fits(c, k)'
      BY <1>4, <3>1, InPartFacts, SameMatch, MatchMeans
    <3> QED
      BY <1>1, <1>3, <2>1, <3>2 DEF Owed
  <2> QED
    BY <2>2, <2>3
<1> QED
  BY <1>4, <1>5, <1>6, InPartFacts, SameMatch DEF AttemptMatch, PairInv

LEMMA LoadChangedConfigsMatches ==
  ASSUME IndInv, MatchInv, NEW w \in Attempts, LoadChangedConfigs(w)
  PROVE  AttemptMatch(w)'
<1> DEFINE todo == IF full[w] THEN LiveConfigs ELSE plan[w].configTodo \cap LiveConfigs
           next == [plan[w] EXCEPT !.configTodo = todo, !.contents = config]
<1>1. /\ pc[w] = "loadChangedConfigs" /\ pc'[w] = "create"
      /\ plan'[w] = next /\ UNCHANGED <<connRows, configRows, shared>>
  BY Typed DEF LoadChangedConfigs, At, Goto, Plans, read, TypeOK, LocalsType
<1>2. plan[w].connTodo = {} /\ plan[w].known = {} /\ plan[w].cur = {}
  BY <1>1, Typed, InPartFacts DEF AttemptInv, LocalsMatchPC
<1>3. /\ next.connTodo = {} /\ next.known = {} /\ next.cur = {}
      /\ next.configTodo = todo /\ next.contents = config
  BY <1>2, Typed DEF Plan
<1>4. todo \subseteq LiveConfigs /\ plan[w].configTodo \cap LiveConfigs \subseteq todo
  OBVIOUS
<1> HIDE DEF next, todo
<1>5. UNCHANGED <<database, syncs, connChanges, configChanges>>
  BY <1>1 DEF shared, tables, outbox, history, database
<1>6. WorkIsKnown(w)'
  BY <1>1, <1>3 DEF WorkIsKnown
<1>7. ASSUME NEW c \in Connections, NEW k \in ConfigsFor(c)', UpWithout(w, c, k)'
      PROVE  /\ ConfigIsCurrent(w, c, k)' /\ OverrideIsCurrent(w, c)'
             /\ connection'[c] = "live" => Owed(w, c, k)'
  <2>1. UpWithout(w, c, k) /\ k \in ConfigsFor(c) /\ k \in LiveConfigs /\ k \in SyncConfigs
    BY <1>1, <1>5, <1>7, InPartFacts, SameMatch
    DEF UpWithout, database, ConfigsFor, LiveConfigs
  <2>2. ConfigIsCurrent(w, c, k)'
    <3> SUFFICES ASSUME NEW j \in todo, c \in ConnectionsOf(j) PROVE j = k
      BY <1>1, <1>3, <1>5 DEF ConfigIsCurrent, database
    <3> QED
      BY <1>4, <2>1 DEF MatchInv, OneConfig, ConfigsFor, ConnectionsOf
  <2>3. OverrideIsCurrent(w, c)'
    BY <1>1, <1>3 DEF OverrideIsCurrent, InWork
  <2>4. ASSUME connection[c] = "live" PROVE Owed(w, c, k)'
    <3>1. Fits(c, k) \/ k \in plan[w].configTodo
      BY <1>2, <2>1, <2>4, InPartFacts DEF PairInv, Owed, ToDo, InWork
    <3>2. Fits(c, k)' \/ k \in todo
      BY <1>4, <1>5, <2>1, <3>1, InPartFacts, SameMatch DEF Fits
    <3> QED
      BY <1>1, <1>3, <3>2 DEF Owed, ToDo
  <2> QED
    BY <1>5, <2>2, <2>3, <2>4 DEF database
<1> QED
  BY <1>5, <1>6, <1>7, InPartFacts, SameMatch DEF AttemptMatch, PairInv

LEMMA LoadConnectionsOfMatches ==
  ASSUME IndInv, MatchInv, NEW w \in Attempts, NEW k0 \in SyncConfigs, LoadConnectionsOf(w, k0)
  PROVE  AttemptMatch(w)'
<1> DEFINE todo == ConnectionsOf(k0) \cap LiveConnections
           next == [plan[w] EXCEPT !.connTodo = todo, !.overrides = override,
                                   !.known = {k0}, !.configTodo = plan[w].configTodo \ {k0}]
<1>1. /\ pc[w] = "create" /\ pc'[w] = "create" /\ plan[w].connTodo = {}
      /\ k0 \in plan[w].configTodo
      /\ plan'[w] = next /\ UNCHANGED <<connRows, configRows, shared>>
  BY Typed DEF LoadConnectionsOf, At, Plans, read, TypeOK, LocalsType
<1>2. plan[w].cur = {}
  BY <1>1, InPartFacts
<1>3. /\ next.connTodo = todo /\ next.overrides = override /\ next.known = {k0}
      /\ next.cur = {} /\ next.configTodo = plan[w].configTodo \ {k0}
      /\ next.contents = plan[w].contents
  BY <1>2, Typed DEF Plan
<1>4. todo \subseteq LiveConnections
  OBVIOUS
<1> HIDE DEF next
<1>5. UNCHANGED <<database, syncs, connChanges, configChanges>>
  BY <1>1 DEF shared, tables, outbox, history, database
<1>6. WorkIsKnown(w)'
  BY <1>1, <1>3, <1>4, <1>5 DEF WorkIsKnown, LiveConnections, database
<1>7. ASSUME NEW c \in Connections, NEW k \in ConfigsFor(c)', UpWithout(w, c, k)'
      PROVE  /\ ConfigIsCurrent(w, c, k)' /\ OverrideIsCurrent(w, c)'
             /\ connection'[c] = "live" => Owed(w, c, k)'
  <2>1. UpWithout(w, c, k) /\ k \in ConfigsFor(c) /\ k \in SyncConfigs /\ c \in ConnectionsOf(k)
    BY <1>1, <1>5, <1>7, InPartFacts, SameMatch
    DEF UpWithout, database, ConfigsFor, LiveConfigs
  <2>2. ConfigIsCurrent(w, c, k)
    BY <2>1, InPartFacts DEF PairInv
  <2>3. ConfigIsCurrent(w, c, k)'
    BY <1>1, <1>3, <1>5, <2>2 DEF ConfigIsCurrent, database
  <2>4. OverrideIsCurrent(w, c)'
    BY <1>1, <1>3, <1>5 DEF OverrideIsCurrent, database
  <2>5. ASSUME connection[c] = "live" PROVE Owed(w, c, k)'
    <3>1. Fits(c, k) \/ k \in plan[w].configTodo
      BY <1>1, <1>2, <2>1, <2>5, InPartFacts DEF PairInv, Owed, ToDo, InWork
    <3>2. Fits(c, k)' \/ k \in plan[w].configTodo \ {k0} \/ c \in todo
      BY <1>5, <2>1, <2>5, <3>1, InPartFacts, SameMatch DEF Fits, LiveConnections
    <3> QED
      BY <1>1, <1>3, <3>2 DEF Owed, ToDo, InWork
  <2> QED
    BY <1>5, <2>3, <2>4, <2>5 DEF database
<1> QED
  BY <1>5, <1>6, <1>7, InPartFacts, SameMatch DEF AttemptMatch, PairInv

-----------------------------------------------------------------------------
(* The loop: create, insert, remove *)

(* The copies of a connection in work are current, or a row says otherwise. *)
LEMMA ArgsAreCurrent ==
  ASSUME IndInv, MatchInv, NEW w \in Attempts, pc[w] \in Loop,
         NEW c \in Connections, NEW k \in ConfigsFor(c), connection[c] = "live",
         UpWithout(w, c, k), InWork(w, c), KnownFor(w, c) # {}
  PROVE  Args(w, c) = Want(c, k)
<1>1. ConfigIsCurrent(w, c, k) /\ OverrideIsCurrent(w, c)
  BY InPartFacts DEF PairInv
<1>2. \A j \in KnownFor(w, c) : j = k /\ plan[w].contents[j] = config[j]
  BY <1>1 DEF ConfigIsCurrent, KnownFor
<1>3. KnownFor(w, c) = {k} /\ plan[w].contents[k] = config[k]
  BY <1>2
<1>4. plan[w].overrides[c] = override[c]
  BY <1>1 DEF OverrideIsCurrent
<1>5. UNION {plan[w].contents[j].objects : j \in KnownFor(w, c)} = config[k].objects
  BY <1>3
<1> QED
  BY <1>4, <1>5 DEF Args, Want

LEMMA UpIsUpWithout ==
  ASSUME NEW w \in Attempts, NEW c, NEW k, Up(c, k)
  PROVE  UpWithout(w, c, k)
BY DEF Up, UpWithout

LEMMA CreateSyncsMatches ==
  ASSUME IndInv, MatchInv, NEW w \in Attempts, NEW c0 \in Connections, CreateSyncs(w, c0)
  PROVE  AttemptMatch(w)'
<1> DEFINE next == [plan[w] EXCEPT !.cur = {c0}, !.connTodo = plan[w].connTodo \ {c0}]
<1>1. /\ pc[w] = "create" /\ pc'[w] = "insert" /\ c0 \in plan[w].connTodo
      /\ KnownFor(w, c0) # {}
      /\ syncs' = syncs \cup {NewSync(c0, o) : o \in Missing(w, c0)}
      /\ plan'[w] = next /\ UNCHANGED <<connRows, configRows, connChanges, configChanges>>
      /\ UNCHANGED database
  BY Typed DEF CreateSyncs, CanCreate, At, Goto, Plans, read, outbox, history, database, TypeOK,
               LocalsType
<1>2. plan[w].cur = {}
  BY <1>1, InPartFacts
<1>3. /\ next.connTodo = plan[w].connTodo \ {c0} /\ next.cur = {c0}
      /\ next.overrides = plan[w].overrides /\ next.known = plan[w].known
      /\ next.configTodo = plan[w].configTodo /\ next.contents = plan[w].contents
  BY Typed DEF Plan
<1> HIDE DEF next
<1>4. \A c \in Connections \ {c0} : ObjectsOf(c)' = ObjectsOf(c)
  BY <1>1, SameObjects DEF NewSync
<1>5. ObjectsOf(c0)' = ObjectsOf(c0) \cup Args(w, c0)
  <2> DEFINE new == {NewSync(c0, o) : o \in Missing(w, c0)}
  <2>1. SyncsOf(c0)' = SyncsOf(c0) \cup new
    BY <1>1 DEF SyncsOf, NewSync
  <2>2. {s[2] : s \in new} = Missing(w, c0)
    <3>1. \A o \in Missing(w, c0) : NewSync(c0, o)[2] = o
      BY DEF NewSync
    <3> QED
      BY <3>1
  <2> HIDE DEF new
  <2>3. ObjectsOf(c0)' = ObjectsOf(c0) \cup {s[2] : s \in new}
    BY <2>1 DEF ObjectsOf
  <2>4. Missing(w, c0) = Args(w, c0) \ ObjectsOf(c0)
    BY DEF Missing, ObjectsOf
  <2> QED
    BY <2>2, <2>3, <2>4
<1>6. \A c \in Connections : /\ ConfigsFor(c)' = ConfigsFor(c)
                             /\ InWork(w, c)' <=> InWork(w, c)
  BY <1>1, <1>2, <1>3, SameConfigsFor DEF InWork, database
<1>7. \A c \in Connections \ {c0}, k \in SyncConfigs :
        (HasAll(c, k)' <=> HasAll(c, k)) /\ (HasOnly(c, k)' <=> HasOnly(c, k))
  BY <1>1, <1>4, SameFit DEF database
<1>8. ASSUME NEW k \in ConfigsFor(c0), connection[c0] = "live", UpWithout(w, c0, k)
      PROVE  HasAll(c0, k)' /\ (HasOnly(c0, k) => HasOnly(c0, k)')
  <2>1. Args(w, c0) = Want(c0, k)
    BY <1>1, <1>8, ArgsAreCurrent DEF InWork, Loop
  <2>2. Want(c0, k)' = Want(c0, k)
    BY <1>1 DEF Want, database
  <2> QED
    BY <1>5, <2>1, <2>2 DEF HasAll, HasOnly, Matches
<1>9. SyncsMatchConfig'
  <2> SUFFICES ASSUME NEW c \in Connections, NEW k \in ConfigsFor(c), connection[c] = "live",
                      Up(c, k)
               PROVE  Fits(c, k)'
    BY <1>1, <1>6, MatchMeans DEF database, Up
  <2>1. Fits(c, k) /\ k \in SyncConfigs
    BY InPartFacts, MatchMeansNow DEF ConfigsFor, LiveConfigs
  <2> QED
    BY <1>7, <1>8, <2>1, UpIsUpWithout DEF Fits
<1>10. WorkIsKnown(w)'
  <2>1. KnownFor(w, c0)' = KnownFor(w, c0)
    BY <1>1, <1>3 DEF KnownFor
  <2> QED
    BY <1>1, <1>3, <2>1, InPartFacts DEF WorkIsKnown, database
<1>11. ASSUME NEW c \in Connections, NEW k \in ConfigsFor(c)', UpWithout(w, c, k)'
       PROVE  /\ ConfigIsCurrent(w, c, k)'
              /\ connection'[c] = "live" => Owed(w, c, k)' /\ OverrideIsCurrent(w, c)'
  <2>1. UpWithout(w, c, k) /\ k \in ConfigsFor(c) /\ k \in SyncConfigs
    BY <1>1, <1>6, <1>11 DEF UpWithout, database, ConfigsFor, LiveConfigs
  <2>2. ConfigIsCurrent(w, c, k)'
    BY <1>1, <1>3, <2>1, InPartFacts DEF PairInv, ConfigIsCurrent, Loop, database
  <2>3. ASSUME connection[c] = "live" PROVE Owed(w, c, k)' /\ OverrideIsCurrent(w, c)'
    <3>1. Owed(w, c, k) /\ OverrideIsCurrent(w, c)
      BY <2>1, <2>3, InPartFacts DEF PairInv
    <3>2. OverrideIsCurrent(w, c)'
      BY <1>1, <1>3, <1>6, <3>1 DEF OverrideIsCurrent, Loop, database
    <3>3. Owed(w, c, k)'
      <4>1. CASE c = c0
        BY <1>1, <1>3, <1>8, <2>1, <2>3, <4>1 DEF Owed, ToDo, InWork
      <4>2. CASE c # c0
        BY <1>1, <1>3, <1>6, <1>7, <2>1, <3>1, <4>2 DEF Owed, Fits, ToDo
      <4> QED
        BY <4>1, <4>2
    <3> QED
      BY <3>2, <3>3
  <2> QED
    BY <1>1, <2>2, <2>3 DEF database
<1> QED
  BY <1>9, <1>10, <1>11 DEF AttemptMatch, PairInv

LEMMA InsertSyncChangesMatches ==
  ASSUME IndInv, MatchInv, NEW w \in Attempts, InsertSyncChanges(w)
  PROVE  AttemptMatch(w)'
<1>1. /\ pc[w] = "insert" /\ pc'[w] = "remove"
      /\ connRows'[w] = connRows[w] /\ configRows'[w] = configRows[w]
      /\ UNCHANGED <<database, syncs, connChanges, configChanges, plan>>
  BY Typed DEF InsertSyncChanges, AddChanges, At, Goto, tables, history, database, TypeOK, LocalsType
<1>2. WorkIsKnown(w)'
  <2>1. \A c : KnownFor(w, c)' = KnownFor(w, c)
    BY <1>1 DEF KnownFor
  <2> QED
    BY <1>1, <2>1, InPartFacts DEF WorkIsKnown, database
<1>3. ASSUME NEW c \in Connections, NEW k \in ConfigsFor(c)', UpWithout(w, c, k)'
      PROVE  /\ ConfigIsCurrent(w, c, k)'
             /\ connection'[c] = "live" => Owed(w, c, k)' /\ OverrideIsCurrent(w, c)'
  <2>1. UpWithout(w, c, k) /\ k \in ConfigsFor(c) /\ k \in SyncConfigs
    BY <1>1, <1>3, InPartFacts, SameMatch DEF UpWithout, database, ConfigsFor, LiveConfigs
  <2>2. PairInv(w, c, k)
    BY <2>1, InPartFacts
  <2>3. ConfigIsCurrent(w, c, k)'
    BY <1>1, <2>1, <2>2 DEF PairInv, ConfigIsCurrent, Loop, database
  <2>4. connection[c] = "live" => Owed(w, c, k)'
    BY <1>1, <2>1, <2>2, InPartFacts, SameMatch DEF PairInv, Owed, Fits, ToDo, InWork
  <2>5. connection[c] = "live" => OverrideIsCurrent(w, c)'
    BY <1>1, <2>1, <2>2 DEF PairInv, OverrideIsCurrent, InWork, Loop, database
  <2> QED
    BY <1>1, <2>3, <2>4, <2>5 DEF database
<1> QED
  BY <1>1, <1>2, <1>3, InPartFacts, SameMatch DEF AttemptMatch, PairInv

LEMMA RemoveSyncsMatches ==
  ASSUME IndInv, MatchInv, NEW w \in Attempts, RemoveSyncs(w)
  PROVE  AttemptMatch(w)'
<1> DEFINE next == [plan[w] EXCEPT !.cur = {}]
<1>1. /\ pc[w] = "remove" /\ pc'[w] = "create" /\ syncs' = syncs \ Surplus(w)
      /\ plan'[w] = next /\ UNCHANGED <<connRows, configRows, connChanges, configChanges>>
      /\ UNCHANGED database
  BY Typed DEF RemoveSyncs, DropSyncs, At, Goto, Plans, read, outbox, database, TypeOK, LocalsType
<1>2. /\ next.connTodo = plan[w].connTodo /\ next.cur = {}
      /\ next.overrides = plan[w].overrides /\ next.known = plan[w].known
      /\ next.configTodo = plan[w].configTodo /\ next.contents = plan[w].contents
  BY Typed DEF Plan
<1> HIDE DEF next
<1>3. \A c \in Connections \ plan[w].cur : ObjectsOf(c)' = ObjectsOf(c)
  BY <1>1, SameObjects DEF Surplus
<1>4. \A c \in plan[w].cur : ObjectsOf(c)' = {o \in ObjectsOf(c) : Matches(o, Args(w, c))}
  BY <1>1 DEF Surplus, ObjectsOf, SyncsOf
<1>5. \A c \in Connections : ConfigsFor(c)' = ConfigsFor(c)
  BY <1>1, SameConfigsFor DEF database
<1>6. \A c \in Connections \ plan[w].cur, k \in SyncConfigs :
        (HasAll(c, k)' <=> HasAll(c, k)) /\ (HasOnly(c, k)' <=> HasOnly(c, k))
  BY <1>1, <1>3, SameFit DEF database
<1>7. ASSUME NEW c \in Connections, c \in plan[w].cur, NEW k \in ConfigsFor(c),
             connection[c] = "live", UpWithout(w, c, k)
      PROVE  Fits(c, k)'
  <2>1. Args(w, c) = Want(c, k)
    BY <1>1, <1>7, InPartFacts, ArgsAreCurrent DEF InWork, Loop, WorkIsKnown
  <2>2. Want(c, k)' = Want(c, k) /\ UNCHANGED entities
    BY <1>1 DEF Want, database
  <2>3. HasAll(c, k)
    BY <1>7, InPartFacts DEF PairInv, Owed
  <2> QED
    BY <1>4, <1>7, <2>1, <2>2, <2>3 DEF Fits, HasAll, HasOnly, Matches
<1>8. SyncsMatchConfig'
  <2> SUFFICES ASSUME NEW c \in Connections, NEW k \in ConfigsFor(c), connection[c] = "live",
                      Up(c, k)
               PROVE  Fits(c, k)'
    BY <1>1, <1>5, MatchMeans DEF database, Up
  <2>1. Fits(c, k) /\ k \in SyncConfigs
    BY InPartFacts, MatchMeansNow DEF ConfigsFor, LiveConfigs
  <2> QED
    BY <1>6, <1>7, <2>1, UpIsUpWithout DEF Fits
<1>9. WorkIsKnown(w)'
  BY <1>1, <1>2, InPartFacts DEF WorkIsKnown, database
<1>10. ASSUME NEW c \in Connections, NEW k \in ConfigsFor(c)', UpWithout(w, c, k)'
       PROVE  /\ ConfigIsCurrent(w, c, k)'
              /\ connection'[c] = "live" => Owed(w, c, k)' /\ OverrideIsCurrent(w, c)'
  <2>1. UpWithout(w, c, k) /\ k \in ConfigsFor(c) /\ k \in SyncConfigs
    BY <1>1, <1>5, <1>10 DEF UpWithout, database, ConfigsFor, LiveConfigs
  <2>2. PairInv(w, c, k)
    BY <2>1, InPartFacts
  <2>3. ConfigIsCurrent(w, c, k)'
    BY <1>1, <1>2, <2>1, <2>2 DEF PairInv, ConfigIsCurrent, Loop, database
  <2>4. connection[c] = "live" => OverrideIsCurrent(w, c)'
    BY <1>1, <1>2, <2>1, <2>2 DEF PairInv, OverrideIsCurrent, InWork, Loop, database
  <2>5. connection[c] = "live" => Owed(w, c, k)'
    <3>1. CASE c \in plan[w].cur
      BY <1>1, <1>2, <1>7, <2>1, <3>1 DEF Owed
    <3>2. CASE c \notin plan[w].cur
      BY <1>1, <1>2, <1>6, <2>1, <2>2, <3>2 DEF PairInv, Owed, Fits, ToDo, InWork
    <3> QED
      BY <3>1, <3>2
  <2> QED
    BY <1>1, <2>3, <2>4, <2>5 DEF database
<1> QED
  BY <1>8, <1>9, <1>10 DEF AttemptMatch, PairInv

-----------------------------------------------------------------------------
(* The ends of the parts: the rows that go are about pairs that fit. *)

LEMMA FinishMatches ==
  ASSUME IndInv, MatchInv, NEW w \in Attempts, FinishPart1(w) \/ FinishPart2(w)
  PROVE  AttemptMatch(w)'
<1>1. /\ pc[w] = "create" /\ plan[w].connTodo = {} /\ plan[w].configTodo = {}
      /\ plan'[w] = NoPlan /\ connRows'[w] = {} /\ configRows'[w] = {}
      /\ connChanges \ connRows[w] \subseteq connChanges'
      /\ configChanges \ configRows[w] \subseteq configChanges'
      /\ UNCHANGED <<database, syncs>>
  <2>1. CASE FinishPart1(w)
    <3>1. pc[w] = "create" /\ plan[w].part = 1
      BY <2>1 DEF FinishPart1, At
    <3>2. plan[w].configTodo = {} /\ configRows[w] = {}
      BY <3>1, Typed DEF AttemptInv, LocalsMatchPC, InPart
    <3> QED
      BY <2>1, <3>1, <3>2, Typed
      DEF FinishPart1, Plans, tables, history, database, TypeOK, LocalsType
  <2>2. CASE FinishPart2(w)
    <3>1. pc[w] = "create" /\ plan[w].part = 2
      BY <2>2 DEF FinishPart2, At
    <3>2. connRows[w] = {}
      BY <3>1, Typed DEF AttemptInv, LocalsMatchPC, InPart
    <3> QED
      BY <2>2, <3>1, <3>2, Typed
      DEF FinishPart2, Plans, tables, history, database, TypeOK, LocalsType
  <2> QED
    BY <2>1, <2>2
<1>2. plan[w].cur = {}
  BY <1>1, InPartFacts
<1>3. AtRest(w)'
  BY <1>1 DEF AtRest
<1>4. SyncsMatchConfig'
  <2> SUFFICES ASSUME NEW c \in Connections, NEW k \in ConfigsFor(c)', connection[c] = "live",
                      Up(c, k)'
               PROVE  Fits(c, k)'
    BY <1>1, MatchMeans DEF database
  <2>1. k \in ConfigsFor(c) /\ k \in SyncConfigs
    BY <1>1 DEF database, ConfigsFor, LiveConfigs
  <2>2. UpWithout(w, c, k)
    BY <1>1 DEF Up, UpWithout, database
  <2>3. Fits(c, k)
    BY <1>1, <1>2, <2>1, <2>2, InPartFacts DEF PairInv, Owed, ToDo, InWork
  <2>4. ObjectsOf(c)' = ObjectsOf(c)
    BY <1>1 DEF ObjectsOf, SyncsOf
  <2> QED
    BY <1>1, <2>1, <2>3, <2>4, SameFit DEF Fits, database
<1> QED
  BY <1>3, <1>4, RestIsFine DEF AttemptMatch

LEMMA AttemptKeepsMatch ==
  ASSUME Overlap = FALSE, IndInv, MatchInv, NEW w \in Attempts, AttemptNext(w) \/ Crash(w)
  PROVE  MatchInv'
<1>1. AttemptMatch(w)'
  BY OutsideMatches, ReadConnChangesMatches, LoadConnectionsMatches, LoadConfigsMatches,
     CreateSyncsMatches, InsertSyncChangesMatches, RemoveSyncsMatches, FinishMatches,
     ReadConfigChangesMatches, LoadChangedConfigsMatches, LoadConnectionsOfMatches
  DEF AttemptNext
<1>2. OneConfig' /\ DroppedAreLive' /\ BareAtBirth'
  BY AttemptLeavesDatabase
  DEF MatchInv, OneConfig, DroppedAreLive, BareAtBirth, LiveConfigs, database
<1>3. ASSUME NEW v \in Attempts \ {w} PROVE AtRest(v)'
  <2>1. At(v, "idle")
    <3>1. CASE Start(w)
      BY <3>1 DEF Start
    <3>2. CASE ~At(w, "idle")
      BY <3>2 DEF IndInv, Alone
    <3>3. ~Start(w) => ~At(w, "idle")
      BY DEF AttemptNext, Crash, ReadConnChanges, LoadConnections, LoadConfigs, CreateSyncs,
             InsertSyncChanges, RemoveSyncs, FinishPart1, ReadConfigChanges, LoadChangedConfigs,
             LoadConnectionsOf, FinishPart2, ReadSyncChanges, LoadSyncs, PauseDoomed, DeleteDoomed,
             UpdateStrategy, UpsertSchedule, FinishPart3, ResetFull, Throw, At
    <3> QED
      BY <3>1, <3>2, <3>3
  <2>2. Idle(v) /\ Rest(w)
    BY <2>1, Typed, IdleAtIdle, RestRests
  <2> QED
    BY <2>2 DEF Idle, Rest, AtRest
<1>4. \A v \in Attempts \ {w} : AttemptMatch(v)'
  BY <1>1, <1>3, RestIsFine DEF AttemptMatch
<1> QED
  BY <1>1, <1>2, <1>4 DEF MatchInv, AttemptMatch

-----------------------------------------------------------------------------
LEMMA InitMatch == Init => MatchInv
<1> SUFFICES ASSUME Init PROVE MatchInv
  OBVIOUS
<1>1. LiveConfigs = {} /\ SyncsMatchConfig /\ \A c : ConfigsFor(c) = {}
  BY DEF Init, LiveConfigs, ConfigsFor, SyncsMatchConfig
<1>2. OneConfig /\ DroppedAreLive /\ BareAtBirth
  BY <1>1 DEF Init, OneConfig, DroppedAreLive, BareAtBirth
<1>3. \A w \in Attempts : AtRest(w)
  BY DEF Init, AtRest
<1> QED
  BY <1>1, <1>2, <1>3, RestIsFineNow DEF MatchInv

LEMMA StepKeepsMatch == Overlap = FALSE /\ IndInv /\ MatchInv /\ [Next]_vars => MatchInv'
<1> SUFFICES ASSUME Overlap = FALSE, IndInv, MatchInv, [Next]_vars PROVE MatchInv'
  OBVIOUS
<1>1. CASE UNCHANGED vars
  <2>1. UNCHANGED <<shared, locals>>
    BY <1>1 DEF vars
  <2>2. UNCHANGED <<database, syncs, connChanges, configChanges, dropping>>
    BY <2>1 DEF shared, tables, outbox, history, requests, database
  <2>3. UNCHANGED <<pc, plan, connRows, configRows>>
    BY <2>1 DEF locals, control, read
  <2>4. OneConfig' /\ DroppedAreLive' /\ BareAtBirth' /\ SyncsMatchConfig'
    BY <2>2, SameMatch
    DEF MatchInv, OneConfig, DroppedAreLive, BareAtBirth, LiveConfigs, database
  <2>5. ASSUME NEW w \in Attempts PROVE WorkIsKnown(w)'
    BY <2>2, <2>3, InPartFacts DEF WorkIsKnown, KnownFor, database
  <2>6. ASSUME NEW w \in Attempts, NEW c \in Connections, NEW k \in ConfigsFor(c)'
        PROVE  PairInv(w, c, k)'
    <3>1. k \in ConfigsFor(c) /\ k \in SyncConfigs
      BY <2>2 DEF database, ConfigsFor, LiveConfigs
    <3>2. Owed(w, c, k)' <=> Owed(w, c, k)
      BY <2>2, <2>3, <3>1, InPartFacts, SameMatch DEF Owed, Fits, ToDo, InWork
    <3>3. PairInv(w, c, k)
      BY <3>1, InPartFacts
    <3> QED
      BY <2>2, <2>3, <3>2, <3>3
      DEF PairInv, UpWithout, ConfigIsCurrent, OverrideIsCurrent, InWork, database
  <2> QED
    BY <2>4, <2>5, <2>6 DEF MatchInv
<1> QED
  BY <1>1, ApiKeepsMatch, AttemptKeepsMatch DEF Next

(* Every pair of a connection and its config is right, or is still in hand or named. *)
THEOREM MatchHolds == Overlap = FALSE => (Spec => []MatchInv)
<1> SUFFICES ASSUME Overlap = FALSE PROVE Spec => []MatchInv
  OBVIOUS
<1>1. Spec => []IndInv
  BY InvariantHolds
<1>2. IndInv /\ MatchInv /\ [Next]_vars => MatchInv'
  BY StepKeepsMatch
<1> QED
  BY <1>1, <1>2, InitMatch, PTL DEF Spec

(* A connection has the syncs that its sync config and its own config call for whenever *)
(* no change row says otherwise: whatever fails, is retried, or is written between the  *)
(* reads and the statements of parts 1 and 2, as long as no attempt outlives its        *)
(* timeout.                                                                             *)
THEOREM SyncsFollowConfig == Overlap = FALSE => (Spec => []SyncsMatchConfig)
<1>1. MatchInv => SyncsMatchConfig
  BY DEF MatchInv
<1> QED
  BY <1>1, MatchHolds, PTL

-----------------------------------------------------------------------------
(* Attempts that no request disturbs *)

Undisturbed(w) == RowsAreAll(w) /\ CopiesAreTrue(w)

(* Steps that read the change rows or the tables. *)
LEMMA ReadingStaysUndisturbed ==
  ASSUME IndInv, NEW w \in Attempts, Undisturbed(w),
         ReadConnChanges(w) \/ LoadConnections(w) \/ LoadConfigs(w)
  PROVE  Undisturbed(w)'
<1>1. UNCHANGED <<full, configRows, syncRows, connection, override, syncConfig, config, connChanges,
                  configChanges, syncChanges, fullFlag>>
  BY DEF ReadConnChanges, LoadConnections, LoadConfigs, shared, tables, outbox, read
<1>2. \A c : ConfigsFor(c)' = ConfigsFor(c)
  BY <1>1 DEF ConfigsFor, LiveConfigs
<1>3. CASE ReadConnChanges(w)
  <2>1. /\ pc'[w] = "loadConnections" /\ connRows'[w] = connChanges
        /\ plan'[w].part = 1
    BY <1>3, Typed DEF ReadConnChanges, Goto, Plans, TypeOK, LocalsType, Plan
  <2>2. RowsAreAll(w)'
    BY <1>1, <2>1 DEF Undisturbed, RowsAreAll, InPart, BatchPCs, Loaded
  <2>3. CopiesAreTrue(w)'
    BY <2>1 DEF CopiesAreTrue, Loop, Loaded
  <2> QED
    BY <2>2, <2>3 DEF Undisturbed
<1>4. CASE LoadConnections(w)
  <2>1. /\ pc[w] = "loadConnections" /\ pc'[w] = "loadConfigs" /\ connRows'[w] = connRows[w]
        /\ plan'[w].part = plan[w].part /\ plan'[w].overrides = override
        /\ plan'[w].connTodo \subseteq LiveConnections
    BY <1>4, Typed DEF LoadConnections, At, Goto, Plans, read, TypeOK, LocalsType, Plan
  <2>2. plan[w].part = 1
    BY <2>1, Typed DEF AttemptInv, LocalsMatchPC
  <2>3. RowsAreAll(w)'
    BY <1>1, <2>1, <2>2 DEF Undisturbed, RowsAreAll, InPart, BatchPCs, Loaded
  <2>4. CopiesAreTrue(w)'
    BY <1>1, <2>1 DEF CopiesAreTrue, Loop, Loaded, LiveConnections
  <2> QED
    BY <2>3, <2>4 DEF Undisturbed
<1>5. CASE LoadConfigs(w)
  <2>1. /\ pc[w] = "loadConfigs" /\ pc'[w] = "create" /\ connRows'[w] = connRows[w]
        /\ plan'[w].part = plan[w].part /\ plan'[w].overrides = plan[w].overrides
        /\ plan'[w].connTodo = plan[w].connTodo /\ plan'[w].configTodo = plan[w].configTodo
        /\ plan'[w].contents = config
        /\ plan'[w].known = UNION {ConfigsFor(c) : c \in plan[w].connTodo}
    BY <1>5, Typed DEF LoadConfigs, At, Goto, Plans, read, TypeOK, LocalsType, Plan
  <2>2. plan[w].part = 1 /\ plan[w].configTodo = {}
    BY <2>1, Typed DEF AttemptInv, LocalsMatchPC
  <2>3. RowsAreAll(w)'
    BY <1>1, <2>1, <2>2 DEF Undisturbed, RowsAreAll, InPart, BatchPCs, Loaded
  <2>4. \A c \in plan[w].connTodo : connection[c] = "live" /\ plan[w].overrides[c] = override[c]
    BY <2>1 DEF Undisturbed, CopiesAreTrue
  <2>5. (plan[w].known \cup plan[w].configTodo \subseteq LiveConfigs)'
    BY <1>1, <2>1, <2>2 DEF ConfigsFor, LiveConfigs
  <2>6. ASSUME NEW c \in plan[w].connTodo, NEW k \in ConfigsFor(c) PROVE k \in KnownFor(w, c)'
    BY <2>1 DEF KnownFor, ConfigsFor
  <2>7. CopiesAreTrue(w)'
    BY <1>1, <1>2, <2>1, <2>4, <2>5, <2>6 DEF CopiesAreTrue, Loaded
  <2> QED
    BY <2>3, <2>7 DEF Undisturbed
<1> QED
  BY <1>3, <1>4, <1>5

LEMMA ConfigReadingStaysUndisturbed ==
  ASSUME IndInv, NEW w \in Attempts, Undisturbed(w),
         \/ ReadConfigChanges(w) \/ LoadChangedConfigs(w)
         \/ \E k \in SyncConfigs : LoadConnectionsOf(w, k)
  PROVE  Undisturbed(w)'
<1>1. UNCHANGED <<full, connRows, syncRows, connection, override, syncConfig, config, connChanges,
                  configChanges, syncChanges, fullFlag>>
  BY DEF ReadConfigChanges, LoadChangedConfigs, LoadConnectionsOf, shared, tables, outbox, read
<1>2. CASE ReadConfigChanges(w)
  <2>1. /\ pc[w] = "readConfigChanges" /\ pc'[w] = "loadChangedConfigs"
        /\ configRows'[w] = configChanges
    BY <1>2, Typed DEF ReadConfigChanges, At, Goto, TypeOK, LocalsType
  <2>2. RowsAreAll(w)'
    BY <1>1, <2>1 DEF Undisturbed, RowsAreAll, BatchPCs, Loaded
  <2>3. CopiesAreTrue(w)'
    BY <2>1 DEF CopiesAreTrue, Loop, Loaded
  <2> QED
    BY <2>2, <2>3 DEF Undisturbed
<1>3. CASE LoadChangedConfigs(w)
  <2>1. /\ pc[w] = "loadChangedConfigs" /\ pc'[w] = "create" /\ configRows'[w] = configRows[w]
        /\ plan'[w].connTodo = plan[w].connTodo /\ plan'[w].known = plan[w].known
        /\ plan'[w].configTodo \subseteq LiveConfigs /\ plan'[w].contents = config
    BY <1>3, Typed DEF LoadChangedConfigs, At, Goto, Plans, read, TypeOK, LocalsType, Plan
  <2>2. plan[w].part = 2 /\ plan[w].connTodo = {} /\ plan[w].known = {}
    BY <2>1, Typed DEF AttemptInv, LocalsMatchPC
  <2>3. RowsAreAll(w)'
    BY <1>1, <2>1, <2>2 DEF Undisturbed, RowsAreAll, InPart, PlanPCs, Loop, BatchPCs, Loaded
  <2>4. CopiesAreTrue(w)'
    BY <1>1, <2>1, <2>2 DEF CopiesAreTrue, Loaded, LiveConfigs
  <2> QED
    BY <2>3, <2>4 DEF Undisturbed
<1>4. ASSUME NEW k \in SyncConfigs, LoadConnectionsOf(w, k) PROVE Undisturbed(w)'
  <2>1. /\ pc[w] = "create" /\ pc'[w] = "create" /\ configRows'[w] = configRows[w]
        /\ k \in plan[w].configTodo /\ plan'[w].part = plan[w].part
        /\ plan'[w].connTodo = ConnectionsOf(k) \cap LiveConnections
        /\ plan'[w].overrides = override /\ plan'[w].contents = plan[w].contents
        /\ plan'[w].known = {k} /\ plan'[w].configTodo \subseteq plan[w].configTodo
    <3> DEFINE next == [plan[w] EXCEPT !.connTodo = ConnectionsOf(k) \cap LiveConnections,
                                       !.overrides = override,
                                       !.known = {k}, !.configTodo = @ \ {k}]
    <3>1. /\ pc[w] = "create" /\ pc' = pc /\ k \in plan[w].configTodo
          /\ plan'[w] = next /\ UNCHANGED read
      BY <1>4, Typed DEF LoadConnectionsOf, At, Plans, TypeOK, LocalsType
    <3>2. /\ next.part = plan[w].part /\ next.connTodo = ConnectionsOf(k) \cap LiveConnections
          /\ next.overrides = override /\ next.contents = plan[w].contents
          /\ next.known = {k} /\ next.configTodo = plan[w].configTodo \ {k}
      BY Typed DEF Plan
    <3> HIDE DEF next
    <3> QED
      BY <3>1, <3>2 DEF read
  <2>2. plan[w].contents = config /\ plan[w].configTodo \subseteq LiveConfigs
    BY <2>1 DEF Undisturbed, CopiesAreTrue, Loop
  <2>3. RowsAreAll(w)'
    BY <1>1, <2>1 DEF Undisturbed, RowsAreAll, InPart, BatchPCs, Loaded
  <2>4. \A c \in (plan[w].connTodo)' : k \in KnownFor(w, c)'
    BY <2>1 DEF KnownFor
  <2>5. CopiesAreTrue(w)'
    BY <1>1, <2>1, <2>2, <2>4 DEF CopiesAreTrue, Loaded, LiveConfigs, LiveConnections
  <2> QED
    BY <2>3, <2>5 DEF Undisturbed
<1> QED
  BY <1>2, <1>3, <1>4

(* The statements of the loop and the ends of its parts. *)
LEMMA LoopStaysUndisturbed ==
  ASSUME IndInv, NEW w \in Attempts, Undisturbed(w),
         (\E c \in Connections : CreateSyncs(w, c)) \/ InsertSyncChanges(w) \/ RemoveSyncs(w)
  PROVE  Undisturbed(w)'
<1>1. /\ pc[w] \in Loop /\ pc'[w] \in Loop
      /\ UNCHANGED <<full, connection, override, syncConfig, config, connChanges, configChanges,
                     fullFlag>>
      /\ connRows'[w] = connRows[w] /\ configRows'[w] = configRows[w]
      /\ plan'[w].part = plan[w].part /\ plan'[w].connTodo \subseteq plan[w].connTodo
      /\ plan'[w].overrides = plan[w].overrides /\ plan'[w].contents = plan[w].contents
      /\ plan'[w].known = plan[w].known /\ plan'[w].configTodo = plan[w].configTodo
  <2>1. CASE \E c \in Connections : CreateSyncs(w, c)
    <3>1. PICK c \in Connections : CreateSyncs(w, c)
      BY <2>1
    <3> DEFINE next == [plan[w] EXCEPT !.cur = {c}, !.connTodo = @ \ {c}]
    <3>2. /\ pc[w] = "create" /\ pc'[w] = "insert" /\ plan'[w] = next
          /\ UNCHANGED <<full, read, connection, override, syncConfig, config, outbox>>
      BY <3>1, Typed DEF CreateSyncs, At, Goto, Plans, TypeOK, LocalsType
    <3>3. /\ next.part = plan[w].part /\ next.connTodo = plan[w].connTodo \ {c}
          /\ next.overrides = plan[w].overrides /\ next.contents = plan[w].contents
          /\ next.known = plan[w].known /\ next.configTodo = plan[w].configTodo
      BY Typed DEF Plan
    <3> HIDE DEF next
    <3> QED
      BY <3>2, <3>3 DEF Loop, read, outbox
  <2>2. CASE InsertSyncChanges(w)
    BY <2>2, Typed DEF InsertSyncChanges, At, Goto, AddChanges, Loop, tables, TypeOK, LocalsType,
                       OutboxType
  <2>3. CASE RemoveSyncs(w)
    BY <2>3, Typed DEF RemoveSyncs, At, Goto, Plans, Loop, read, outbox, TypeOK, LocalsType, Plan
  <2> QED
    BY <2>1, <2>2, <2>3
<1>2. pc[w] \in PlanPCs /\ pc'[w] \notin BatchPCs \cup {"readSyncChanges", "resetFull"}
  BY <1>1 DEF PlanPCs, Loop, BatchPCs, Loaded
<1>3. RowsAreAll(w)'
  BY <1>1, <1>2 DEF Undisturbed, RowsAreAll, InPart, Loop
<1>4. \A c : ConfigsFor(c)' = ConfigsFor(c) /\ KnownFor(w, c)' = KnownFor(w, c)
  BY <1>1 DEF ConfigsFor, LiveConfigs, KnownFor
<1>5. CopiesAreTrue(w)'
  BY <1>1, <1>2, <1>4 DEF Undisturbed, CopiesAreTrue, LiveConfigs, BatchPCs
<1> QED
  BY <1>3, <1>5 DEF Undisturbed

LEMMA EndOfLoopStaysUndisturbed ==
  ASSUME IndInv, NEW w \in Attempts, Undisturbed(w), FinishPart1(w) \/ FinishPart2(w)
  PROVE  Undisturbed(w)'
<1>1. CASE FinishPart1(w)
  <2>1. /\ pc[w] = "create" /\ pc'[w] = "readConfigChanges"
        /\ connChanges' = connChanges \ connRows[w] /\ connRows'[w] = {}
        /\ UNCHANGED <<full, fullFlag>>
    BY <1>1, Typed DEF FinishPart1, At, Goto, TypeOK, LocalsType
  <2>2. RowsAreAll(w)'
    BY <2>1 DEF Undisturbed, RowsAreAll, InPart, PlanPCs, Loop, BatchPCs, Loaded
  <2>3. CopiesAreTrue(w)'
    BY <2>1 DEF CopiesAreTrue, Loop, Loaded
  <2> QED
    BY <2>2, <2>3 DEF Undisturbed
<1>2. CASE FinishPart2(w)
  <2>1. /\ pc[w] = "create" /\ plan[w].part = 2 /\ pc'[w] = "readSyncChanges"
        /\ configChanges' = configChanges \ configRows[w] /\ configRows'[w] = {}
        /\ UNCHANGED <<full, fullFlag, connRows, connChanges>>
    BY <1>2, Typed DEF FinishPart2, At, Goto, TypeOK, LocalsType
  <2>2. RowsAreAll(w)'
    BY <2>1 DEF Undisturbed, RowsAreAll, InPart, PlanPCs, Loop, BatchPCs, Loaded
  <2>3. CopiesAreTrue(w)'
    BY <2>1 DEF CopiesAreTrue, Loop, Loaded
  <2> QED
    BY <2>2, <2>3 DEF Undisturbed
<1> QED
  BY <1>1, <1>2

LEMMA ScheduleStepsStayUndisturbed ==
  ASSUME IndInv, NEW w \in Attempts, Undisturbed(w),
         \/ ReadSyncChanges(w) \/ LoadSyncs(w) \/ PauseDoomed(w) \/ DeleteDoomed(w)
         \/ \E s \in batch[w].todo : UpdateStrategy(w, s)
         \/ UpsertSchedule(w)
  PROVE  Undisturbed(w)'
<1>1. /\ pc[w] \in BatchPCs \cup {"readSyncChanges"} /\ pc'[w] \in BatchPCs
      /\ UNCHANGED <<full, connRows, configRows, connChanges, configChanges, syncChanges, fullFlag,
                     syncs>>
      /\ IF pc[w] = "readSyncChanges" THEN syncRows'[w] = syncChanges
                                      ELSE syncRows'[w] = syncRows[w]
      /\ pc'[w] \in Loaded =>
           \/ (batch[w].todo)' \subseteq syncs
           \/ pc[w] \in Loaded /\ (batch[w].todo)' \subseteq batch[w].todo
  <2>1. CASE ReadSyncChanges(w)
    BY <2>1, Typed
    DEF ReadSyncChanges, At, Goto, BatchPCs, Loaded, shared, tables, outbox, TypeOK, LocalsType
  <2>2. CASE LoadSyncs(w)
    <3>1. /\ pc[w] = "loadSyncs" /\ pc'[w] = "pauseDoomed"
          /\ (batch[w].todo)' \subseteq syncs /\ UNCHANGED <<full, read, shared>>
      BY <2>2, Typed DEF LoadSyncs, At, Goto, Batches, TypeOK, LocalsType
    <3>2. UNCHANGED <<full, connRows, configRows, syncRows, connChanges, configChanges, syncChanges,
                      fullFlag, syncs>>
      BY <3>1 DEF shared, tables, outbox, read
    <3> QED
      BY <3>1, <3>2 DEF BatchPCs, Loaded
  <2>3. CASE \/ PauseDoomed(w) \/ DeleteDoomed(w) \/ UpsertSchedule(w)
             \/ \E s \in batch[w].todo : UpdateStrategy(w, s)
    <3>1. /\ pc[w] \in Loaded /\ pc'[w] \in Loaded
          /\ UNCHANGED <<full, read, tables, outbox>>
      BY <2>3, Typed
      DEF PauseDoomed, DeleteDoomed, UpsertSchedule, UpdateStrategy, At, Goto, Loaded, shared,
          TypeOK, LocalsType
    <3>2. (batch[w].todo)' \subseteq batch[w].todo
      <4>1. CASE PauseDoomed(w)
        BY <4>1 DEF PauseDoomed
      <4>2. CASE DeleteDoomed(w)
        BY <4>2, Typed DEF DeleteDoomed, Batches, TypeOK, LocalsType, Batch
      <4>3. CASE UpsertSchedule(w)
        <5>1. batch'[w] = [batch[w] EXCEPT !.todo = @ \ batch[w].cur, !.cur = {}]
          BY <4>3, Typed DEF UpsertSchedule, Batches, TypeOK, LocalsType
        <5> QED
          BY <5>1, Typed DEF Batch
      <4>4. CASE \E s \in batch[w].todo : UpdateStrategy(w, s)
        BY <4>4, Typed DEF UpdateStrategy, Batches, TypeOK, LocalsType, Batch
      <4> QED
        BY <2>3, <4>1, <4>2, <4>3, <4>4
    <3> QED
      BY <3>1, <3>2 DEF BatchPCs, Loaded, tables, outbox, read
  <2> QED
    BY <2>1, <2>2, <2>3
<1>2. pc[w] # "readConnChanges" /\ pc'[w] \notin PlanPCs /\ pc'[w] # "readConnChanges"
  BY <1>1 DEF BatchPCs, Loaded, PlanPCs, Loop
<1>3. RowsAreAll(w)'
  BY <1>1, <1>2 DEF Undisturbed, RowsAreAll, InPart
<1>4. CopiesAreTrue(w)'
  BY <1>1, <1>2 DEF Undisturbed, CopiesAreTrue, PlanPCs
<1> QED
  BY <1>3, <1>4 DEF Undisturbed

(* A finished attempt that was not disturbed has left nothing to do. *)
LEMMA EndSettles ==
  ASSUME IndInv, IndInv', NEW w \in Attempts, Undisturbed(w), FinishPart3(w) \/ ResetFull(w)
  PROVE  IF pc'[w] = "idle" THEN Converged' ELSE Undisturbed(w)'
<1>1. /\ pc[w] \in {"upsert", "resetFull"} /\ connChanges' = connChanges /\ configChanges' = configChanges
      /\ syncChanges' = syncChanges \ syncRows[w]
      /\ full[w] <=> pc'[w] # "idle" \/ pc[w] = "resetFull"
  <2>1. CASE FinishPart3(w)
    BY <2>1, Typed DEF FinishPart3, At, Goto, TypeOK, LocalsType
  <2>2. CASE ResetFull(w)
    BY <2>2, Typed DEF ResetFull, At, Goto, Clear, TypeOK, LocalsType, AttemptInv, LocalsMatchPC,
                       BatchPCs, Loaded
  <2> QED
    BY <2>1, <2>2
<1>2. connRows[w] = {} /\ configRows[w] = {}
  BY <1>1, Part3Gives DEF InPart3, Part3PCs, BatchPCs, Loaded
<1>3. connChanges' = {} /\ configChanges' = {} /\ syncChanges' = {}
  BY <1>1, <1>2 DEF Undisturbed, RowsAreAll, BatchPCs, Loaded
<1>4. CASE pc'[w] = "idle"
  <2>1. ~fullFlag'
    BY <1>1, <1>4 DEF FinishPart3, ResetFull, At, Undisturbed, RowsAreAll
  <2>2. \A s \in syncs' : Agrees(s)'
    BY <1>3, <2>1 DEF IndInv, GlobalInv, DriftIsCovered, HasWork, ByConfig
  <2> QED
    BY <1>3, <1>4, <2>1, <2>2 DEF Converged
<1>5. CASE pc'[w] # "idle"
  <2>1. FinishPart3(w)
    BY <1>5, Typed DEF ResetFull, Clear, Goto, TypeOK, LocalsType
  <2>2. /\ pc'[w] = "resetFull" /\ connRows'[w] = {} /\ configRows'[w] = {} /\ syncRows'[w] = {}
        /\ UNCHANGED <<full, fullFlag>>
    BY <1>2, <1>5, <2>1, Typed DEF FinishPart3, Goto, TypeOK, LocalsType
  <2>3. RowsAreAll(w)'
    BY <1>3, <2>2 DEF Undisturbed, RowsAreAll
  <2>4. CopiesAreTrue(w)'
    BY <2>2 DEF CopiesAreTrue, Loop, Loaded
  <2> QED
    BY <1>5, <2>3, <2>4 DEF Undisturbed
<1> QED
  BY <1>4, <1>5

(* The copies are the tables, so what the attempt cannot do nobody could. *)
LEMMA OnlyPoisonThrows ==
  ASSUME IndInv, NEW w \in Attempts, Undisturbed(w), Throw(w)
  PROVE  Poisoned
<1>1. PICK c \in plan[w].connTodo : pc[w] = "create" /\ ~CanCreate(w, c)
  <2>1. ~(pc[w] = "upsert" /\ \E s \in batch[w].todo : s \notin syncs)
    BY DEF Undisturbed, CopiesAreTrue, Loaded
  <2> QED
    BY <2>1 DEF Throw, At
<1>2. /\ c \in Connections /\ connection[c] = "live" /\ plan[w].overrides[c] = override[c]
      /\ plan[w].contents = config /\ plan[w].known \subseteq LiveConfigs
      /\ ConfigsFor(c) # {} => KnownFor(w, c) # {}
  BY <1>1, Typed DEF Undisturbed, CopiesAreTrue, Loop, Plan
<1>3. c \in LiveConnections
  BY <1>2 DEF LiveConnections
<1>4. AskedFor(c)
  <2>1. CASE full[w]
    BY <2>1 DEF AskedFor, Undisturbed, RowsAreAll
  <2>2. CASE ~full[w]
    BY <1>1, <2>2, Typed
    DEF AttemptInv, WorkHasRows, InPart, PlanPCs, Loop, AskedFor, Plan
  <2> QED
    BY <2>1, <2>2
<1>5. CASE ConfigsFor(c) = {}
  BY <1>3, <1>4, <1>5 DEF Poisoned
<1>6. CASE ConfigsFor(c) # {}
  <2>1. KnownFor(w, c) # {} /\ KnownFor(w, c) \subseteq ConfigsFor(c)
    BY <1>2, <1>6 DEF KnownFor, ConfigsFor
  <2>2. KnownFor(w, c) \subseteq LiveConfigs
    BY <2>1 DEF ConfigsFor
  <2>3. PICK o \in Missing(w, c) \cap Entities : o \notin entities
    BY <1>1, <1>2, <2>1, <2>2 DEF CanCreate
  <2>4. o \in Args(w, c) /\ KindOf[o] = "entity" /\ o \in Objects
    BY <2>3 DEF Missing, Entities
  <2>5. PICK k \in KnownFor(w, c) : o \in config[k].objects
    <3>1. o \in Overridden(UNION {config[k].objects : k \in KnownFor(w, c)}, override[c], "standard")
            \/ o \in Overridden(UNION {config[k].objects : k \in KnownFor(w, c)}, override[c], "custom")
            \/ o \in OfKind(UNION {config[k].objects : k \in KnownFor(w, c)}, "common")
            \/ o \in OfKind(UNION {config[k].objects : k \in KnownFor(w, c)}, "entity")
      BY <1>2, <2>4 DEF Args, Desired
    <3> QED
      BY <2>4, <3>1 DEF Overridden, OfKind
  <2>6. o \in Desired(config[k].objects, override[c]) \cap Entities
    BY <2>3, <2>4, <2>5 DEF Desired, OfKind
  <2> QED
    BY <1>3, <1>4, <2>1, <2>3, <2>5, <2>6 DEF Poisoned
<1> QED
  BY <1>5, <1>6

-----------------------------------------------------------------------------
(* What one step of an attempt does for itself, and leaves of the others. *)
LEMMA AttemptStaysUndisturbed ==
  ASSUME Overlap = FALSE, IndInv, NEW w \in Attempts, AttemptNext(w) \/ Crash(w),
         Undisturbed(w) \/ At(w, "idle")
  PROVE  IF pc'[w] = "idle" THEN Crash(w) \/ Poisoned \/ Converged' ELSE Undisturbed(w)'
<1>1. IndInv'
  BY AttemptKeepsInvariant
<1>2. CASE Start(w)
  <2>1. pc'[w] = "readConnChanges" /\ full'[w] = fullFlag /\ fullFlag' = fullFlag
    BY <1>2, Typed DEF Start, Goto, outbox, TypeOK, LocalsType
  <2>2. RowsAreAll(w)' /\ CopiesAreTrue(w)'
    BY <2>1 DEF RowsAreAll, CopiesAreTrue, InPart, PlanPCs, Loop, BatchPCs, Loaded
  <2> QED
    BY <2>1, <2>2 DEF Undisturbed
<1>3. CASE ~Start(w)
  <2>1. ~At(w, "idle")
    BY <1>3 DEF AttemptNext, Crash, ReadConnChanges, LoadConnections, LoadConfigs, CreateSyncs,
           InsertSyncChanges, RemoveSyncs, FinishPart1, ReadConfigChanges, LoadChangedConfigs,
           LoadConnectionsOf, FinishPart2, ReadSyncChanges, LoadSyncs, PauseDoomed, DeleteDoomed,
           UpdateStrategy, UpsertSchedule, FinishPart3, ResetFull, Throw, At
  <2>2. Undisturbed(w)
    BY <2>1
  <2>3. CASE \/ ReadConnChanges(w) \/ LoadConnections(w) \/ LoadConfigs(w)
             \/ \E c \in Connections : CreateSyncs(w, c)
             \/ InsertSyncChanges(w) \/ RemoveSyncs(w) \/ FinishPart1(w)
             \/ ReadConfigChanges(w) \/ LoadChangedConfigs(w)
             \/ \E k \in SyncConfigs : LoadConnectionsOf(w, k)
             \/ FinishPart2(w)
             \/ ReadSyncChanges(w) \/ LoadSyncs(w) \/ PauseDoomed(w) \/ DeleteDoomed(w)
             \/ \E s \in batch[w].todo : UpdateStrategy(w, s)
             \/ UpsertSchedule(w)
    <3>1. Undisturbed(w)'
      BY <2>2, <2>3, ReadingStaysUndisturbed, ConfigReadingStaysUndisturbed, LoopStaysUndisturbed,
         EndOfLoopStaysUndisturbed, ScheduleStepsStayUndisturbed
    <3>2. pc'[w] # "idle"
      BY <2>3, Typed
      DEF ReadConnChanges, LoadConnections, LoadConfigs, CreateSyncs, InsertSyncChanges, RemoveSyncs,
          FinishPart1, ReadConfigChanges, LoadChangedConfigs, LoadConnectionsOf, FinishPart2,
          ReadSyncChanges, LoadSyncs, PauseDoomed, DeleteDoomed, UpdateStrategy, UpsertSchedule,
          At, Goto, TypeOK, LocalsType
    <3> QED
      BY <3>1, <3>2
  <2>4. CASE FinishPart3(w) \/ ResetFull(w)
    BY <1>1, <2>2, <2>4, EndSettles
  <2>5. CASE Throw(w)
    <3>1. Poisoned /\ pc'[w] = "idle"
      BY <2>2, <2>5, OnlyPoisonThrows, Typed DEF Throw, Clear, Goto, TypeOK, LocalsType
    <3> QED
      BY <3>1
  <2>6. CASE Crash(w)
    <3>1. pc'[w] = "idle"
      BY <2>6, Typed DEF Crash, Clear, Goto, TypeOK, LocalsType
    <3> QED
      BY <2>6, <3>1
  <2> QED
    BY <1>3, <2>3, <2>4, <2>5, <2>6 DEF AttemptNext
<1> QED
  BY <1>2, <1>3

(* The history of a step of QuietNext is the step's own. *)
LEMMA QuietRefines == [QuietNext]_quietVars => [Next]_vars
  BY DEF QuietNext, quietVars, Next

Settles == \A w \in quiet : pc'[w] = "idle" => Crash(w) \/ Poisoned \/ Converged'

LEMMA QuietStepSettles ==
  ASSUME Overlap = FALSE, IndInv, QuietInv, [QuietNext]_quietVars
  PROVE  QuietInv' /\ [Settles]_quietVars
<1>1. CASE ApiNext /\ quiet' = {}
  <2>1. UNCHANGED pc
    BY <1>1, ApiContract DEF ApiStep, control, IndInv
  <2> QED
    BY <1>1, <2>1 DEF QuietInv, Settles
<1>2. ASSUME NEW w \in Attempts, AttemptNext(w) \/ Crash(w),
             quiet' = {v \in Attempts : UnderWay(v) /\ pc'[v] # "idle"}
      PROVE  QuietInv' /\ Settles
  <2>1. \A v \in Attempts \ {w} : At(v, "idle") /\ pc'[v] = "idle"
    <3>1. IndInv' /\ Rest(w)
      BY <1>2, AttemptKeepsInvariant, RestRests DEF IndInv
    <3>2. CASE Start(w)
      BY <3>1, <3>2 DEF Start, Rest, At
    <3>3. CASE ~At(w, "idle")
      BY <3>1, <3>3 DEF IndInv, Alone, Rest, At
    <3>4. ~Start(w) => ~At(w, "idle")
      BY <1>2 DEF AttemptNext, Crash, ReadConnChanges, LoadConnections, LoadConfigs, CreateSyncs,
             InsertSyncChanges, RemoveSyncs, FinishPart1, ReadConfigChanges, LoadChangedConfigs,
             LoadConnectionsOf, FinishPart2, ReadSyncChanges, LoadSyncs, PauseDoomed, DeleteDoomed,
             UpdateStrategy, UpsertSchedule, FinishPart3, ResetFull, Throw, At
    <3> QED
      BY <3>2, <3>3, <3>4
  <2>2. UnderWay(w) => Undisturbed(w) \/ At(w, "idle")
    BY DEF UnderWay, QuietInv, Undisturbed
  <2>3. \A v \in quiet : v = w
    BY <2>1 DEF QuietInv, At
  <2>4. \A v \in quiet' : v = w /\ UnderWay(w) /\ pc'[w] # "idle"
    BY <1>2, <2>1
  <2>5. Settles
    BY <1>2, <2>2, <2>3, AttemptStaysUndisturbed DEF Settles, UnderWay
  <2>6. QuietInv'
    <3>1. quiet' # {} => Undisturbed(w)'
      BY <1>2, <2>2, <2>4, AttemptStaysUndisturbed
    <3> QED
      BY <1>2, <2>4, <3>1 DEF QuietInv, Undisturbed
  <2> QED
    BY <2>5, <2>6
<1>3. CASE UNCHANGED quietVars
  <2>1. UNCHANGED <<shared, locals, quiet>>
    BY <1>3 DEF quietVars, vars
  <2>2. \A w : RowsAreAll(w)' <=> RowsAreAll(w)
    BY <2>1 DEF RowsAreAll, InPart, shared, locals, outbox, control, read
  <2>3. \A w : CopiesAreTrue(w)' <=> CopiesAreTrue(w)
    BY <2>1 DEF CopiesAreTrue, LiveConfigs, ConfigsFor, KnownFor, shared, locals, tables, control
  <2> QED
    BY <1>3, <2>1, <2>2, <2>3 DEF QuietInv, locals, control
<1> QED
  BY <1>1, <1>2, <1>3 DEF QuietNext

(* Whatever crashes and half-done attempts came before, one attempt that no request     *)
(* disturbs and that is not ended from outside leaves no change row, no flag and no     *)
(* schedule that is wrong, and it throws only for what is poisoned.                     *)
THEOREM QuietAttemptsConverge == Overlap = FALSE => (QuietSpec => QuietAttemptsSettle)
<1> SUFFICES ASSUME Overlap = FALSE PROVE QuietSpec => QuietAttemptsSettle
  OBVIOUS
<1>1. QuietInit => IndInv /\ QuietInv
  BY InitInvariant DEF QuietInit, QuietInv
<1>2. IndInv /\ QuietInv /\ [QuietNext]_quietVars => IndInv' /\ QuietInv' /\ [Settles]_quietVars
  BY StepKeepsInvariant, QuietRefines, QuietStepSettles
<1>3. QuietSpec => [][Settles]_quietVars
  BY <1>1, <1>2, PTL DEF QuietSpec
<1> QED
  BY <1>3 DEF QuietAttemptsSettle, Settles

=============================================================================
