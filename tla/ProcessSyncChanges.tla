------------------------- MODULE ProcessSyncChanges -------------------------
(***************************************************************************)
(* The control plane of Supaglue: the API writes connections, sync configs *)
(* and syncs to Postgres together with rows of three change tables, and a  *)
(* Temporal activity, processSyncChanges, reads those change rows and      *)
(* makes the Temporal schedules agree with the syncs.                      *)
(*                                                                         *)
(* One action stands for one database statement, one transaction or one    *)
(* Temporal call: whatever another process can see between two awaits.     *)
(* Data the properties do not tell apart is left out: credentials, names,  *)
(* search attributes, periods, webhooks and the sync strategy.             *)
(***************************************************************************)
EXTENDS Naturals, FiniteSets

CONSTANTS
  Connections,    \* connection ids; a new connection takes an id never used before
  Objects,        \* what a sync config can list: objects and entities
  SyncConfigs,    \* sync config ids; a new config takes an id never used before
  Attempts,       \* executions of the activity that can be in flight at once
  Listings,       \* the lists of objects the API is called with
  KindOf,         \* Objects -> Kinds
  ProviderOf,     \* Connections -> the provider of the connection
  ProviderOfConfig, \* SyncConfigs -> the provider the config is for
  ApiOps,         \* the API operations the environment of this instance uses
  MaxApiCalls,    \* bound on the number of API operations
  MaxCrashes,     \* bound on the number of failures of an attempt outside the model
  Overlap         \* TRUE: an attempt may start while a timed-out one still runs

Kinds == {"common", "standard", "custom", "entity"}

AllApiOps == {"createConnection", "deleteConnection", "deleteCustomer", "pause",
              "connSyncConfig", "createConfig", "updateConfig", "addObject",
              "deleteConfig", "deleteEntity", "full"}

ASSUME ConstantsAssumption ==
  /\ KindOf \in [Objects -> Kinds]
  /\ Listings \subseteq SUBSET Objects
  /\ ApiOps \subseteq AllApiOps
  /\ MaxApiCalls \in Nat
  /\ MaxCrashes \in Nat
  /\ Overlap \in BOOLEAN

Entities == {o \in Objects : KindOf[o] = "entity"}

(* A row of the syncs table: its connection, its object, and how many syncs of *)
(* that pair were created before it, which stands for the row's uuid.          *)
SyncId == Connections \X Objects \X Nat

Config == [objects : SUBSET Objects, autoStart : BOOLEAN]
NoConfig == [objects |-> {}, autoStart |-> FALSE]

VARIABLES
  \* --- tables
  connection,     \* Connections -> life of the connection row
  override,       \* Connections -> the objects of connection.connectionSyncConfig
  syncConfig,     \* SyncConfigs -> life of the sync config row
  config,         \* SyncConfigs -> its contents
  entities,       \* the entities that exist
  syncs,          \* the sync rows
  paused,         \* the sync rows with paused = true
  issued,         \* how many syncs each connection and object has ever had
  connChanges,    \* connections with a ConnectionSyncConfigChange row
  configChanges,  \* sync configs with a SyncConfigChange row
  syncChanges,    \* sync ids with a SyncChange row
  fullFlag,       \* systemSettings.processSyncChangesFull
  \* --- Temporal
  schedules,      \* sync ids that have a schedule
  schedPaused,    \* those whose schedule is paused
  \* --- API requests between their read and their transaction
  birth,          \* Connections -> the sync config create() has read, if there was one
  listed,         \* Connections -> the syncs delete() has listed
  removing,       \* connections with a delete() in flight
  dropListed,     \* SyncConfigs -> the syncs the config's delete() has listed
  dropping,       \* sync configs with a delete() in flight
  \* --- the activity
  pc,             \* Attempts -> where the execution is
  full,           \* Attempts -> the argument of processSyncChanges
  connRows, configRows, syncRows, \* Attempts -> what the change rows it has read are about
  plan,           \* Attempts -> the locals of parts 1 and 2
  batch,          \* Attempts -> the locals of part 3
  \* --- history and bounds
  unannounced,    \* syncs that left the table without a SyncChange that names them
  outdated,       \* connections whose config has changed with no change row left to say so
  unseenFull,     \* a full run was requested and no attempt has read the flag since
  apiCalls,
  crashes

tables == <<connection, override, syncConfig, config, entities, syncs, paused, issued>>
outbox == <<connChanges, configChanges, syncChanges, fullFlag>>
temporal == <<schedules, schedPaused>>
requests == <<birth, listed, removing, dropListed, dropping>>
history == <<unannounced, outdated, unseenFull>>
bounds == <<apiCalls, crashes>>
read == <<connRows, configRows, syncRows>>
control == <<pc, full, plan, batch>>
locals == <<control, read>>
shared == <<tables, outbox, temporal, requests, history, bounds>>
vars == <<shared, locals>>

Life == {"unused", "creating", "live", "gone"}

PCs == {"idle",
        "readConnChanges", "loadConnections", "loadConfigs",
        "readConfigChanges", "loadChangedConfigs",
        "create", "insert", "remove",
        "readSyncChanges", "loadSyncs",
        "pauseDoomed", "deleteDoomed", "upsert", "schedule", "resetFull"}

(* A change row is named by what it is about. connRows, configRows and syncRows    *)
(* drop a name as soon as a row the attempt has not read is added for it: deleting *)
(* the rows it has read, by id, then leaves that one.                              *)
Plan == [part : {1, 2}, connTodo : SUBSET Connections,
         overrides : [Connections -> SUBSET Objects], configTodo : SUBSET SyncConfigs,
         known : SUBSET SyncConfigs, contents : [SyncConfigs -> Config],
         cur : SUBSET Connections]
NoPlan == [part |-> 1, connTodo |-> {},
           overrides |-> [c \in Connections |-> {}], configTodo |-> {},
           known |-> {}, contents |-> [k \in SyncConfigs |-> NoConfig],
           cur |-> {}]

Batch == [todo : SUBSET SyncId, doomed : SUBSET SyncId,
          wantPaused : SUBSET SyncId, cur : SUBSET SyncId]
NoBatch == [todo |-> {}, doomed |-> {}, wantPaused |-> {}, cur |-> {}]

Birth == [known : SUBSET SyncConfigs, objects : SUBSET Objects]
NoBirth == [known |-> {}, objects |-> {}]

-----------------------------------------------------------------------------
(* The database as the code reads it *)

LiveConnections == {c \in Connections : connection[c] = "live"}
LiveConfigs == {k \in SyncConfigs : syncConfig[k] = "live"}
SyncsOf(c) == {s \in syncs : s[1] = c}

ConnectionsOf(k) == {c \in Connections : ProviderOf[c] = ProviderOfConfig[k]}
ConfigsFor(c) == {k \in LiveConfigs : c \in ConnectionsOf(k)}

(* What create() reads: the sync config of the provider, unique if there is one. *)
CurrentBirth(c) == [known |-> ConfigsFor(c),
                    objects |-> UNION {config[k].objects : k \in ConfigsFor(c)}]

(* sync.syncConfigId: the foreign keys leave the one live config of the provider. *)
SyncsUnder(k) == {s \in syncs : s[1] \in ConnectionsOf(k)}

(* The objects #computeSyncCreateManyInputList makes a connection sync: standard *)
(* and custom objects come from the connection's own config when it lists any.   *)
OfKind(objs, kind) == {o \in objs : KindOf[o] = kind}
Overridden(objs, own, kind) ==
  IF OfKind(own, kind) # {} THEN OfKind(own, kind) ELSE OfKind(objs, kind)
Desired(objs, own) ==
  OfKind(objs, "common") \cup OfKind(objs, "entity")
    \cup Overridden(objs, own, "standard") \cup Overridden(objs, own, "custom")

(* The rows deleteMany keeps: the filter compares type, objectType and object, *)
(* never entityId, so one desired entity matches every entity sync.            *)
Matches(o, desired) ==
  \/ o \in desired
  \/ KindOf[o] = "entity" /\ \E e \in desired : KindOf[e] = "entity"

NewSync(c, o) == <<c, o, issued[c][o]>>
Issue(c, objs) ==
  [issued EXCEPT ![c] = [o \in Objects |-> IF o \in objs THEN @[o] + 1 ELSE @[o]]]

-----------------------------------------------------------------------------
(* Rows of the change tables. A row added now is one no attempt has read. *)

(* Wrong: change rows deleted by what they are about, not by row id. *)
AddChangesByName(C, K, S) ==
  /\ connChanges' = connChanges \cup C
  /\ configChanges' = configChanges \cup K
  /\ syncChanges' = syncChanges \cup S
  /\ UNCHANGED read

AddChanges(C, K, S) ==
  /\ connChanges' = connChanges \cup C
  /\ configChanges' = configChanges \cup K
  /\ syncChanges' = syncChanges \cup S
  /\ connRows' = [w \in Attempts |-> connRows[w] \ C]
  /\ configRows' = [w \in Attempts |-> configRows[w] \ K]
  /\ syncRows' = [w \in Attempts |-> syncRows[w] \ S]

(* The syncs in S leave the table; announced are the ones the same transaction *)
(* names in a SyncChange. A foreign key removes the others without a word.     *)
DropSyncs(S, announced) ==
  /\ syncs' = syncs \ S
  /\ paused' = paused \ S
  /\ unannounced' = unannounced \cup (S \ announced)

-----------------------------------------------------------------------------
Init ==
  /\ connection = [c \in Connections |-> "unused"]
  /\ override = [c \in Connections |-> {}]
  /\ syncConfig = [k \in SyncConfigs |-> "unused"]
  /\ config = [k \in SyncConfigs |-> NoConfig]
  /\ entities = Entities
  /\ syncs = {} /\ paused = {}
  /\ issued = [c \in Connections |-> [o \in Objects |-> 0]]
  /\ connChanges = {} /\ configChanges = {} /\ syncChanges = {}
  /\ fullFlag = FALSE
  /\ schedules = {} /\ schedPaused = {}
  /\ birth = [c \in Connections |-> NoBirth]
  /\ listed = [c \in Connections |-> {}]
  /\ removing = {}
  /\ dropListed = [k \in SyncConfigs |-> {}]
  /\ dropping = {}
  /\ pc = [w \in Attempts |-> "idle"]
  /\ full = [w \in Attempts |-> FALSE]
  /\ connRows = [w \in Attempts |-> {}]
  /\ configRows = [w \in Attempts |-> {}]
  /\ syncRows = [w \in Attempts |-> {}]
  /\ plan = [w \in Attempts |-> NoPlan]
  /\ batch = [w \in Attempts |-> NoBatch]
  /\ unannounced = {} /\ outdated = {} /\ unseenFull = FALSE
  /\ apiCalls = 0 /\ crashes = 0

-----------------------------------------------------------------------------
(* The API: one action per transaction, with the reads made before it apart. *)

Call(op) ==
  /\ op \in ApiOps
  /\ apiCalls < MaxApiCalls
  /\ apiCalls' = apiCalls + 1
  /\ UNCHANGED crashes

(* ConnectionAndSyncService.create reads the provider's sync config first ... *)
BeginCreateConnection(c) ==
  /\ Call("createConnection")
  /\ connection[c] = "unused"
  /\ connection' = [connection EXCEPT ![c] = "creating"]
  /\ birth' = [birth EXCEPT ![c] = CurrentBirth(c)]
  /\ UNCHANGED <<override, syncConfig, config, entities, syncs, paused, issued, outbox,
                 temporal, listed, removing, dropListed, dropping, locals, history>>

(* ... and creates the connection, a sync per listed object and their SyncChanges *)
(* in one transaction, which the foreign keys of the sync rows can refuse. The    *)
(* caller may override autoStartOnConnection.                                     *)
CommitCreateConnection(c, autoStart) ==
  LET seen == birth[c]
      new == {NewSync(c, o) : o \in seen.objects}
  IN /\ connection[c] = "creating"
     /\ seen.objects # {} => seen.known \subseteq LiveConfigs
     /\ seen.objects \cap Entities \subseteq entities
     /\ connection' = [connection EXCEPT ![c] = "live"]
     /\ birth' = [birth EXCEPT ![c] = NoBirth]
     /\ syncs' = syncs \cup new
     /\ paused' = IF autoStart THEN paused ELSE paused \cup new
     /\ issued' = Issue(c, seen.objects)
     /\ AddChanges({}, {}, new)
     /\ outdated' = IF seen = CurrentBirth(c) THEN outdated ELSE outdated \cup {c}
     /\ UNCHANGED <<control, override, syncConfig, config, entities, fullFlag, temporal,
                    listed, removing, dropListed, dropping, unannounced, unseenFull, bounds>>

AbortCreateConnection(c) ==
  /\ connection[c] = "creating"
  /\ connection' = [connection EXCEPT ![c] = "gone"]
  /\ birth' = [birth EXCEPT ![c] = NoBirth]
  /\ UNCHANGED <<override, syncConfig, config, entities, syncs, paused, issued, outbox,
                 temporal, listed, removing, dropListed, dropping, locals, history, bounds>>

(* ConnectionAndSyncService.delete lists the syncs of the connection first ... *)
BeginDeleteConnection(c) ==
  /\ Call("deleteConnection")
  /\ connection[c] = "live"
  /\ c \notin removing
  /\ removing' = removing \cup {c}
  /\ listed' = [listed EXCEPT ![c] = SyncsOf(c)]
  /\ UNCHANGED <<tables, outbox, temporal, birth, dropListed, dropping, locals, history>>

(* ... and its transaction deletes each listed sync, failing if one is missing. *)
CommitDeleteConnection(c) ==
  /\ c \in removing
  /\ connection[c] = "live"
  /\ listed[c] \subseteq syncs
  /\ removing' = removing \ {c}
  /\ listed' = [listed EXCEPT ![c] = {}]
  /\ connection' = [connection EXCEPT ![c] = "gone"]
  /\ override' = [override EXCEPT ![c] = {}]
  /\ DropSyncs(SyncsOf(c), listed[c])
  /\ AddChanges({}, {}, listed[c])
  /\ UNCHANGED <<control, syncConfig, config, entities, issued, fullFlag, temporal,
                 birth, dropListed, dropping, outdated, unseenFull, bounds>>

AbortDeleteConnection(c) ==
  /\ c \in removing
  /\ removing' = removing \ {c}
  /\ listed' = [listed EXCEPT ![c] = {}]
  /\ UNCHANGED <<tables, outbox, temporal, birth, dropListed, dropping, locals, history, bounds>>

(* CustomerService.delete: the foreign keys remove the connections and their syncs. *)
DeleteCustomer(C) ==
  /\ Call("deleteCustomer")
  /\ C \subseteq LiveConnections /\ C # {}
  /\ connection' = [c \in Connections |-> IF c \in C THEN "gone" ELSE connection[c]]
  /\ override' = [c \in Connections |-> IF c \in C THEN {} ELSE override[c]]
  /\ DropSyncs({s \in syncs : s[1] \in C}, {})
  /\ UNCHANGED <<syncConfig, config, entities, issued, outbox, temporal, requests, locals,
                 outdated, unseenFull>>

(* #changeSyncPausedState, from the API or from a sync run that pauses itself. The *)
(* caller read the row earlier, so the value written may be the one it has.        *)
SetPaused(s, pausedState) ==
  /\ Call("pause")
  /\ s \in syncs
  /\ paused' = IF pausedState THEN paused \cup {s} ELSE paused \ {s}
  /\ AddChanges({}, {}, {s})
  /\ UNCHANGED <<control, connection, override, syncConfig, config, entities, syncs, issued,
                 fullFlag, temporal, requests, history>>

(* upsertConnectionSyncConfig; with no objects, also deleteConnectionSyncConfig. *)
SetConnectionSyncConfig(c, objs) ==
  /\ Call("connSyncConfig")
  /\ connection[c] = "live"
  /\ \A o \in objs : KindOf[o] \in {"standard", "custom"}
  /\ override' = [override EXCEPT ![c] = objs]
  /\ AddChanges({c}, {}, {})
  /\ UNCHANGED <<control, connection, syncConfig, config, entities, syncs, paused, issued,
                 fullFlag, temporal, requests, history>>

(* SyncConfigService.create: one config per provider. *)
CreateSyncConfig(k, objs, autoStart) ==
  /\ Call("createConfig")
  /\ syncConfig[k] = "unused"
  /\ \A j \in LiveConfigs : ProviderOfConfig[j] # ProviderOfConfig[k]
  /\ syncConfig' = [syncConfig EXCEPT ![k] = "live"]
  /\ config' = [config EXCEPT ![k] = [objects |-> objs, autoStart |-> autoStart]]
  /\ AddChanges({}, {k}, {})
  /\ outdated' = outdated \ ConnectionsOf(k)
  /\ UNCHANGED <<control, connection, override, entities, syncs, paused, issued, fullFlag,
                 temporal, requests, unannounced, unseenFull>>

(* SyncConfigService.update. Whatever force_delete_syncs is, any contents can be    *)
(* written: without it the syncs are only counted, in queries before the write.     *)
UpdateSyncConfig(k, objs, autoStart) ==
  /\ Call("updateConfig")
  /\ syncConfig[k] = "live"
  /\ config' = [config EXCEPT ![k] = [objects |-> objs, autoStart |-> autoStart]]
  /\ AddChanges({}, {k}, {})
  /\ outdated' = outdated \ ConnectionsOf(k)
  /\ UNCHANGED <<control, connection, override, syncConfig, entities, syncs, paused, issued,
                 fullFlag, temporal, requests, unannounced, unseenFull>>

(* ProviderService.addObject with enableSync writes the config and no change row. *)
AddObject(k, o) ==
  /\ Call("addObject")
  /\ syncConfig[k] = "live"
  /\ KindOf[o] \in {"common", "standard"}
  /\ o \notin config[k].objects
  /\ config' = [config EXCEPT ![k] = [objects |-> config[k].objects \cup {o},
                                       autoStart |-> config[k].autoStart]]
  /\ outdated' = outdated \cup ConnectionsOf(k)
  /\ UNCHANGED <<connection, override, syncConfig, entities, syncs, paused, issued, outbox,
                 temporal, requests, locals, unannounced, unseenFull>>

(* SyncConfigService.delete lists the syncs of the config first ... *)
BeginDeleteSyncConfig(k) ==
  /\ Call("deleteConfig")
  /\ syncConfig[k] = "live"
  /\ k \notin dropping
  /\ dropping' = dropping \cup {k}
  /\ dropListed' = [dropListed EXCEPT ![k] = SyncsUnder(k)]
  /\ UNCHANGED <<tables, outbox, temporal, birth, listed, removing, locals, history>>

(* ... and its transaction adds SyncChanges for those, and deletes all there are. *)
CommitDeleteSyncConfig(k) ==
  /\ k \in dropping
  /\ dropping' = dropping \ {k}
  /\ dropListed' = [dropListed EXCEPT ![k] = {}]
  /\ syncConfig' = [syncConfig EXCEPT ![k] = "gone"]
  /\ config' = [config EXCEPT ![k] = NoConfig]
  /\ DropSyncs(SyncsUnder(k), dropListed[k])
  /\ AddChanges({}, {k}, dropListed[k])
  /\ UNCHANGED <<control, connection, override, entities, issued, fullFlag, temporal,
                 birth, listed, removing, outdated, unseenFull, bounds>>

AbortDeleteSyncConfig(k) ==
  /\ k \in dropping
  /\ dropping' = dropping \ {k}
  /\ dropListed' = [dropListed EXCEPT ![k] = {}]
  /\ UNCHANGED <<tables, outbox, temporal, birth, listed, removing, locals, history, bounds>>

(* EntityService.delete: the foreign key removes the entity's syncs. *)
DeleteEntity(e) ==
  /\ Call("deleteEntity")
  /\ e \in entities
  /\ entities' = entities \ {e}
  /\ DropSyncs({s \in syncs : s[2] = e}, {})
  /\ UNCHANGED <<connection, override, syncConfig, config, issued, outbox, temporal, requests,
                 locals, outdated, unseenFull>>

(* POST /system/_do_full_temporal_state_sync *)
RequestFullRun ==
  /\ Call("full")
  /\ fullFlag' = TRUE
  /\ unseenFull' = TRUE
  /\ UNCHANGED <<tables, connChanges, configChanges, syncChanges, temporal, requests, locals,
                 unannounced, outdated>>

-----------------------------------------------------------------------------
(* The activity. An attempt moves from one pc to the next. *)

At(w, at) == pc[w] = at
Goto(w, to) == pc' = [pc EXCEPT ![w] = to]
Plans(w, p) == plan' = [plan EXCEPT ![w] = p]
Batches(w, b) == batch' = [batch EXCEPT ![w] = b]

(* A fresh attempt, or the end of one. *)
Clear(w) ==
  /\ Goto(w, "idle")
  /\ full' = [full EXCEPT ![w] = FALSE]
  /\ connRows' = [connRows EXCEPT ![w] = {}]
  /\ configRows' = [configRows EXCEPT ![w] = {}]
  /\ syncRows' = [syncRows EXCEPT ![w] = {}]
  /\ Plans(w, NoPlan)
  /\ Batches(w, NoBatch)

(* doProcessSyncChanges reads the flag. The schedule fires every ten seconds and   *)
(* skips while a run is open, so attempts overlap only if one outlived its timeout. *)
Start(w) ==
  /\ At(w, "idle")
  /\ Overlap \/ \A v \in Attempts : At(v, "idle")
  /\ Goto(w, "readConnChanges")
  /\ full' = [full EXCEPT ![w] = fullFlag]
  /\ unseenFull' = (unseenFull /\ ~fullFlag)
  /\ UNCHANGED <<read, plan, batch, tables, outbox, temporal, requests, unannounced,
                 outdated, bounds>>

(* Part 1: #processConnectionSyncConfigChanges *)
ReadConnChanges(w) ==
  /\ At(w, "readConnChanges") /\ Goto(w, "loadConnections")
  /\ connRows' = [connRows EXCEPT ![w] = connChanges]
  /\ Plans(w, [plan[w] EXCEPT !.part = 1, !.connTodo = connChanges])
  /\ UNCHANGED <<full, configRows, syncRows, batch, shared>>

LoadConnections(w) ==
  /\ At(w, "loadConnections") /\ Goto(w, "loadConfigs")
  /\ Plans(w, [plan[w] EXCEPT
                 !.connTodo = IF full[w] THEN LiveConnections ELSE @ \cap LiveConnections,
                 !.overrides = override])
  /\ UNCHANGED <<full, read, batch, shared>>

LoadConfigs(w) ==
  /\ At(w, "loadConfigs") /\ Goto(w, "create")
  /\ Plans(w, [plan[w] EXCEPT !.known = UNION {ConfigsFor(c) : c \in plan[w].connTodo},
                              !.contents = config])
  /\ UNCHANGED <<full, read, batch, shared>>

(* Both parts handle one connection by three statements: create the syncs that the *)
(* attempt's copy of the config and of the connection call for ...                 *)
KnownFor(w, c) == {k \in plan[w].known : c \in ConnectionsOf(k)}
(* Wrong: the connection's own config is ignored. *)
ArgsOfConfigOnly(w, c) == UNION {plan[w].contents[k].objects : k \in KnownFor(w, c)}
Args(w, c) ==
  Desired(UNION {plan[w].contents[k].objects : k \in KnownFor(w, c)}, plan[w].overrides[c])
AutoStart(w, c) == \E k \in KnownFor(w, c) : plan[w].contents[k].autoStart
(* Wrong: createMany without skipDuplicates and without the unique index. *)
MissingOrNot(w, c) == Args(w, c)
Missing(w, c) == {o \in Args(w, c) : \A s \in SyncsOf(c) : s[2] # o}

(* computeSyncCreateManyInputList needs a config; createMany ignores duplicates and *)
(* the foreign keys are checked for the rows it inserts.                            *)
CanCreate(w, c) ==
  /\ KnownFor(w, c) # {}
  /\ Missing(w, c) # {} => connection[c] = "live" /\ KnownFor(w, c) \subseteq LiveConfigs
  /\ Missing(w, c) \cap Entities \subseteq entities

CreateSyncs(w, c) ==
  LET new == {NewSync(c, o) : o \in Missing(w, c)}
  IN /\ At(w, "create") /\ Goto(w, "insert")
     /\ c \in plan[w].connTodo
     /\ CanCreate(w, c)
     /\ syncs' = syncs \cup new
     /\ paused' = IF AutoStart(w, c) THEN paused ELSE paused \cup new
     /\ issued' = Issue(c, Missing(w, c))
     /\ Plans(w, [plan[w] EXCEPT !.cur = {c}, !.connTodo = @ \ {c}])
     /\ UNCHANGED <<full, read, batch, connection, override, syncConfig, config, entities,
                    outbox, temporal, requests, history, bounds>>

(* Wrong: SyncChanges only for the syncs that stay. *)
InsertSomeSyncChanges(w) ==
  /\ At(w, "insert") /\ Goto(w, "remove")
  /\ AddChanges({}, {}, {s \in syncs : s[1] \in plan[w].cur /\ Matches(s[2], Args(w, s[1]))})
  /\ UNCHANGED <<full, plan, batch, tables, fullFlag, temporal, requests, history, bounds>>

(* Wrong: no SyncChange, on the grounds that the transaction of create() adds them. *)
SkipSyncChanges(w) ==
  /\ At(w, "insert") /\ Goto(w, "remove")
  /\ UNCHANGED <<full, read, plan, batch, shared>>

(* ... insert a SyncChange for every sync the connection has ... *)
InsertSyncChanges(w) ==
  /\ At(w, "insert") /\ Goto(w, "remove")
  /\ AddChanges({}, {}, {s \in syncs : s[1] \in plan[w].cur})
  /\ UNCHANGED <<full, plan, batch, tables, fullFlag, temporal, requests, history, bounds>>

(* ... and delete the syncs it should not have. *)
Surplus(w) == {s \in syncs : s[1] \in plan[w].cur /\ ~Matches(s[2], Args(w, s[1]))}

RemoveSyncs(w) ==
  /\ At(w, "remove") /\ Goto(w, "create")
  /\ DropSyncs(Surplus(w), Surplus(w))
  /\ Plans(w, [plan[w] EXCEPT !.cur = {}])
  /\ UNCHANGED <<full, read, batch, connection, override, syncConfig, config, entities,
                 issued, outbox, temporal, requests, outdated, unseenFull, bounds>>

FinishPart1(w) ==
  /\ At(w, "create") /\ Goto(w, "readConfigChanges")
  /\ plan[w].part = 1 /\ plan[w].connTodo = {}
  /\ connChanges' = connChanges \ connRows[w]
  /\ connRows' = [connRows EXCEPT ![w] = {}]
  /\ Plans(w, NoPlan)
  /\ UNCHANGED <<full, configRows, syncRows, batch, tables, configChanges, syncChanges,
                 fullFlag, temporal, requests, history, bounds>>

(* Part 2: #processSyncConfigChanges *)
ReadConfigChanges(w) ==
  /\ At(w, "readConfigChanges") /\ Goto(w, "loadChangedConfigs")
  /\ configRows' = [configRows EXCEPT ![w] = configChanges]
  /\ Plans(w, [plan[w] EXCEPT !.part = 2, !.configTodo = configChanges])
  /\ UNCHANGED <<full, connRows, syncRows, batch, shared>>

LoadChangedConfigs(w) ==
  /\ At(w, "loadChangedConfigs") /\ Goto(w, "create")
  /\ Plans(w, [plan[w] EXCEPT
                 !.configTodo = IF full[w] THEN LiveConfigs ELSE @ \cap LiveConfigs,
                 !.contents = config])
  /\ UNCHANGED <<full, read, batch, shared>>

LoadConnectionsOf(w, k) ==
  /\ At(w, "create")
  /\ plan[w].connTodo = {} /\ k \in plan[w].configTodo
  /\ Plans(w, [plan[w] EXCEPT !.connTodo = ConnectionsOf(k) \cap LiveConnections,
                              !.overrides = override,
                              !.known = {k}, !.configTodo = @ \ {k}])
  /\ UNCHANGED <<pc, full, read, batch, shared>>

(* Wrong: all rows are deleted, also the ones that came after the read. *)
FinishPart2All(w) ==
  /\ At(w, "create") /\ Goto(w, "readSyncChanges")
  /\ plan[w].part = 2 /\ plan[w].connTodo = {} /\ plan[w].configTodo = {}
  /\ configChanges' = {}
  /\ configRows' = [configRows EXCEPT ![w] = {}]
  /\ Plans(w, NoPlan)
  /\ UNCHANGED <<full, connRows, syncRows, batch, tables, connChanges, syncChanges,
                 fullFlag, temporal, requests, history, bounds>>

FinishPart2(w) ==
  /\ At(w, "create") /\ Goto(w, "readSyncChanges")
  /\ plan[w].part = 2 /\ plan[w].connTodo = {} /\ plan[w].configTodo = {}
  /\ configChanges' = configChanges \ configRows[w]
  /\ configRows' = [configRows EXCEPT ![w] = {}]
  /\ Plans(w, NoPlan)
  /\ UNCHANGED <<full, connRows, syncRows, batch, tables, connChanges, syncChanges,
                 fullFlag, temporal, requests, history, bounds>>

(* Part 3: #processSyncChanges *)
ReadSyncChanges(w) ==
  /\ At(w, "readSyncChanges") /\ Goto(w, "loadSyncs")
  /\ syncRows' = [syncRows EXCEPT ![w] = syncChanges]
  /\ Batches(w, [batch[w] EXCEPT !.todo = syncChanges])
  /\ UNCHANGED <<full, connRows, configRows, plan, shared>>

LoadSyncs(w) ==
  LET found == IF full[w] THEN syncs ELSE batch[w].todo \cap syncs
  IN /\ At(w, "loadSyncs") /\ Goto(w, "pauseDoomed")
     /\ Batches(w, [todo |-> found, doomed |-> batch[w].todo \ syncs,
                    wantPaused |-> paused \cap found, cur |-> {}])
     /\ UNCHANGED <<full, read, plan, shared>>

(* Wrong: ScheduleNotFoundError is not ignored but remembered as a paused schedule. *)
PauseDoomedUnchecked(w) ==
  /\ At(w, "pauseDoomed") /\ Goto(w, "deleteDoomed")
  /\ schedPaused' = schedPaused \cup batch[w].doomed
  /\ UNCHANGED <<full, read, plan, batch, tables, outbox, schedules, requests, history, bounds>>

(* #deleteTemporalSyncs pauses the schedules, terminates their runs, deletes them. *)
PauseDoomed(w) ==
  /\ At(w, "pauseDoomed") /\ Goto(w, "deleteDoomed")
  /\ schedPaused' = schedPaused \cup (batch[w].doomed \cap schedules)
  /\ UNCHANGED <<full, read, plan, batch, tables, outbox, schedules, requests, history, bounds>>

DeleteDoomed(w) ==
  /\ At(w, "deleteDoomed") /\ Goto(w, "upsert")
  /\ schedules' = schedules \ batch[w].doomed
  /\ schedPaused' = schedPaused \ batch[w].doomed
  /\ Batches(w, [batch[w] EXCEPT !.doomed = {}])
  /\ UNCHANGED <<full, read, plan, tables, outbox, requests, history, bounds>>

(* sync.update throws if the row has gone. So does a connection or config that is   *)
(* no longer found, and by then the foreign keys have removed the row as well.      *)
UpdateStrategy(w, s) ==
  /\ At(w, "upsert") /\ Goto(w, "schedule")
  /\ s \in batch[w].todo
  /\ s \in syncs
  /\ Batches(w, [batch[w] EXCEPT !.cur = {s}])
  /\ UNCHANGED <<full, read, plan, shared>>

(* Wrong: a schedule that exists keeps its paused state. *)
CreateScheduleOnly(w) ==
  LET cur == batch[w].cur
  IN /\ At(w, "schedule") /\ Goto(w, "upsert")
     /\ schedules' = schedules \cup cur
     /\ schedPaused' = schedPaused \cup ((cur \ schedules) \cap batch[w].wantPaused)
     /\ Batches(w, [batch[w] EXCEPT !.todo = @ \ cur, !.cur = {}])
     /\ UNCHANGED <<full, read, plan, tables, outbox, requests, history, bounds>>

(* upsertTemporalSync creates the schedule, or updates the one that is there. *)
UpsertSchedule(w) ==
  LET cur == batch[w].cur
  IN /\ At(w, "schedule") /\ Goto(w, "upsert")
     /\ schedules' = schedules \cup cur
     /\ schedPaused' = (schedPaused \ cur) \cup (cur \cap batch[w].wantPaused)
     /\ Batches(w, [batch[w] EXCEPT !.todo = @ \ cur, !.cur = {}])
     /\ UNCHANGED <<full, read, plan, tables, outbox, requests, history, bounds>>

(* Wrong: the change rows go once every schedule exists, before all are written. *)
FinishPart3Early(w) ==
  /\ At(w, "upsert") /\ Goto(w, IF full[w] THEN "resetFull" ELSE "idle")
  /\ batch[w].todo \subseteq schedules
  /\ syncChanges' = syncChanges \ syncRows[w]
  /\ syncRows' = [syncRows EXCEPT ![w] = {}]
  /\ Batches(w, NoBatch)
  /\ UNCHANGED <<full, connRows, configRows, plan, tables, connChanges, configChanges,
                 fullFlag, temporal, requests, history, bounds>>

(* Wrong: the change rows of syncs that have gone are not deleted. *)
FinishPart3Found(w) ==
  /\ At(w, "upsert") /\ Goto(w, IF full[w] THEN "resetFull" ELSE "idle")
  /\ batch[w].todo = {}
  /\ syncChanges' = syncChanges \ (syncRows[w] \cap syncs)
  /\ syncRows' = [syncRows EXCEPT ![w] = {}]
  /\ Batches(w, NoBatch)
  /\ UNCHANGED <<full, connRows, configRows, plan, tables, connChanges, configChanges,
                 fullFlag, temporal, requests, history, bounds>>

FinishPart3(w) ==
  /\ At(w, "upsert") /\ Goto(w, IF full[w] THEN "resetFull" ELSE "idle")
  /\ batch[w].todo = {}
  /\ syncChanges' = syncChanges \ syncRows[w]
  /\ syncRows' = [syncRows EXCEPT ![w] = {}]
  /\ Batches(w, NoBatch)
  /\ UNCHANGED <<full, connRows, configRows, plan, tables, connChanges, configChanges,
                 fullFlag, temporal, requests, history, bounds>>

ResetFull(w) ==
  /\ At(w, "resetFull")
  /\ Clear(w)
  /\ fullFlag' = FALSE
  /\ UNCHANGED <<tables, connChanges, configChanges, syncChanges, temporal, requests,
                 history, bounds>>

(* The attempt throws, at the statement that fails; Temporal retries the activity. *)
Throw(w) ==
  /\ \/ At(w, "create") /\ \E c \in plan[w].connTodo : ~CanCreate(w, c)
     \/ At(w, "upsert") /\ \E s \in batch[w].todo : s \notin syncs
  /\ Clear(w)
  /\ UNCHANGED shared

(* The worker dies, the database or Temporal is out of reach, or the timeout hits. *)
Crash(w) ==
  /\ ~At(w, "idle")
  /\ crashes < MaxCrashes
  /\ crashes' = crashes + 1
  /\ Clear(w)
  /\ UNCHANGED <<tables, outbox, temporal, requests, history, apiCalls>>

-----------------------------------------------------------------------------
ApiNext ==
  \/ \E c \in Connections :
       \/ BeginCreateConnection(c) \/ AbortCreateConnection(c)
       \/ \E autoStart \in BOOLEAN : CommitCreateConnection(c, autoStart)
       \/ BeginDeleteConnection(c) \/ CommitDeleteConnection(c) \/ AbortDeleteConnection(c)
       \/ \E objs \in Listings : SetConnectionSyncConfig(c, objs)
  \/ \E C \in SUBSET Connections : DeleteCustomer(C)
  \/ \E s \in syncs, pausedState \in BOOLEAN : SetPaused(s, pausedState)
  \/ \E k \in SyncConfigs :
       \/ \E objs \in Listings, autoStart \in BOOLEAN :
            CreateSyncConfig(k, objs, autoStart) \/ UpdateSyncConfig(k, objs, autoStart)
       \/ \E o \in Objects : AddObject(k, o)
       \/ BeginDeleteSyncConfig(k) \/ CommitDeleteSyncConfig(k) \/ AbortDeleteSyncConfig(k)
  \/ \E e \in Entities : DeleteEntity(e)
  \/ RequestFullRun

AttemptNext(w) ==
  \/ Start(w)
  \/ ReadConnChanges(w) \/ LoadConnections(w) \/ LoadConfigs(w)
  \/ \E c \in Connections : CreateSyncs(w, c)
  \/ InsertSyncChanges(w) \/ RemoveSyncs(w)
  \/ FinishPart1(w)
  \/ ReadConfigChanges(w) \/ LoadChangedConfigs(w)
  \/ \E k \in SyncConfigs : LoadConnectionsOf(w, k)
  \/ FinishPart2(w)
  \/ ReadSyncChanges(w) \/ LoadSyncs(w) \/ PauseDoomed(w) \/ DeleteDoomed(w)
  \/ \E s \in batch[w].todo : UpdateStrategy(w, s)
  \/ UpsertSchedule(w) \/ FinishPart3(w) \/ ResetFull(w)
  \/ Throw(w)

Next == ApiNext \/ \E w \in Attempts : AttemptNext(w) \/ Crash(w)

Spec == Init /\ [][Next]_vars

(* The schedule fires again and Temporal retries a failed activity without limit,  *)
(* so an attempt that can take a step takes one; clients and failures are free.    *)
FairSpec == Spec /\ \A w \in Attempts : WF_vars(AttemptNext(w))

-----------------------------------------------------------------------------
(* Properties *)

(* Every variable keeps its type, and what is derived from another table stays   *)
(* within it: only existing syncs are paused, only existing schedules are.       *)
TablesType ==
  /\ connection \in [Connections -> Life]
  /\ override \in [Connections -> SUBSET Objects]
  /\ syncConfig \in [SyncConfigs -> Life]
  /\ config \in [SyncConfigs -> Config]
  /\ entities \subseteq Entities
SyncsType ==
  /\ syncs \subseteq SyncId /\ paused \subseteq syncs
  /\ issued \in [Connections -> [Objects -> Nat]]
OutboxType ==
  /\ connChanges \subseteq Connections
  /\ configChanges \subseteq SyncConfigs
  /\ syncChanges \subseteq SyncId
  /\ fullFlag \in BOOLEAN
TemporalType == schedules \subseteq SyncId /\ schedPaused \subseteq schedules
RequestsType ==
  /\ birth \in [Connections -> Birth]
  /\ listed \in [Connections -> SUBSET SyncId]
  /\ removing \subseteq Connections
  /\ dropListed \in [SyncConfigs -> SUBSET SyncId]
  /\ dropping \subseteq SyncConfigs
LocalsType ==
  /\ pc \in [Attempts -> PCs]
  /\ full \in [Attempts -> BOOLEAN]
  /\ connRows \in [Attempts -> SUBSET Connections]
  /\ configRows \in [Attempts -> SUBSET SyncConfigs]
  /\ syncRows \in [Attempts -> SUBSET SyncId]
  /\ plan \in [Attempts -> Plan]
  /\ batch \in [Attempts -> Batch]
HistoryType ==
  /\ unannounced \subseteq SyncId
  /\ outdated \subseteq Connections
  /\ unseenFull \in BOOLEAN
  /\ apiCalls \in Nat /\ crashes \in Nat
TypeOK ==
  /\ TablesType /\ SyncsType /\ OutboxType /\ TemporalType
  /\ RequestsType /\ LocalsType /\ HistoryType

(* A sync and its schedule agree: there is one, and it is paused iff the sync is. *)
Agrees(s) == s \in schedules /\ (s \in paused <=> s \in schedPaused)

(* Some change row, or the flag, will make a later attempt look at the sync. *)
Covered(s) ==
  \/ s \in syncChanges
  \/ s[1] \in connChanges
  \/ \E k \in configChanges : s[1] \in ConnectionsOf(k)
  \/ fullFlag

(* A live sync that disagrees with Temporal is never forgotten: through every crash  *)
(* between createMany and the INSERT of the SyncChanges, every retry and every pause *)
(* that lands while an attempt holds an older copy, work that is left stays recorded. *)
DriftIsPending == \A s \in syncs : Agrees(s) \/ Covered(s)

(* A schedule whose sync has gone is either still to be deleted or one that left no  *)
(* SyncChange: inserting before deleting and deleting change rows last is enough.    *)
OrphansOnlyUnannounced ==
  \A s \in schedules : s \in syncs \/ s \in syncChanges \/ s \in unannounced

(* No two rows for one connection and object, whoever creates them: create() and the *)
(* two parts of the activity all rely on skipDuplicates or on a fresh connection.    *)
OneSyncPerObject == \A s, t \in syncs : s[1] = t[1] /\ s[2] = t[2] => s = t

(* A SyncChange disappears only when Temporal shows what the row said at that time.  *)
AckMeansApplied ==
  [][\A s \in syncChanges \ syncChanges' :
       /\ s \in syncs => Agrees(s)
       /\ s \in schedules => s \in syncs \/ s \in unannounced]_vars

(* The syncs of a connection are the ones its config and its own overrides call for  *)
(* whenever no change row says otherwise: none is missing but those of entities that *)
(* were deleted, and none is left but entity syncs while some entity is listed.      *)
Up(c, k) == c \notin connChanges /\ k \notin configChanges /\ c \notin outdated
ObjectsOf(c) == {s[2] : s \in SyncsOf(c)}
SyncsMatchConfig ==
  \A c \in LiveConnections : \A k \in ConfigsFor(c) :
    Up(c, k) =>
      LET want == Desired(config[k].objects, override[c])
      IN /\ want \ (Entities \ entities) \subseteq ObjectsOf(c)
         /\ \A o \in ObjectsOf(c) : Matches(o, want)

(* A change row makes every attempt throw if its connection has no config to read, or *)
(* its config lists an entity that has gone: only another request can mend that.      *)
AskedFor(c) ==
  c \in connChanges \/ fullFlag \/ \E k \in configChanges : c \in ConnectionsOf(k)
Poisoned ==
  \E c \in LiveConnections :
    /\ AskedFor(c)
    /\ \/ ConfigsFor(c) = {}
       \/ \E k \in ConfigsFor(c) : ~(Desired(config[k].objects, override[c]) \cap Entities \subseteq entities)

(* Once clients and failures stop, the activity brings Temporal to the database, unless *)
(* what is left is poisoned: no change remains, and every sync agrees with its schedule *)
(* for good.                                                                            *)
Converged ==
  /\ connChanges = {} /\ configChanges = {} /\ syncChanges = {} /\ ~fullFlag
  /\ \A s \in syncs : Agrees(s)
Converges == []<>Poisoned \/ <>[]Converged

-----------------------------------------------------------------------------
(* What the repository's comments and documents say, and the code does not do. *)

(* "The flag is only reset if it was true to begin with", so that a run does not     *)
(* discard a request made during it: a request no attempt has seen is still stored.  *)
FullRequestKept == unseenFull => fullFlag

(* "Any syncs for any deleted objects will be cascadingly deleted": once an update of *)
(* the config is processed, no sync is left that the config does not list.           *)
RemovedObjectsLoseTheirSync ==
  \A c \in LiveConnections : \A k \in ConfigsFor(c) :
    Up(c, k) => ObjectsOf(c) \subseteq Desired(config[k].objects, override[c])

=============================================================================
