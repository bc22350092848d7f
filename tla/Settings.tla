------------------------------- MODULE Settings -------------------------------
(***************************************************************************)
(* What developers and customers configure for one provider and one        *)
(* connection: schemas and entities with their fields, the objects of the  *)
(* provider, the mappings of fields that the customer adds, and the        *)
(* destination, from whose row a worker makes and keeps a writer.          *)
(*                                                                         *)
(* Objects, entity mappings and field mappings are columns of JSON.  A     *)
(* request reads the column, changes one key of its copy and writes the    *)
(* column back; only the row of a destination has a version to prevent     *)
(* that a copy goes over a newer row.  Reads by syncs and by the settings  *)
(* page keep no state and are operators.  Connections share nothing but    *)
(* the tables of the developer, so one stands for all; so does one type of *)
(* objects, one destination and one worker.                                *)
(***************************************************************************)
EXTENDS Naturals, FiniteSets

CONSTANTS
  Schemas, Objects, Entities,
  Fields,         \* names of the fields of schemas and entities
  Targets,        \* names of fields at the provider
  Configs,        \* what a destination can be configured with
  Calls,          \* requests that may be open at a time
  NewSchemas,     \* the configs of schemas, ...
  NewEntities,    \* ... the configs of entities, ...
  NewMappings,    \* ... and the entity mappings that requests of this instance carry
  MaxCalls,       \* bound on requests that read and write back
  MaxChanges      \* bound on the developer's other requests

(* A schema maps some of its fields itself and leaves the others open. *)
SchemaConfig == {s \in [mapped : SUBSET Fields, open : SUBSET Fields, additional : BOOLEAN] :
                   s.mapped \cap s.open = {}}
EntityConfig == [core : SUBSET Fields, additional : BOOLEAN]

(* An entry of a mapping may name its field and no target. *)
FieldMapping == [Fields -> {"absent", "blank"} \cup Targets]
EntityMapping == [object : {"none", "some", "other"}, fields : [Fields -> {"absent"} \cup Targets]]

ASSUME SettingsConstants ==
  /\ NewSchemas \subseteq SchemaConfig /\ NewEntities \subseteq EntityConfig
  /\ NewMappings \subseteq EntityMapping /\ Configs # {}
  /\ MaxCalls \in Nat /\ MaxChanges \in Nat
  /\ {"absent", "blank", "unset", "gone", "none"} \cap (Targets \cup Schemas) = {}
  /\ "nobody" \notin Calls

Gone == [gone |-> TRUE]
Unset == [unset |-> TRUE]

VARIABLES
  schema,         \* Schemas -> config, or Gone
  entity,         \* Entities -> config, or Gone
  defaults,       \* Entities -> the provider's mapping, or Unset
  columns,        \* the JSON columns, and the row, that requests read and write back
  calls,          \* Calls -> the open request
  read,           \* rows of the destination that runs have read and not used yet
  writer,         \* #writerCache: the row its writer was made from
  made, changed   \* requests so far

tables == <<schema, entity, defaults>>
worker == <<read, writer>>
vars == <<tables, columns, calls, worker, made, changed>>

(* under: the schema that the mapping was checked against. *)
Checked == [fields : FieldMapping, under : SchemaConfig]
Column == [objects : [Objects -> {"absent", "none"} \cup Schemas],
           entityMappings : [Entities -> EntityMapping \cup {Unset}],
           fieldMappings : [Objects -> Checked \cup {Unset}],
           destination : [version : Nat, config : Configs, secret : Configs]]
Keys(column) == CASE column = "entityMappings" -> Entities
                  [] column = "destination" -> {"all"}
                  [] OTHER -> Objects

FirstRow == LET c == CHOOSE c \in Configs : TRUE IN [version |-> 1, config |-> c, secret |-> c]

(* stale: history, the column has been written since this request read it. *)
NoCall == [column |-> "none"]
IsOpen(call) == calls[call].column # "none"

Init ==
  /\ \E config \in NewSchemas : schema = [s \in Schemas |-> config]
  /\ \E config \in NewEntities : entity = [e \in Entities |-> config]
  /\ defaults = [e \in Entities |-> Unset]
  /\ \E s \in {"none"} \cup Schemas, o \in Objects :
       columns = [objects |-> [p \in Objects |-> IF p = o THEN s ELSE "absent"],
                  entityMappings |-> [e \in Entities |-> Unset],
                  fieldMappings |-> [p \in Objects |-> Unset],
                  destination |-> FirstRow]
  /\ calls = [call \in Calls |-> NoCall]
  /\ read = {} /\ writer = Unset
  /\ made = 0 /\ changed = 0

-----------------------------------------------------------------------------
(* Requests of the developer that read nothing first *)

Changes == changed < MaxChanges /\ changed' = changed + 1 /\ UNCHANGED <<calls, worker, made>>

UpdateSchema(s, config) ==
  /\ Changes /\ schema[s] # Gone
  /\ schema' = [schema EXCEPT ![s] = config]
  /\ UNCHANGED <<entity, defaults, columns>>

(* Whatever refers to it goes on doing so. *)
DeleteSchema(s) == UpdateSchema(s, Gone)

UpdateEntity(e, config) ==
  /\ Changes /\ entity[e] # Gone
  /\ entity' = [entity EXCEPT ![e] = config]
  /\ UNCHANGED <<schema, defaults, columns>>

DeleteEntity(e) == UpdateEntity(e, Gone)

(* validateObjects: no schema twice, and "none" counts as one. *)
ValidObjects(objects) ==
  \A o, p \in Objects : objects[o] = objects[p] /\ objects[o] # "absent" => o = p

(* validateEntityMappings compares objects by reference, so only two missing ones are equal. *)
ValidDefaults(maps) ==
  Cardinality({e \in Entities : maps[e] # Unset /\ maps[e].object = "none"}) <= 1

(* A request that had read the column holds a copy from before this write. *)
Overtaken(column, by) ==
  [call \in Calls |-> IF call # by /\ calls[call].column = column
                      THEN [calls[call] EXCEPT !.stale = TRUE] ELSE calls[call]]

(* The PUT of a provider writes the columns it carries, as they are. *)
UpdateProvider(objects) ==
  /\ changed < MaxChanges /\ changed' = changed + 1
  /\ ValidObjects(objects)
  /\ columns' = [columns EXCEPT !.objects = objects]
  /\ calls' = Overtaken("objects", "nobody")
  /\ UNCHANGED <<tables, worker, made>>

UpdateDefaults(maps) ==
  /\ Changes
  /\ ValidDefaults(maps)
  /\ defaults' = maps
  /\ UNCHANGED <<schema, entity, columns>>

-----------------------------------------------------------------------------
(* Requests that read a column, change a key and write the column back *)

Open(call, column, key, value) ==
  /\ ~IsOpen(call) /\ made < MaxCalls
  /\ calls' = [calls EXCEPT ![call] = [column |-> column, key |-> key, value |-> value,
                                       copy |-> columns[column], stale |-> FALSE]]
  /\ made' = made + 1
  /\ UNCHANGED <<tables, columns, worker, changed>>

(* addObject *)
AddObject(call, o, s) == Open(call, "objects", o, s)

(* upsertEntityMapping, which asks nothing of the entity *)
UpsertEntityMapping(call, e, mapping) == Open(call, "entityMappings", e, mapping)

(* deleteEntityMapping *)
DeleteEntityMapping(call, e) ==
  /\ columns.entityMappings[e] # Unset
  /\ Open(call, "entityMappings", e, Unset)

(* updateObjectFieldMapping: the connection comes with the request, the schema is read later. *)
UpdateFieldMapping(call, o, mapping) ==
  Open(call, "fieldMappings", o, [fields |-> mapping, under |-> Gone])

(* updateDestination, of the version that the developer has seen; a secret may be left out *)
UpdateDestination(call, config, secret) ==
  Open(call, "destination", "all", [config |-> config, secret |-> secret])

SchemaOf(o) ==
  LET s == columns.objects[o] IN IF s \in Schemas THEN schema[s] ELSE Unset

Entries(mapping) == {f \in Fields : mapping[f] # "absent"}
Known(config) == config.mapped \cup config.open

(* Wrong: fields that the schema does not have are not looked at. *)
ValidForWithoutAdditional(mapping, config) ==
  /\ config.open \subseteq Entries(mapping)
  /\ \A f \in config.mapped : mapping[f] \notin Targets

(* validateObjectFieldMappingUpdateParams *)
ValidFor(mapping, config) ==
  /\ config.open \subseteq Entries(mapping)
  /\ Entries(mapping) \subseteq Known(config) \/ config.additional
  /\ \A f \in config.mapped : mapping[f] \notin Targets

Check(call) ==
  LET c == calls[call]
      config == SchemaOf(c.key)
  IN /\ c.column = "fieldMappings" /\ c.value.under = Gone
     /\ config \notin {Unset, Gone} /\ ValidFor(c.value.fields, config)
     /\ calls' = [calls EXCEPT ![call].value.under = config]
     /\ UNCHANGED <<tables, columns, worker, made, changed>>

(* mergeDestinationConfig, and the next version *)
Merge(c) ==
  [version |-> c.copy.version + 1, config |-> c.value.config,
   secret |-> IF c.value.secret = "same" THEN columns.destination.secret ELSE c.value.secret]

(* Wrong: the list is checked without the new object. *)
AcceptableUnchecked(c) ==
  CASE c.column = "objects" -> c.copy[c.key] = "absent" /\ ValidObjects(c.copy)
    [] c.column = "fieldMappings" -> c.value.under # Gone
    [] c.column = "destination" -> c.copy.version = columns.destination.version
    [] OTHER -> TRUE

(* Wrong: the update names the id and not the version. *)
AcceptableAtAnyVersion(c) ==
  CASE c.column = "objects" ->
         c.copy[c.key] = "absent" /\ ValidObjects([c.copy EXCEPT ![c.key] = c.value])
    [] c.column = "fieldMappings" -> c.value.under # Gone
    [] OTHER -> TRUE

Acceptable(c) ==
  CASE c.column = "objects" ->
         c.copy[c.key] = "absent" /\ ValidObjects([c.copy EXCEPT ![c.key] = c.value])
    [] c.column = "fieldMappings" -> c.value.under # Gone
    [] c.column = "destination" -> c.copy.version = columns.destination.version
    [] OTHER -> TRUE

(* Wrong: only the key of this request is kept. *)
RewrittenAlone(c) ==
  CASE c.column = "destination" -> Merge(c)
    [] c.column = "objects" -> [o \in Objects |-> IF o = c.key THEN c.value ELSE "absent"]
    [] OTHER -> [k \in DOMAIN c.copy |-> IF k = c.key THEN c.value ELSE Unset]

Rewritten(c) ==
  IF c.column = "destination" THEN Merge(c) ELSE [c.copy EXCEPT ![c.key] = c.value]

Save(call) ==
  LET c == calls[call]
  IN /\ IsOpen(call) /\ Acceptable(c)
     /\ columns' = [columns EXCEPT ![c.column] = Rewritten(c)]
     /\ calls' = [Overtaken(c.column, call) EXCEPT ![call] = NoCall]
     /\ UNCHANGED <<tables, worker, made, changed>>

(* A request that is refused, or whose process goes away, has written nothing. *)
Drop(call) ==
  /\ IsOpen(call)
  /\ calls' = [calls EXCEPT ![call] = NoCall]
  /\ UNCHANGED <<tables, columns, worker, made, changed>>

-----------------------------------------------------------------------------
(* getWriterByDestinationId reads the row, and then looks whether the writer it has kept *)
(* was made for that version.                                                            *)

ReadDestination ==
  /\ read' = read \cup {columns.destination}
  /\ UNCHANGED <<tables, columns, calls, writer, made, changed>>

GetWriter(row) ==
  /\ row \in read
  /\ read' = read \ {row}
  /\ writer' = IF writer # Unset /\ writer.version = row.version THEN writer ELSE row
  /\ UNCHANGED <<tables, columns, calls, made, changed>>

Request(call) ==
  \/ \E o \in Objects, s \in {"none"} \cup Schemas : AddObject(call, o, s)
  \/ \E e \in Entities : DeleteEntityMapping(call, e)
                         \/ \E m \in NewMappings : UpsertEntityMapping(call, e, m)
  \/ \E o \in Objects, m \in FieldMapping : UpdateFieldMapping(call, o, m)
  \/ \E config \in Configs, secret \in Configs \cup {"same"} : UpdateDestination(call, config, secret)
  \/ Check(call) \/ Save(call) \/ Drop(call)

DeveloperNext ==
  \/ \E s \in Schemas : DeleteSchema(s) \/ \E config \in NewSchemas : UpdateSchema(s, config)
  \/ \E e \in Entities : DeleteEntity(e) \/ \E config \in NewEntities : UpdateEntity(e, config)
  \/ \E objects \in [Objects -> {"absent", "none"} \cup Schemas] : UpdateProvider(objects)
  \/ \E maps \in [Entities -> NewMappings \cup {Unset}] : UpdateDefaults(maps)

Next ==
  \/ DeveloperNext
  \/ \E call \in Calls : Request(call)
  \/ ReadDestination \/ \E row \in read : GetWriter(row)

Spec == Init /\ [][Next]_vars

-----------------------------------------------------------------------------
(* What syncs make of it, and what the settings page shows *)

Failed == [failed |-> TRUE]
AllFields == [all |-> TRUE]
Pairs(fields) == {<<f, fields[f]>> : f \in {g \in Fields : fields[g] \in Targets}}

(* createFieldMappingConfig: without a schema every field is taken. With one, a mapping of    *)
(* the customer must not name a field the schema maps, nor one the schema does not have. The  *)
(* targets of mapped fields are the schema's own.                                              *)
UsedFields(o) ==
  LET config == SchemaOf(o)
      row == columns.fieldMappings[o]
      fields == IF row = Unset THEN [f \in Fields |-> "absent"] ELSE row.fields
  IN IF config = Unset THEN AllFields
     ELSE IF config = Gone \/ (Entries(fields) \cap config.mapped # {})
        \/ ~(Entries(fields) \subseteq config.open \/ config.additional)
     THEN Failed
     ELSE [byTheSchema |-> config.mapped, byTheCustomer |-> Pairs(fields)]

(* getFieldMappingInfo *)
ListedFields(o) ==
  LET config == SchemaOf(o)
      row == columns.fieldMappings[o]
      shown(f) == f \notin config.mapped /\ row # Unset
  IN [byTheSchema |-> config.mapped,
      byTheCustomer |-> IF row = Unset THEN {}
                        ELSE {pair \in Pairs(row.fields) : shown(pair[1])}]

Over(base, fields) == [f \in Fields |-> IF fields[f] # "absent" THEN fields[f] ELSE base[f]]

(* Wrong: the provider's object stays where the customer's mapping has none. *)
MergedKeepingObject(mine, theirs) ==
  IF mine = Unset THEN theirs
  ELSE IF theirs = Unset THEN mine
  ELSE [object |-> IF theirs.object = "none" THEN mine.object ELSE theirs.object,
        fields |-> Over(mine.fields, theirs.fields)]

(* mergeEntityMappings, for a sync: the customer's object stands for the provider's, even *)
(* where the customer's mapping has none.                                                 *)
Merged(mine, theirs) ==
  IF mine = Unset THEN theirs
  ELSE IF theirs = Unset THEN mine
  ELSE [object |-> theirs.object, fields |-> Over(mine.fields, theirs.fields)]

(* getObjectAndFieldMappingConfigForEntity *)
UsedEntity(e) ==
  LET m == Merged(defaults[e], columns.entityMappings[e])
  IN IF entity[e] = Gone \/ m = Unset THEN Failed
     ELSE IF m.object = "none"
             \/ ~(Entries(m.fields) \subseteq entity[e].core \/ entity[e].additional) THEN Failed
     ELSE [object |-> m.object, fields |-> Pairs(m.fields)]

(* mergeEntityMappingsList, for the settings page: every entity, one list after the other. *)
ListedEntity(e) ==
  LET after(shown, m) == IF m = Unset THEN shown
                         ELSE [object |-> m.object, fields |-> Over(shown.fields, m.fields)]
      bare == [object |-> "none", fields |-> [f \in Fields |-> "absent"]]
      shown == after(after(bare, defaults[e]), columns.entityMappings[e])
  IN [object |-> shown.object, fields |-> Pairs(shown.fields)]

-----------------------------------------------------------------------------
(* Properties *)

(* Types, and that no two objects of a provider share a schema. *)
TypeOK ==
  /\ schema \in [Schemas -> SchemaConfig \cup {Gone}]
  /\ entity \in [Entities -> EntityConfig \cup {Gone}]
  /\ defaults \in [Entities -> EntityMapping \cup {Unset}]
  /\ columns \in Column /\ ValidObjects(columns.objects)
  /\ \A row \in read : row.version <= columns.destination.version
  /\ made \in 0..MaxCalls /\ changed \in 0..MaxChanges
  /\ \A call \in Calls : IsOpen(call) => calls[call].key \in Keys(calls[call].column)
  /\ \A call \in Calls : IsOpen(call) =>
       [columns EXCEPT ![calls[call].column] = calls[call].copy] \in Column

(* What the settings page shows of an entity or an object is what a sync of it uses, if *)
(* the sync can run: mergeEntityMappingsList agrees with mergeEntityMappings, and        *)
(* getFieldMappingInfo with createFieldMappingConfig.                                    *)
ListedIsUsed ==
  /\ \A e \in Entities : UsedEntity(e) # Failed => UsedEntity(e) = ListedEntity(e)
  /\ \A o \in Objects : UsedFields(o) \notin {Failed, AllFields} => UsedFields(o) = ListedFields(o)

(* A mapping that updateObjectFieldMapping has accepted does not stop the syncs of its    *)
(* object, unless the schema has changed since it was checked, or it has an entry without *)
(* a target for a field that the schema maps: that entry is accepted and fails them all.  *)
AcceptedMappingsWork ==
  \A o \in Objects :
    LET row == columns.fieldMappings[o]
    IN row # Unset /\ SchemaOf(o) = row.under /\ Entries(row.fields) \cap row.under.mapped = {}
       => UsedFields(o) # Failed

(* A request loses the work of no other, unless it writes a copy older than the column. *)
OnlyStaleCopiesLose ==
  [][\A call \in Calls : Save(call) /\ ~calls[call].stale =>
       \A column \in DOMAIN columns :
         columns'[column] # columns[column] =>
           /\ column = calls[call].column
           /\ column = "destination" \/ \A k \in Keys(column) :
                columns'[column][k] # columns[column][k] => k = calls[call].key]_vars

(* The writer that the worker keeps is used for a row it has read only if it was made     *)
(* from that very row: the version, which updateDestination moves under its own condition, *)
(* tells the rows of a destination apart.                                                  *)
WriterIsOfTheRow ==
  \A row \in read \cup {columns.destination} :
    writer # Unset /\ writer.version = row.version => writer = row

=============================================================================
