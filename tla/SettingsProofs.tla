--------------------------- MODULE SettingsProofs ---------------------------
(* Proofs about settings, for any number of requests, schemas, objects, entities, fields. *)
EXTENDS Settings, TLAPS

Names == {"objects", "entityMappings", "fieldMappings", "destination"}

-----------------------------------------------------------------------------
(* The version of a destination names one row, whatever number of requests update it. *)

(* The rows that are somewhere: in the table, with a run that has read it, in the writer. *)
Rows == read \cup {columns.destination} \cup ({writer} \ {Unset})

(* No row is ahead of the table, and rows of one version are one row. *)
VersionsNameRows ==
  /\ columns = [name \in Names |-> columns[name]]
  /\ columns.destination.version \in Nat
  /\ \A row \in Rows : row.version \in Nat /\ row.version <= columns.destination.version
  /\ \A row, other \in Rows : row.version = other.version => row = other

LEMMA InitNamesRows == Init => VersionsNameRows
<1> SUFFICES ASSUME Init PROVE VersionsNameRows
  OBVIOUS
<1>1. columns.destination = FirstRow /\ columns = [name \in Names |-> columns[name]]
  BY DEF Init, Names
<1>2. FirstRow.version = 1
  BY DEF FirstRow
<1>3. Rows = {FirstRow}
  BY <1>1 DEF Init, Rows
<1> QED
  BY <1>1, <1>2, <1>3 DEF VersionsNameRows

(* A step that leaves the row alone and lets rows only move or go. *)
LEMMA RowsOnlyMove ==
  ASSUME VersionsNameRows, columns' = [name \in Names |-> columns'[name]],
         columns'.destination = columns.destination, Rows' \subseteq Rows
  PROVE VersionsNameRows'
BY DEF VersionsNameRows

(* A save of the destination was made from the row's version, and makes the next one. *)
LEMMA SaveNamesRows ==
  ASSUME VersionsNameRows, NEW call \in Calls, Save(call)
  PROVE VersionsNameRows'
<1> DEFINE c == calls[call]
<1>1. /\ columns' = [columns EXCEPT ![c.column] = Rewritten(c)]
      /\ Acceptable(c) /\ read' = read /\ writer' = writer
  BY DEF Save, worker
<1>2. columns' = [name \in Names |-> columns'[name]]
  BY <1>1 DEF VersionsNameRows
<1>3. CASE c.column = "destination"
  <2>1. columns'.destination = Merge(c)
    BY <1>1, <1>3 DEF VersionsNameRows, Rewritten, Names
  <2>2. columns'.destination.version = columns.destination.version + 1
    BY <1>1, <1>3, <2>1 DEF Merge, Acceptable
  <2>3. Rows' \subseteq Rows \cup {columns'.destination}
    BY <1>1 DEF Rows
  <2>4. \A row \in Rows : row.version \in Nat /\ row.version < columns'.destination.version
    BY <2>2 DEF VersionsNameRows
  <2>5. \A row \in Rows' : row.version \in Nat /\ row.version <= columns'.destination.version
    BY <2>2, <2>3, <2>4 DEF VersionsNameRows
  <2>6. \A row, other \in Rows' : row.version = other.version => row = other
    BY <2>2, <2>3, <2>4 DEF VersionsNameRows
  <2> QED
    BY <1>2, <2>2, <2>5, <2>6 DEF VersionsNameRows
<1>4. CASE c.column # "destination"
  <2>1. columns'.destination = columns.destination
    BY <1>1, <1>4 DEF VersionsNameRows, Names
  <2>2. Rows' = Rows
    BY <1>1, <2>1 DEF Rows
  <2> QED
    BY <1>2, <2>1, <2>2, RowsOnlyMove
<1> QED
  BY <1>3, <1>4

LEMMA NextNamesRows == VersionsNameRows /\ [Next]_vars => VersionsNameRows'
<1> SUFFICES ASSUME VersionsNameRows, [Next]_vars PROVE VersionsNameRows'
  OBVIOUS
<1>1. CASE UNCHANGED <<columns, worker>>
  <2>1. Rows' = Rows /\ columns' = columns
    BY <1>1 DEF worker, Rows
  <2> QED
    BY <2>1, RowsOnlyMove DEF VersionsNameRows
<1>2. CASE DeveloperNext
  <2>1. CASE \E objects \in [Objects -> {"absent", "none"} \cup Schemas] : UpdateProvider(objects)
    <3>1. PICK objects : columns' = [columns EXCEPT !.objects = objects] /\ UNCHANGED worker
      BY <2>1 DEF UpdateProvider
    <3>2. columns' = [name \in Names |-> columns'[name]]
      BY <3>1 DEF VersionsNameRows
    <3>3. columns'.destination = columns.destination
      BY <3>1 DEF VersionsNameRows, Names
    <3>4. Rows' = Rows
      BY <3>1, <3>3 DEF worker, Rows
    <3> QED
      BY <3>2, <3>3, <3>4, RowsOnlyMove
  <2>2. CASE ~\E objects \in [Objects -> {"absent", "none"} \cup Schemas] : UpdateProvider(objects)
    BY <1>1, <1>2, <2>2
      DEF DeveloperNext, UpdateSchema, DeleteSchema, UpdateEntity, DeleteEntity, UpdateDefaults, Changes
  <2> QED
    BY <2>1, <2>2
<1>3. CASE \E call \in Calls : Request(call)
  <2>1. PICK call \in Calls : Request(call)
    BY <1>3
  <2>2. CASE Save(call)
    BY <2>2, SaveNamesRows
  <2>3. CASE ~Save(call)
    BY <1>1, <2>1, <2>3
      DEF Request, AddObject, UpsertEntityMapping, DeleteEntityMapping, UpdateFieldMapping,
          UpdateDestination, Open, Check, Drop
  <2> QED
    BY <2>2, <2>3
<1>4. CASE ReadDestination
  <2>1. Rows' = Rows /\ columns' = columns
    BY <1>4 DEF ReadDestination, Rows
  <2> QED
    BY <2>1, RowsOnlyMove DEF VersionsNameRows
<1>5. CASE \E row \in read : GetWriter(row)
  <2>1. Rows' \subseteq Rows /\ columns' = columns
    BY <1>5 DEF GetWriter, Rows
  <2> QED
    BY <2>1, RowsOnlyMove DEF VersionsNameRows
<1>6. CASE UNCHANGED vars
  BY <1>1, <1>6 DEF vars
<1> QED
  BY <1>2, <1>3, <1>4, <1>5, <1>6 DEF Next

(* The writer that a worker has kept is used for a row it has read only if it was made from *)
(* that very row (getWriterByDestinationId compares versions, updateDestination moves them). *)
THEOREM WritersAreOfTheirRow == Spec => []WriterIsOfTheRow
<1>1. VersionsNameRows => WriterIsOfTheRow
  BY DEF VersionsNameRows, WriterIsOfTheRow, Rows
<1> QED
  BY <1>1, InitNamesRows, NextNamesRows, PTL DEF Spec

-----------------------------------------------------------------------------
(* Types *)

ColumnOf(name) ==
  CASE name = "objects" -> [Objects -> {"absent", "none"} \cup Schemas]
    [] name = "entityMappings" -> [Entities -> EntityMapping \cup {Unset}]
    [] name = "fieldMappings" -> [Objects -> Checked \cup {Unset}]
    [] name = "destination" -> [version : Nat, config : Configs, secret : Configs]

(* What a request carries; a field mapping has not been checked while its schema is Gone. *)
ValueOf(name) ==
  CASE name = "objects" -> {"none"} \cup Schemas
    [] name = "entityMappings" -> EntityMapping \cup {Unset}
    [] name = "fieldMappings" -> [fields : FieldMapping, under : SchemaConfig \cup {Gone}]
    [] name = "destination" -> [config : Configs, secret : Configs \cup {"same"}]

OpenOf(name) == [column : {name}, key : Keys(name), value : ValueOf(name), copy : ColumnOf(name),
                 stale : BOOLEAN]

Calling == {NoCall} \cup UNION {OpenOf(name) : name \in Names}

Typed ==
  /\ schema \in [Schemas -> SchemaConfig \cup {Gone}]
  /\ entity \in [Entities -> EntityConfig \cup {Gone}]
  /\ defaults \in [Entities -> EntityMapping \cup {Unset}]
  /\ columns \in Column /\ ValidObjects(columns.objects)
  /\ calls \in [Calls -> Calling]
  /\ made \in 0..MaxCalls /\ changed \in 0..MaxChanges

LEMMA OpenCalls ==
  ASSUME Typed, NEW call \in Calls, IsOpen(call)
  PROVE  calls[call].column \in Names /\ calls[call] \in OpenOf(calls[call].column)
<1>1. calls[call] # NoCall
  BY DEF IsOpen, NoCall
<1>2. PICK name \in Names : calls[call] \in OpenOf(name)
  BY <1>1 DEF Typed, Calling
<1>3. calls[call].column = name
  BY <1>2 DEF OpenOf
<1> QED
  BY <1>2, <1>3

LEMMA ColumnIsOf == ASSUME Typed, NEW name \in Names PROVE columns[name] \in ColumnOf(name)
<1>1. /\ columns.objects \in ColumnOf("objects")
      /\ columns.entityMappings \in ColumnOf("entityMappings")
      /\ columns.fieldMappings \in ColumnOf("fieldMappings")
      /\ columns.destination \in ColumnOf("destination")
  BY DEF Typed, Column, ColumnOf
<1> QED
  BY <1>1 DEF Names

LEMMA ColumnStays ==
  ASSUME columns \in Column, NEW name \in Names, NEW value \in ColumnOf(name)
  PROVE  [columns EXCEPT ![name] = value] \in Column
<1>1. CASE name = "objects"
  BY <1>1 DEF Column, ColumnOf
<1>2. CASE name = "entityMappings"
  BY <1>2 DEF Column, ColumnOf
<1>3. CASE name = "fieldMappings"
  BY <1>3 DEF Column, ColumnOf
<1>4. CASE name = "destination"
  BY <1>4 DEF Column, ColumnOf
<1> QED
  BY <1>1, <1>2, <1>3, <1>4 DEF Names

LEMMA InitTyped == Init => Typed
<1> SUFFICES ASSUME Init PROVE Typed
  OBVIOUS
<1>1. schema \in [Schemas -> SchemaConfig \cup {Gone}] /\ entity \in [Entities -> EntityConfig \cup {Gone}]
  BY SettingsConstants DEF Init
<1>2. columns \in Column /\ ValidObjects(columns.objects)
  <2>1. FirstRow \in [version : Nat, config : Configs, secret : Configs]
    BY SettingsConstants DEF FirstRow
  <2>2. PICK s \in {"none"} \cup Schemas, o \in Objects :
          columns = [objects |-> [p \in Objects |-> IF p = o THEN s ELSE "absent"],
                     entityMappings |-> [e \in Entities |-> Unset],
                     fieldMappings |-> [p \in Objects |-> Unset],
                     destination |-> FirstRow]
    BY DEF Init
  <2> HIDE DEF FirstRow
  <2>3. columns \in Column
    BY <2>1, <2>2 DEF Column
  <2>4. ValidObjects(columns.objects)
    BY <2>2 DEF ValidObjects
  <2> QED
    BY <2>3, <2>4
<1> QED
  BY <1>1, <1>2, SettingsConstants DEF Init, Typed, Calling

(* A write to a column changes nothing of the requests that it overtakes but that they are stale. *)
LEMMA OvertakenCalls ==
  ASSUME Typed, NEW column \in Names, NEW by, NEW call \in Calls
  PROVE  LET after == Overtaken(column, by)[call]
         IN /\ after \in Calling /\ after.column = calls[call].column
            /\ ~IsOpen(call) => after = calls[call]
            /\ IsOpen(call) =>
                 /\ after.key = calls[call].key /\ after.value = calls[call].value
                 /\ after.copy = calls[call].copy
                 /\ ~after.stale => ~calls[call].stale /\ (call = by \/ calls[call].column # column)
<1>1. CASE call # by /\ calls[call].column = column
  <2>1. IsOpen(call)
    BY <1>1 DEF IsOpen, Names
  <2>2. calls[call] \in OpenOf(calls[call].column) /\ calls[call].column \in Names
    BY <2>1, OpenCalls
  <2>3. Overtaken(column, by)[call] = [calls[call] EXCEPT !.stale = TRUE]
    BY <1>1 DEF Overtaken
  <2>4. Overtaken(column, by)[call] \in OpenOf(calls[call].column)
    BY <2>2, <2>3 DEF OpenOf
  <2> QED
    BY <2>1, <2>2, <2>3, <2>4 DEF OpenOf, Calling
<1>2. CASE ~(call # by /\ calls[call].column = column)
  <2>1. Overtaken(column, by)[call] = calls[call]
    BY <1>2 DEF Overtaken
  <2> QED
    BY <1>2, <2>1 DEF Typed
<1> QED
  BY <1>1, <1>2

LEMMA OvertakenTyped ==
  ASSUME Typed, NEW column \in Names, NEW by
  PROVE  Overtaken(column, by) \in [Calls -> Calling]
BY OvertakenCalls DEF Overtaken

LEMMA OpenTyped ==
  ASSUME Typed, NEW call \in Calls, NEW column \in Names, NEW key \in Keys(column),
         NEW value \in ValueOf(column), Open(call, column, key, value)
  PROVE  Typed'
<1> DEFINE new == [column |-> column, key |-> key, value |-> value,
                   copy |-> columns[column], stale |-> FALSE]
<1>1. new \in OpenOf(column)
  BY ColumnIsOf DEF OpenOf
<1>2. new \in Calling
  BY <1>1 DEF Calling
<1> HIDE DEF new
<1>3. calls' = [calls EXCEPT ![call] = new] /\ made' = made + 1 /\ made < MaxCalls
  BY DEF Open, new
<1>4. calls' \in [Calls -> Calling]
  BY <1>2, <1>3 DEF Typed
<1>5. made' \in 0..MaxCalls
  BY <1>3, SettingsConstants DEF Typed
<1> QED
  BY <1>4, <1>5 DEF Typed, Open, tables

(* The requests that open a call, and what it then carries. *)
LEMMA RequestsOpen ==
  ASSUME NEW call \in Calls, Request(call)
  PROVE  \/ Check(call) \/ Save(call) \/ Drop(call)
         \/ \E column \in Names : \E key \in Keys(column), value \in ValueOf(column) :
              /\ Open(call, column, key, value)
              /\ column = "fieldMappings" => value.under = Gone
<1>1. ASSUME NEW o \in Objects, NEW s \in {"none"} \cup Schemas, AddObject(call, o, s)
      PROVE  Open(call, "objects", o, s) /\ o \in Keys("objects") /\ s \in ValueOf("objects")
  BY <1>1 DEF AddObject, Keys, ValueOf
<1>2. ASSUME NEW e \in Entities, NEW m \in NewMappings, UpsertEntityMapping(call, e, m)
      PROVE  /\ Open(call, "entityMappings", e, m)
             /\ e \in Keys("entityMappings") /\ m \in ValueOf("entityMappings")
  BY <1>2, SettingsConstants DEF UpsertEntityMapping, Keys, ValueOf
<1>3. ASSUME NEW e \in Entities, DeleteEntityMapping(call, e)
      PROVE  /\ Open(call, "entityMappings", e, Unset)
             /\ e \in Keys("entityMappings") /\ Unset \in ValueOf("entityMappings")
  BY <1>3 DEF DeleteEntityMapping, Keys, ValueOf
<1>4. ASSUME NEW o \in Objects, NEW m \in FieldMapping, UpdateFieldMapping(call, o, m)
      PROVE  /\ Open(call, "fieldMappings", o, [fields |-> m, under |-> Gone])
             /\ o \in Keys("fieldMappings")
             /\ [fields |-> m, under |-> Gone] \in ValueOf("fieldMappings")
  BY <1>4 DEF UpdateFieldMapping, Keys, ValueOf
<1>5. ASSUME NEW config \in Configs, NEW secret \in Configs \cup {"same"},
             UpdateDestination(call, config, secret)
      PROVE  /\ Open(call, "destination", "all", [config |-> config, secret |-> secret])
             /\ "all" \in Keys("destination")
             /\ [config |-> config, secret |-> secret] \in ValueOf("destination")
  BY <1>5 DEF UpdateDestination, Keys, ValueOf
<1>6. ASSUME NEW m \in FieldMapping PROVE [fields |-> m, under |-> Gone].under = Gone
  OBVIOUS
<1> QED
  BY <1>1, <1>2, <1>3, <1>4, <1>5, <1>6 DEF Request, Names

LEMMA RewrittenTyped ==
  ASSUME Typed, NEW call \in Calls, IsOpen(call), Acceptable(calls[call])
  PROVE  LET c == calls[call]
         IN /\ Rewritten(c) \in ColumnOf(c.column)
            /\ c.column = "objects" => ValidObjects(Rewritten(c))
<1> DEFINE c == calls[call]
<1>1. c.column \in Names /\ c \in OpenOf(c.column)
  BY OpenCalls
<1>2. CASE c.column = "objects"
  <2>1. c.copy \in ColumnOf("objects") /\ c.value \in {"none"} \cup Schemas
    BY <1>1, <1>2 DEF OpenOf, ValueOf
  <2>2. Rewritten(c) = [c.copy EXCEPT ![c.key] = c.value]
    BY <1>2 DEF Rewritten
  <2>3. ValidObjects([c.copy EXCEPT ![c.key] = c.value])
    BY <1>2 DEF Acceptable
  <2> QED
    BY <1>2, <2>1, <2>2, <2>3 DEF ColumnOf
<1>3. CASE c.column = "entityMappings"
  <2>1. c.copy \in ColumnOf("entityMappings") /\ c.value \in EntityMapping \cup {Unset}
    BY <1>1, <1>3 DEF OpenOf, ValueOf
  <2>2. Rewritten(c) = [c.copy EXCEPT ![c.key] = c.value]
    BY <1>3 DEF Rewritten
  <2> QED
    BY <1>3, <2>1, <2>2 DEF ColumnOf
<1>4. CASE c.column = "fieldMappings"
  <2>1. c.copy \in ColumnOf("fieldMappings")
        /\ c.value \in [fields : FieldMapping, under : SchemaConfig \cup {Gone}]
    BY <1>1, <1>4 DEF OpenOf, ValueOf
  <2>2. c.value \in Checked
    BY <1>4, <2>1 DEF Acceptable, Checked
  <2>3. Rewritten(c) = [c.copy EXCEPT ![c.key] = c.value]
    BY <1>4 DEF Rewritten
  <2> QED
    BY <1>4, <2>1, <2>2, <2>3 DEF ColumnOf
<1>5. CASE c.column = "destination"
  <2>1. /\ c.copy \in [version : Nat, config : Configs, secret : Configs]
        /\ c.value \in [config : Configs, secret : Configs \cup {"same"}]
    BY <1>1, <1>5 DEF OpenOf, ValueOf, ColumnOf
  <2>2. columns.destination.secret \in Configs
    BY DEF Typed, Column
  <2>3. Merge(c) \in [version : Nat, config : Configs, secret : Configs]
    BY <2>1, <2>2 DEF Merge
  <2> QED
    BY <1>5, <2>3 DEF Rewritten, ColumnOf
<1> QED
  BY <1>1, <1>2, <1>3, <1>4, <1>5 DEF Names

LEMMA SaveTyped == ASSUME Typed, NEW call \in Calls, Save(call) PROVE Typed'
<1> DEFINE c == calls[call]
<1>1. /\ IsOpen(call) /\ Acceptable(c)
      /\ columns' = [columns EXCEPT ![c.column] = Rewritten(c)]
      /\ calls' = [Overtaken(c.column, call) EXCEPT ![call] = NoCall]
      /\ UNCHANGED <<tables, made, changed>>
  BY DEF Save
<1>2. c.column \in Names
  BY <1>1, OpenCalls
<1>3. columns' \in Column
  BY <1>1, <1>2, RewrittenTyped, ColumnStays DEF Typed
<1>4. ValidObjects(columns'.objects)
  <2>1. CASE c.column = "objects"
    BY <1>1, <2>1, RewrittenTyped DEF Typed, Column
  <2>2. CASE c.column # "objects"
    BY <1>1, <1>2, <2>2 DEF Typed, Column, Names
  <2> QED
    BY <2>1, <2>2
<1>5. calls' \in [Calls -> Calling]
  BY <1>1, <1>2, OvertakenTyped DEF Calling
<1> QED
  BY <1>1, <1>3, <1>4, <1>5 DEF Typed, tables, ValidObjects

LEMMA CheckTyped == ASSUME Typed, NEW call \in Calls, Check(call) PROVE Typed'
<1> DEFINE c == calls[call]
           config == SchemaOf(c.key)
           new == [c EXCEPT !.value.under = config]
<1>1. /\ c.column = "fieldMappings" /\ config \notin {Unset, Gone}
      /\ calls' = [calls EXCEPT ![call] = new]
      /\ UNCHANGED <<tables, columns, made, changed>>
  BY DEF Check
<1>2. c \in OpenOf("fieldMappings")
  BY <1>1, OpenCalls DEF IsOpen
<1>3. config \in SchemaConfig
  BY <1>1 DEF SchemaOf, Typed
<1> HIDE DEF config
<1>4. new \in OpenOf("fieldMappings")
  BY <1>2, <1>3 DEF OpenOf, ValueOf
<1>5. new \in Calling
  BY <1>4 DEF Calling, Names
<1> HIDE DEF new
<1>6. calls' \in [Calls -> Calling]
  BY <1>1, <1>5 DEF Typed
<1> QED
  BY <1>1, <1>6 DEF Typed, tables, ValidObjects

LEMMA DeveloperTyped == ASSUME Typed, DeveloperNext PROVE Typed'
<1>1. ASSUME NEW objects \in [Objects -> {"absent", "none"} \cup Schemas], UpdateProvider(objects)
      PROVE  Typed'
  <2>1. columns' = [columns EXCEPT !.objects = objects] /\ ValidObjects(objects)
    BY <1>1 DEF UpdateProvider
  <2>2. columns' \in Column /\ columns'.objects = objects
    BY <2>1 DEF Typed, Column
  <2>3. calls' \in [Calls -> Calling]
    BY <1>1, OvertakenTyped DEF UpdateProvider, Names
  <2>4. changed' \in 0..MaxChanges
    BY <1>1, SettingsConstants DEF UpdateProvider, Typed
  <2> QED
    BY <1>1, <2>1, <2>2, <2>3, <2>4 DEF UpdateProvider, Typed, tables
<1>2. ASSUME Changes PROVE changed' \in 0..MaxChanges
  BY <1>2, SettingsConstants DEF Changes, Typed
<1>3. ASSUME NEW s \in Schemas, NEW config \in SchemaConfig \cup {Gone}, UpdateSchema(s, config)
      PROVE  Typed'
  BY <1>2, <1>3 DEF UpdateSchema, Changes, Typed, ValidObjects
<1>4. ASSUME NEW e \in Entities, NEW config \in EntityConfig \cup {Gone}, UpdateEntity(e, config)
      PROVE  Typed'
  BY <1>2, <1>4 DEF UpdateEntity, Changes, Typed, ValidObjects
<1>5. ASSUME NEW maps \in [Entities -> EntityMapping \cup {Unset}], UpdateDefaults(maps)
      PROVE  Typed'
  BY <1>2, <1>5 DEF UpdateDefaults, Changes, Typed, ValidObjects
<1> QED
  BY <1>1, <1>3, <1>4, <1>5, SettingsConstants DEF DeveloperNext, DeleteSchema, DeleteEntity

LEMMA NextTyped == Typed /\ [Next]_vars => Typed'
<1> SUFFICES ASSUME Typed, [Next]_vars PROVE Typed'
  OBVIOUS
<1>1. ASSUME NEW call \in Calls, Request(call) PROVE Typed'
  <2>1. CASE Drop(call)
    BY <2>1 DEF Drop, Typed, tables, ValidObjects, Calling
  <2> QED
    BY <1>1, <2>1, RequestsOpen, OpenTyped, CheckTyped, SaveTyped
<1>2. CASE UNCHANGED <<tables, columns, calls, made, changed>>
  BY <1>2 DEF Typed, tables, ValidObjects
<1> QED
  BY <1>1, <1>2, DeveloperTyped DEF Next, ReadDestination, GetWriter, vars

(* Settings keep their types, no two objects of a provider share a schema, and no row that a *)
(* worker has read is ahead of the destination's own.                                        *)
THEOREM TypesAreKept == Spec => []TypeOK
<1>1. ASSUME Typed, NEW call \in Calls, IsOpen(call)
      PROVE  /\ calls[call].key \in Keys(calls[call].column)
             /\ [columns EXCEPT ![calls[call].column] = calls[call].copy] \in Column
  BY <1>1, OpenCalls, ColumnStays DEF OpenOf, Typed
<1>2. VersionsNameRows => \A row \in read : row.version <= columns.destination.version
  BY DEF VersionsNameRows, Rows
<1>3. Typed /\ VersionsNameRows => TypeOK
  BY <1>1, <1>2 DEF Typed, TypeOK
<1> QED
  BY <1>3, InitTyped, NextTyped, InitNamesRows, NextNamesRows, PTL DEF Spec

-----------------------------------------------------------------------------
(* What a request writes back is what it read, but for its key. *)

(* A request that nobody has overtaken holds the column as it is. *)
FreshCopies ==
  \A call \in Calls : IsOpen(call) /\ ~calls[call].stale => calls[call].copy = columns[calls[call].column]

LEMMA OpenKeepsFresh ==
  ASSUME Typed, FreshCopies, NEW call \in Calls, NEW column \in Names, NEW key, NEW value,
         Open(call, column, key, value)
  PROVE  FreshCopies'
<1>1. columns' = columns
  BY DEF Open
<1>2. calls'[call].column = column /\ calls'[call].copy = columns[column]
  BY DEF Open, Typed
<1>3. \A other \in Calls : other # call => calls'[other] = calls[other]
  BY DEF Open, Typed
<1> QED
  BY <1>1, <1>2, <1>3 DEF FreshCopies, IsOpen

(* Of a column that is written, only the writer itself is not stale, and it is done. *)
LEMMA WriteKeepsFresh ==
  ASSUME Typed, FreshCopies, NEW column \in Names, NEW by, NEW value,
         columns' = [columns EXCEPT ![column] = value],
         \A call \in Calls : calls'[call] = IF call = by THEN NoCall ELSE Overtaken(column, by)[call]
  PROVE  FreshCopies'
<1> SUFFICES ASSUME NEW call \in Calls, IsOpen(call)', ~calls'[call].stale
             PROVE  calls'[call].copy = columns'[calls'[call].column]
  BY DEF FreshCopies
<1>1. call # by /\ calls'[call] = Overtaken(column, by)[call]
  BY DEF IsOpen, NoCall
<1>2. IsOpen(call)
  BY <1>1, OvertakenCalls DEF IsOpen
<1>3. /\ calls'[call].column = calls[call].column /\ calls'[call].copy = calls[call].copy
      /\ ~calls[call].stale /\ calls[call].column # column
  BY <1>1, <1>2, OvertakenCalls
<1>4. calls[call].column \in Names
  BY <1>2, OpenCalls
<1>5. columns'[calls[call].column] = columns[calls[call].column]
  BY <1>3, <1>4 DEF Typed, Column, Names
<1> QED
  BY <1>2, <1>3, <1>5 DEF FreshCopies

LEMMA NextFresh == Typed /\ FreshCopies /\ [Next]_vars => FreshCopies'
<1> SUFFICES ASSUME Typed, FreshCopies, [Next]_vars PROVE FreshCopies'
  OBVIOUS
<1>1. CASE UNCHANGED <<columns, calls>>
  BY <1>1 DEF FreshCopies, IsOpen
<1>2. ASSUME NEW objects, UpdateProvider(objects) PROVE FreshCopies'
  <2>1. calls' = Overtaken("objects", "nobody") /\ columns' = [columns EXCEPT !["objects"] = objects]
    BY <1>2 DEF UpdateProvider
  <2>2. \A call \in Calls : call # "nobody" /\ calls'[call] = Overtaken("objects", "nobody")[call]
    BY <2>1, SettingsConstants
  <2> QED
    BY <2>1, <2>2, WriteKeepsFresh DEF Names
<1>3. ASSUME NEW call \in Calls, Save(call) PROVE FreshCopies'
  <2> DEFINE c == calls[call]
  <2>1. /\ IsOpen(call) /\ columns' = [columns EXCEPT ![c.column] = Rewritten(c)]
        /\ calls' = [Overtaken(c.column, call) EXCEPT ![call] = NoCall]
    BY <1>3 DEF Save
  <2>2. c.column \in Names
    BY <2>1, OpenCalls
  <2>3. \A other \in Calls :
          calls'[other] = IF other = call THEN NoCall ELSE Overtaken(c.column, call)[other]
    BY <2>1 DEF Overtaken
  <2> QED
    BY <2>1, <2>2, <2>3, WriteKeepsFresh
<1>4. ASSUME NEW call \in Calls, Drop(call) PROVE FreshCopies'
  BY <1>4 DEF Drop, Typed, FreshCopies, IsOpen, NoCall
<1>5. ASSUME NEW call \in Calls, Check(call) PROVE FreshCopies'
  <2>1. /\ calls[call] \in OpenOf("fieldMappings") /\ columns' = columns
        /\ calls' = [calls EXCEPT ![call].value.under = SchemaOf(calls[call].key)]
        /\ IsOpen(call)
    BY <1>5, OpenCalls DEF Check, IsOpen
  <2>2. /\ calls'[call].column = calls[call].column /\ calls'[call].copy = calls[call].copy
        /\ calls'[call].stale = calls[call].stale
    BY <2>1 DEF OpenOf, Typed
  <2>3. \A other \in Calls : other # call => calls'[other] = calls[other]
    BY <2>1 DEF Typed
  <2> QED
    BY <2>1, <2>2, <2>3 DEF FreshCopies, IsOpen
<1>6. CASE \E call \in Calls : Request(call)
  BY <1>3, <1>4, <1>5, <1>6, RequestsOpen, OpenKeepsFresh
<1> QED
  BY <1>1, <1>2, <1>6
    DEF Next, DeveloperNext, UpdateSchema, DeleteSchema, UpdateEntity, DeleteEntity, UpdateDefaults,
        Changes, ReadDestination, GetWriter, vars

(* A request that writes its column back changes one key of one column, so nobody else's work *)
(* is lost, unless the column has been written since it was read.                             *)
THEOREM FreshCopiesLoseNothing == Spec => OnlyStaleCopiesLose
<1> DEFINE Lossless(call) ==
      Save(call) /\ ~calls[call].stale =>
        \A column \in DOMAIN columns :
          columns'[column] # columns[column] =>
            /\ column = calls[call].column
            /\ column = "destination" \/ \A k \in Keys(column) :
                 columns'[column][k] # columns[column][k] => k = calls[call].key
<1>1. ASSUME Typed, FreshCopies, NEW call \in Calls PROVE Lossless(call)
  <2> SUFFICES ASSUME Save(call), ~calls[call].stale, NEW column \in DOMAIN columns,
                      columns'[column] # columns[column]
               PROVE  /\ column = calls[call].column
                      /\ column = "destination" \/ \A k \in Keys(column) :
                           columns'[column][k] # columns[column][k] => k = calls[call].key
    OBVIOUS
  <2> DEFINE c == calls[call]
  <2>1. IsOpen(call) /\ columns' = [columns EXCEPT ![c.column] = Rewritten(c)]
    BY DEF Save
  <2>2. column = c.column
    BY <2>1
  <2>3. c.copy = columns[column]
    BY <1>1, <2>1, <2>2 DEF FreshCopies
  <2>4. ASSUME column # "destination", NEW k \in Keys(column), k # c.key
        PROVE  columns'[column][k] = columns[column][k]
    <3>1. columns'[column] = [columns[column] EXCEPT ![c.key] = c.value]
      BY <2>1, <2>2, <2>3, <2>4 DEF Rewritten
    <3> QED
      BY <2>4, <3>1
  <2> QED
    BY <2>2, <2>4
<1>2. Typed /\ FreshCopies /\ [Next]_vars => [\A call \in Calls : Lossless(call)]_vars
  BY <1>1
<1>3. Init => FreshCopies
  BY DEF Init, FreshCopies, IsOpen, NoCall
<1> QED
  BY <1>2, <1>3, InitTyped, NextTyped, NextFresh, PTL DEF Spec, OnlyStaleCopiesLose

-----------------------------------------------------------------------------
(* A field mapping is checked before it is stored, and stays as it was checked. *)

Sound(row) == row # Unset => ValidFor(row.fields, row.under)

(* Of the mappings that are stored, that a request has a copy of, or that it has checked. *)
MappingsChecked ==
  /\ \A o \in Objects : Sound(columns.fieldMappings[o])
  /\ \A call \in Calls : calls[call].column = "fieldMappings" =>
       /\ \A o \in Objects : Sound(calls[call].copy[o])
       /\ calls[call].value.under # Gone => ValidFor(calls[call].value.fields, calls[call].value.under)

(* Soundness does not depend on the state, so the next one is judged by its own rows. *)
LEMMA CheckedNext ==
  ASSUME \A o \in Objects : Sound(columns'.fieldMappings[o]),
         \A call \in Calls : calls'[call].column = "fieldMappings" =>
           /\ \A o \in Objects : Sound(calls'[call].copy[o])
           /\ calls'[call].value.under # Gone =>
                ValidFor(calls'[call].value.fields, calls'[call].value.under)
  PROVE  MappingsChecked'
BY DEF MappingsChecked, Sound, ValidFor, Entries, Known

LEMMA OpenKeepsChecked ==
  ASSUME Typed, MappingsChecked, NEW call \in Calls, NEW column \in Names, NEW key, NEW value,
         Open(call, column, key, value), column = "fieldMappings" => value.under = Gone
  PROVE  MappingsChecked'
<1>1. columns' = columns
  BY DEF Open
<1>2. /\ calls'[call].column = column /\ calls'[call].copy = columns[column]
      /\ calls'[call].value = value
  BY DEF Open, Typed
<1>3. \A other \in Calls : other # call => calls'[other] = calls[other]
  BY DEF Open, Typed
<1>4. \A o \in Objects : Sound(columns'.fieldMappings[o])
  BY <1>1 DEF MappingsChecked
<1>5. column = "fieldMappings" => \A o \in Objects : Sound(columns[column][o])
  BY DEF MappingsChecked
<1>6. ASSUME NEW other \in Calls, calls'[other].column = "fieldMappings"
      PROVE  /\ \A o \in Objects : Sound(calls'[other].copy[o])
             /\ calls'[other].value.under # Gone =>
                  ValidFor(calls'[other].value.fields, calls'[other].value.under)
  BY <1>2, <1>3, <1>5, <1>6 DEF MappingsChecked
<1> QED
  BY <1>4, <1>6, CheckedNext

LEMMA CheckKeepsChecked ==
  ASSUME Typed, MappingsChecked, NEW call \in Calls, Check(call)
  PROVE  MappingsChecked'
<1> DEFINE config == SchemaOf(calls[call].key)
<1>1. /\ calls[call] \in OpenOf("fieldMappings") /\ columns' = columns
      /\ calls' = [calls EXCEPT ![call].value.under = config]
      /\ calls[call].column = "fieldMappings" /\ ValidFor(calls[call].value.fields, config)
  BY OpenCalls DEF Check, IsOpen
<1> HIDE DEF config
<1>2. /\ calls'[call].copy = calls[call].copy /\ calls'[call].value.under = config
      /\ calls'[call].value.fields = calls[call].value.fields
  BY <1>1 DEF OpenOf, ValueOf, Typed
<1>3. \A other \in Calls : other # call => calls'[other] = calls[other]
  BY <1>1 DEF Typed
<1>4. \A o \in Objects : Sound(columns'.fieldMappings[o])
  BY <1>1 DEF MappingsChecked
<1>5. /\ \A o \in Objects : Sound(calls'[call].copy[o])
      /\ ValidFor(calls'[call].value.fields, calls'[call].value.under)
  BY <1>1, <1>2 DEF MappingsChecked
<1>6. ASSUME NEW other \in Calls, calls'[other].column = "fieldMappings"
      PROVE  /\ \A o \in Objects : Sound(calls'[other].copy[o])
             /\ calls'[other].value.under # Gone =>
                  ValidFor(calls'[other].value.fields, calls'[other].value.under)
  BY <1>3, <1>5, <1>6 DEF MappingsChecked
<1> QED
  BY <1>4, <1>6, CheckedNext

(* A write of checked mappings, or of another column. *)
LEMMA WriteKeepsChecked ==
  ASSUME Typed, MappingsChecked, NEW column \in Names, NEW by, NEW value,
         column = "fieldMappings" => \A o \in Objects : Sound(value[o]),
         columns' = [columns EXCEPT ![column] = value],
         \A call \in Calls : calls'[call] = IF call = by THEN NoCall ELSE Overtaken(column, by)[call]
  PROVE  MappingsChecked'
<1>1. \A o \in Objects : Sound(columns'.fieldMappings[o])
  BY DEF MappingsChecked, Typed, Column, Names
<1>2. ASSUME NEW call \in Calls, calls'[call].column = "fieldMappings"
      PROVE  /\ \A o \in Objects : Sound(calls'[call].copy[o])
             /\ calls'[call].value.under # Gone =>
                  ValidFor(calls'[call].value.fields, calls'[call].value.under)
  <2>1. calls'[call] = Overtaken(column, by)[call]
    BY <1>2 DEF NoCall
  <2>2. IsOpen(call)
    BY <1>2, <2>1, OvertakenCalls DEF IsOpen
  <2>3. /\ calls'[call].value = calls[call].value /\ calls'[call].copy = calls[call].copy
        /\ calls[call].column = "fieldMappings"
    BY <1>2, <2>1, <2>2, OvertakenCalls
  <2> QED
    BY <2>3 DEF MappingsChecked
<1> QED
  BY <1>1, <1>2, CheckedNext

LEMMA SaveKeepsChecked ==
  ASSUME Typed, MappingsChecked, NEW call \in Calls, Save(call)
  PROVE  MappingsChecked'
<1> DEFINE c == calls[call]
<1>1. /\ IsOpen(call) /\ Acceptable(c) /\ columns' = [columns EXCEPT ![c.column] = Rewritten(c)]
      /\ calls' = [Overtaken(c.column, call) EXCEPT ![call] = NoCall]
  BY DEF Save
<1>2. c.column \in Names /\ c \in OpenOf(c.column)
  BY <1>1, OpenCalls
<1>3. \A other \in Calls :
        calls'[other] = IF other = call THEN NoCall ELSE Overtaken(c.column, call)[other]
  BY <1>1 DEF Overtaken
<1>4. ASSUME c.column = "fieldMappings", NEW o \in Objects PROVE Sound(Rewritten(c)[o])
  <2>1. c.value.under # Gone
    BY <1>1, <1>4 DEF Acceptable
  <2>2. Sound(c.value) /\ Sound(c.copy[o])
    BY <1>4, <2>1 DEF MappingsChecked, Sound
  <2>3. c.copy \in [Objects -> Checked \cup {Unset}]
    BY <1>2, <1>4 DEF OpenOf, ColumnOf
  <2>4. Rewritten(c)[o] \in {c.value, c.copy[o]}
    BY <1>4, <2>3 DEF Rewritten
  <2> QED
    BY <2>2, <2>4
<1> QED
  BY <1>1, <1>2, <1>3, <1>4, WriteKeepsChecked

LEMMA NextChecked == Typed /\ MappingsChecked /\ [Next]_vars => MappingsChecked'
<1> SUFFICES ASSUME Typed, MappingsChecked, [Next]_vars PROVE MappingsChecked'
  OBVIOUS
<1>1. CASE UNCHANGED <<columns, calls>>
  BY <1>1, CheckedNext DEF MappingsChecked
<1>2. ASSUME NEW objects, UpdateProvider(objects) PROVE MappingsChecked'
  <2>1. calls' = Overtaken("objects", "nobody") /\ columns' = [columns EXCEPT !["objects"] = objects]
    BY <1>2 DEF UpdateProvider
  <2>2. \A call \in Calls : call # "nobody" /\ calls'[call] = Overtaken("objects", "nobody")[call]
    BY <2>1, SettingsConstants
  <2> QED
    BY <2>1, <2>2, WriteKeepsChecked DEF Names
<1>3. ASSUME NEW call \in Calls, Drop(call) PROVE MappingsChecked'
  <2>1. calls'[call].column # "fieldMappings" /\ columns' = columns
    BY <1>3 DEF Drop, Typed, NoCall
  <2>2. \A other \in Calls : other # call => calls'[other] = calls[other]
    BY <1>3 DEF Drop, Typed
  <2> QED
    BY <2>1, <2>2, CheckedNext DEF MappingsChecked
<1>4. CASE \E call \in Calls : Request(call)
  BY <1>3, <1>4, RequestsOpen, OpenKeepsChecked, CheckKeepsChecked, SaveKeepsChecked
<1> QED
  BY <1>1, <1>2, <1>4
    DEF Next, DeveloperNext, UpdateSchema, DeleteSchema, UpdateEntity, DeleteEntity, UpdateDefaults,
        Changes, ReadDestination, GetWriter, vars

LEMMA GoneIsNoConfig == Gone \notin SchemaConfig
<1>1. \A config \in SchemaConfig : DOMAIN config = {"mapped", "open", "additional"}
  BY DEF SchemaConfig
<1>2. DOMAIN Gone = {"gone"}
  BY DEF Gone
<1> QED
  BY <1>1, <1>2

(* A mapping that was stored under the schema the object still has, and names no field that *)
(* the schema maps, lets the object's syncs run: updateObjectFieldMapping refuses what       *)
(* createFieldMappingConfig would throw on, but for those entries.                           *)
THEOREM AcceptedMappingsLetSyncsRun == Spec => []AcceptedMappingsWork
<1>1. ASSUME Typed, MappingsChecked, NEW o \in Objects,
             columns.fieldMappings[o] # Unset, SchemaOf(o) = columns.fieldMappings[o].under,
             Entries(columns.fieldMappings[o].fields) \cap columns.fieldMappings[o].under.mapped = {}
      PROVE  UsedFields(o) # Failed
  <2> DEFINE row == columns.fieldMappings[o]
  <2>1. row \in Checked
    BY <1>1 DEF Typed, Column
  <2>2. row.under \in SchemaConfig /\ row.under # Gone
    BY <2>1, GoneIsNoConfig DEF Checked
  <2>3. Entries(row.fields) \subseteq row.under.open \/ row.under.additional
    BY <1>1 DEF MappingsChecked, Sound, ValidFor, Known
  <2> DEFINE used == [byTheSchema |-> row.under.mapped, byTheCustomer |-> Pairs(row.fields)]
  <2>4. UsedFields(o) \in {AllFields, used}
    BY <1>1, <2>2, <2>3 DEF UsedFields
  <2>5. DOMAIN AllFields = {"all"} /\ DOMAIN Failed = {"failed"}
        /\ DOMAIN used = {"byTheSchema", "byTheCustomer"}
    BY DEF AllFields, Failed
  <2> QED
    BY <2>4, <2>5
<1>2. Typed /\ MappingsChecked => AcceptedMappingsWork
  BY <1>1 DEF AcceptedMappingsWork
<1>3. Init => MappingsChecked
  BY DEF Init, MappingsChecked, Sound, NoCall
<1> QED
  BY <1>2, <1>3, InitTyped, NextTyped, NextChecked, PTL DEF Spec

-----------------------------------------------------------------------------
(* The page and the syncs read the same tables. *)

LEMMA OverBare ==
  ASSUME NEW fields \in [Fields -> {"absent"} \cup Targets]
  PROVE  Over([f \in Fields |-> "absent"], fields) = fields
BY DEF Over

LEMMA EntityListedIsUsed ==
  ASSUME Typed, NEW e \in Entities, UsedEntity(e) # Failed
  PROVE  UsedEntity(e) = ListedEntity(e)
<1> DEFINE mine == defaults[e]
           theirs == columns.entityMappings[e]
           m == Merged(mine, theirs)
           none == [f \in Fields |-> "absent"]
           bare == [object |-> "none", fields |-> none]
           after(shown, x) == IF x = Unset THEN shown
                              ELSE [object |-> x.object, fields |-> Over(shown.fields, x.fields)]
           shown == after(after(bare, mine), theirs)
<1>1. mine \in EntityMapping \cup {Unset} /\ theirs \in EntityMapping \cup {Unset}
  BY DEF Typed, Column
<1>2. m # Unset /\ UsedEntity(e) = [object |-> m.object, fields |-> Pairs(m.fields)]
  BY DEF UsedEntity
<1>3. ASSUME NEW x \in EntityMapping, x # Unset
      PROVE  after(bare, x).object = x.object /\ after(bare, x).fields = x.fields
  BY <1>3, OverBare DEF EntityMapping
<1>4. shown.object = m.object /\ shown.fields = m.fields
  <2>1. CASE mine = Unset
    BY <1>1, <1>2, <1>3, <2>1 DEF Merged
  <2>2. CASE mine # Unset /\ theirs = Unset
    BY <1>1, <1>2, <1>3, <2>2 DEF Merged
  <2>3. CASE mine # Unset /\ theirs # Unset
    BY <1>1, <1>2, <1>3, <2>3 DEF Merged
  <2> QED
    BY <2>1, <2>2, <2>3
<1>5. ListedEntity(e) = [object |-> shown.object, fields |-> Pairs(shown.fields)]
  BY DEF ListedEntity
<1> QED
  BY <1>2, <1>4, <1>5

LEMMA FieldsListedAreUsed ==
  ASSUME Typed, NEW o \in Objects, UsedFields(o) \notin {Failed, AllFields}
  PROVE  UsedFields(o) = ListedFields(o)
<1> DEFINE config == SchemaOf(o)
           row == columns.fieldMappings[o]
           fields == IF row = Unset THEN [f \in Fields |-> "absent"] ELSE row.fields
           listed == IF row = Unset THEN {}
                     ELSE {pair \in Pairs(row.fields) : pair[1] \notin config.mapped /\ row # Unset}
<1>1. /\ Entries(fields) \cap config.mapped = {}
      /\ UsedFields(o) = [byTheSchema |-> config.mapped, byTheCustomer |-> Pairs(fields)]
  BY DEF UsedFields
<1>2. ListedFields(o) = [byTheSchema |-> config.mapped, byTheCustomer |-> listed]
  BY DEF ListedFields
<1> HIDE DEF config
<1>3. Pairs(fields) = listed
  <2>1. CASE row = Unset
    BY <2>1, SettingsConstants DEF Pairs
  <2>2. CASE row # Unset
    <3>1. \A pair \in Pairs(fields) : pair[1] \in Entries(fields)
      BY SettingsConstants DEF Pairs, Entries
    <3>2. \A pair \in Pairs(fields) : pair[1] \notin config.mapped
      BY <1>1, <3>1
    <3> QED
      BY <2>2, <3>2
  <2> QED
    BY <2>1, <2>2
<1> QED
  BY <1>1, <1>2, <1>3

(* What the settings page shows of an entity or an object is what a sync of it uses, if the  *)
(* sync can run: the two merges of entity mappings agree, and so do the two readings of a     *)
(* schema with the customer's field mapping.                                                  *)
THEOREM PagesShowWhatSyncsUse == Spec => []ListedIsUsed
<1>1. Typed => ListedIsUsed
  BY EntityListedIsUsed, FieldsListedAreUsed DEF ListedIsUsed
<1> QED
  BY <1>1, InitTyped, NextTyped, PTL DEF Spec

=============================================================================
