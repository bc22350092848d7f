SPECIFICATION Spec
CONSTANTS
  f = f
  g = g
  Schemas = {s1}
  Objects = {o1, o2}
  Entities = {e1, e2}
  Fields = {f, g}
  Targets = {"x"}
  Configs = {"a", "b"}
  Calls = {c1, c2}
  NewSchemas <- SomeSchemas
  NewEntities <- SomeEntities
  NewMappings <- SomeMappings
  MaxCalls = 2
  MaxChanges = 1
SYMMETRY Interchangeable
INVARIANTS TypeOK ListedIsUsed AcceptedMappingsWork WriterIsOfTheRow
PROPERTY OnlyStaleCopiesLose
CHECK_DEADLOCK FALSE
