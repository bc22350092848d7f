------------------------------ MODULE MCSettings ------------------------------
(* Values of the constants of Settings for TLC. *)
EXTENDS Settings, TLC

CONSTANTS f, g

(* Nothing mapped, one field mapped by the schema, additional fields allowed and not. *)
SomeSchemas == {[mapped |-> {}, open |-> {f}, additional |-> FALSE],
                [mapped |-> {f}, open |-> {g}, additional |-> FALSE],
                [mapped |-> {f}, open |-> {}, additional |-> TRUE]}
SomeEntities == {[core |-> {f}, additional |-> FALSE], [core |-> {f}, additional |-> TRUE]}
SomeMappings == {[object |-> "none", fields |-> [h \in Fields |-> IF h = g THEN "x" ELSE "absent"]],
                 [object |-> "some", fields |-> [h \in Fields |-> IF h = f THEN "x" ELSE "absent"]]}

Interchangeable ==
  Permutations(Calls) \cup Permutations(Schemas) \cup Permutations(Objects) \cup Permutations(Entities)

=============================================================================
