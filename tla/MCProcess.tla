------------------------------ MODULE MCProcess ------------------------------
(* Values of the constants of ProcessSyncChanges for TLC. *)
EXTENDS ProcessMirror, ProcessMatch

CONSTANTS c1, c2, k1, k2, a, b, e, hubspot, salesforce, w1, w2

Kinds3 == [o \in Objects |-> IF o = a THEN "common" ELSE IF o = b THEN "standard" ELSE "entity"]
TwoEntities == [o \in Objects |-> IF o = a THEN "common" ELSE "entity"]
OneProvider == [c \in Connections |-> hubspot]
OneConfigProvider == [k \in SyncConfigs |-> hubspot]
Listings1 == {{b}}
Listings2 == {{a}, {b}}
ListingsE == {{b}, {a, e}}

ClientOps == {"createConnection", "deleteConnection", "pause", "connSyncConfig",
              "createConfig", "updateConfig", "full"}

(* A settled system, reached by creating k1 with {a, e}, then c1, and running the *)
(* activity once: its clients have their whole budget of calls left.              *)
Settled == {<<c1, a, 0>>, <<c1, e, 0>>}
SettledInit ==
  /\ connection = [c \in Connections |-> IF c = c1 THEN "live" ELSE "unused"]
  /\ override = [c \in Connections |-> {}]
  /\ syncConfig = [k \in SyncConfigs |-> IF k = k1 THEN "live" ELSE "unused"]
  /\ config = [k \in SyncConfigs |-> IF k = k1 THEN [objects |-> {a, e}, autoStart |-> TRUE]
                                               ELSE NoConfig]
  /\ entities = Entities
  /\ syncs = Settled /\ paused = {}
  /\ issued = [c \in Connections |-> [o \in Objects |-> IF c = c1 /\ o # b THEN 1 ELSE 0]]
  /\ connChanges = {} /\ configChanges = {} /\ syncChanges = {}
  /\ fullFlag = FALSE
  /\ schedules = Settled /\ schedPaused = {}
  /\ birth = [c \in Connections |-> NoBirth]
  /\ listed = [c \in Connections |-> {}]
  /\ removing = {}
  /\ dropListed = [k \in SyncConfigs |-> {}]
  /\ dropping = {}
  /\ pc = [w \in Attempts |-> "idle"]
  /\ full = [w \in Attempts |-> FALSE]
  /\ connRows = [w \in Attempts |-> {}]
  /\ configRows = [w \in Attempts |-> {}]
  /\ syncRows = [w \in Attempts |-> {}]
  /\ plan = [w \in Attempts |-> NoPlan]
  /\ batch = [w \in Attempts |-> NoBatch]
  /\ unannounced = {} /\ outdated = {} /\ unseenFull = FALSE
  /\ apiCalls = 0 /\ crashes = 0

SettledSpec == SettledInit /\ [][Next]_vars

OnlyUpdate == {"updateConfig"}
OnlyFull == {"full"}

=============================================================================
