---------------------------- MODULE ProcessMatch ----------------------------
(***************************************************************************)
(* The inductive invariant behind SyncsMatchConfig: what parts 1 and 2 of  *)
(* processSyncChanges have done for a connection and its sync config, and  *)
(* which of the copies they work from are current.                         *)
(***************************************************************************)
EXTENDS ProcessInvariant

OneConfig ==
  \A j, k \in LiveConfigs : ProviderOfConfig[j] = ProviderOfConfig[k] => j = k

(* A config whose delete() is in flight is still there. *)
DroppedAreLive == dropping \subseteq LiveConfigs

(* The own config of a connection only exists beside its row. *)
BareAtBirth ==
  \A c \in Connections : connection[c] \in {"unused", "creating"} => override[c] = {}

Want(c, k) == Desired(config[k].objects, override[c])
HasAll(c, k) == Want(c, k) \ (Entities \ entities) \subseteq ObjectsOf(c)
HasOnly(c, k) == \A o \in ObjectsOf(c) : Matches(o, Want(c, k))
Fits(c, k) == HasAll(c, k) /\ HasOnly(c, k)

-----------------------------------------------------------------------------
(* What an attempt owes: if it deleted the rows it has read now, no row would say *)
(* that the connection and its config are still to be compared.                   *)
UpWithout(w, c, k) ==
  c \notin connChanges \ connRows[w] /\ k \notin configChanges \ configRows[w] /\ c \notin outdated

InWork(w, c) == c \in plan[w].connTodo \cup plan[w].cur
ToDo(w, c, k) == InWork(w, c) \/ k \in plan[w].configTodo

(* Then the syncs fit, or the attempt is still to see to them; after its createMany *)
(* none is missing.                                                                 *)
Owed(w, c, k) ==
  /\ Fits(c, k) \/ ToDo(w, c, k)
  /\ c \in plan[w].cur => HasAll(c, k)

(* Then its copies are current as well. *)
OverrideIsCurrent(w, c) ==
  pc[w] \in {"loadConfigs"} \cup Loop /\ InWork(w, c) => plan[w].overrides[c] = override[c]
ConfigIsCurrent(w, c, k) ==
  pc[w] \in Loop =>
    \A j \in plan[w].known \cup plan[w].configTodo :
      c \in ConnectionsOf(j) => j = k /\ plan[w].contents[j] = config[j]

(* The connections in work, and the one between createMany and deleteMany. *)
WorkIsKnown(w) ==
  /\ \A c \in plan[w].connTodo \cup plan[w].cur : connection[c] \in {"live", "gone"}
  /\ plan[w].cur # {} => pc[w] \in {"insert", "remove"}
  /\ \A c \in plan[w].cur : plan[w].cur = {c} /\ KnownFor(w, c) # {}

PairInv(w, c, k) ==
  UpWithout(w, c, k) =>
    /\ ConfigIsCurrent(w, c, k)
    /\ connection[c] = "live" => Owed(w, c, k) /\ OverrideIsCurrent(w, c)

MatchInv ==
  /\ SyncsMatchConfig /\ OneConfig /\ DroppedAreLive /\ BareAtBirth
  /\ \A w \in Attempts :
       /\ WorkIsKnown(w)
       /\ \A c \in Connections : \A k \in ConfigsFor(c) : PairInv(w, c, k)

=============================================================================
