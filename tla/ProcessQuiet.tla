---------------------------- MODULE ProcessQuiet ----------------------------
(***************************************************************************)
(* ProcessSyncChanges with one more history variable: the attempts under   *)
(* way beside which no request has taken a step. It adds no behaviour.     *)
(***************************************************************************)
EXTENDS ProcessInvariant

VARIABLE quiet

quietVars == <<vars, quiet>>

UnderWay(w) == w \in quiet \/ At(w, "idle")

QuietInit == Init /\ quiet = {}

QuietNext ==
  \/ ApiNext /\ quiet' = {}
  \/ \E w \in Attempts :
       /\ AttemptNext(w) \/ Crash(w)
       /\ quiet' = {v \in Attempts : UnderWay(v) /\ pc'[v] # "idle"}

QuietSpec == QuietInit /\ [][QuietNext]_quietVars
QuietFairSpec == QuietSpec /\ \A w \in Attempts : WF_vars(AttemptNext(w))

-----------------------------------------------------------------------------
(* The invariant of an attempt that nobody disturbs: the rows it has read are all *)
(* the rows there are, and none is left in the parts it has behind it ...         *)
RowsAreAll(w) ==
  /\ pc[w] # "readConnChanges" => connChanges = connRows[w]
  /\ InPart(w, 2) \/ pc[w] \in BatchPCs \cup {"readSyncChanges", "resetFull"}
       => configChanges = configRows[w]
  /\ pc[w] \in BatchPCs \cup {"resetFull"} => syncChanges = syncRows[w]
  /\ fullFlag = full[w]

(* ... and its copies are the tables. *)
CopiesAreTrue(w) ==
  /\ pc[w] \in {"loadConfigs"} \cup Loop =>
       \A c \in plan[w].connTodo :
         connection[c] = "live" /\ plan[w].overrides[c] = override[c]
  /\ pc[w] \in Loop =>
       /\ plan[w].contents = config
       /\ plan[w].known \cup plan[w].configTodo \subseteq LiveConfigs
       /\ \A c \in plan[w].connTodo : ConfigsFor(c) # {} => KnownFor(w, c) # {}
  /\ pc[w] \in Loaded => batch[w].todo \subseteq syncs

QuietInv == \A w \in quiet : w \in Attempts /\ pc[w] # "idle" /\ RowsAreAll(w) /\ CopiesAreTrue(w)

-----------------------------------------------------------------------------
(* An attempt that no request disturbs and no failure ends drains the change tables and *)
(* the flag and leaves every schedule right; it throws only for what is poisoned. So    *)
(* one pass is enough, whatever crashes and half-done attempts came before it.          *)
QuietAttemptsSettle ==
  [][\A w \in quiet : pc'[w] = "idle" => Crash(w) \/ Poisoned \/ Converged']_quietVars

=============================================================================
