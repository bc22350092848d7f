--------------------------- MODULE ProcessMirror ---------------------------
(***************************************************************************)
(* ProcessSyncChanges implements ScheduleMirror: the wanted syncs are the  *)
(* rows of the syncs table, and a sync is behind while a change row or the *)
(* full flag makes an attempt look at it.                                  *)
(***************************************************************************)
EXTENDS ProcessInvariant

Behind == syncChanges \cup {s \in syncs : Covered(s)}

Mirror == INSTANCE ScheduleMirror
            WITH wanted <- syncs, wantedPaused <- paused,
                 pausedSchedules <- schedPaused,
                 behind <- Behind, abandoned <- unannounced

(* Every step of the API and of the activity is a step of the mirror: Temporal is only  *)
(* touched for syncs that are on a list, whatever old copy the activity works from, and *)
(* a sync leaves the list only when its schedule is right.                              *)
MirrorsSyncs == Mirror!Spec

=============================================================================
