--------------------------- MODULE ScheduleMirror ---------------------------
(***************************************************************************)
(* What the control plane promises, without its tables and its activity:   *)
(* Temporal mirrors the syncs the database wants.  A sync whose schedule   *)
(* is not right is behind, and only syncs that are behind, or that a       *)
(* cascade has abandoned, are ever touched in Temporal.                    *)
(***************************************************************************)

VARIABLES
  wanted,           \* the syncs that should have a schedule
  wantedPaused,     \* those whose schedule should be paused
  schedules,        \* the syncs that have one
  pausedSchedules,  \* those whose schedule is paused
  behind,           \* the syncs somebody has on a list to look at
  abandoned         \* syncs that left without being put on it

desired == <<wanted, wantedPaused>>
actual == <<schedules, pausedSchedules>>
vars == <<desired, actual, behind, abandoned>>

InStep(s) == s \in schedules /\ (s \in wantedPaused <=> s \in pausedSchedules)

(* Whoever changes what is wanted, or clears the list, owes this in the next state. *)
Accounted ==
  /\ \A s \in wanted : InStep(s) \/ s \in behind
  /\ \A s \in schedules : s \in wanted \/ s \in behind \/ s \in abandoned

Init ==
  /\ wanted = {} /\ wantedPaused = {}
  /\ schedules = {} /\ pausedSchedules = {}
  /\ behind = {} /\ abandoned = {}

(* Requests change what is wanted and say so; they take nothing off the list. *)
Request ==
  /\ UNCHANGED actual
  /\ abandoned \subseteq abandoned'
  /\ behind \subseteq behind' \cup abandoned'
  /\ Accounted'

(* A schedule is created or rewritten, paused or not: whoever writes it may hold an *)
(* older answer, as long as the sync stays on the list.                             *)
Upsert(s) ==
  /\ s \in behind \cup abandoned
  /\ schedules' = schedules \cup {s}
  /\ pausedSchedules' \in {pausedSchedules \cup {s}, pausedSchedules \ {s}}
  /\ UNCHANGED <<desired, behind, abandoned>>

(* The schedules of syncs that nobody wants are paused, and then deleted. *)
Retire(S) ==
  /\ S \cap wanted = {} /\ S \subseteq behind \cup abandoned
  /\ \/ schedules' = schedules /\ pausedSchedules' = pausedSchedules \cup S
     \/ schedules' = schedules \ S /\ pausedSchedules' = pausedSchedules \ S
  /\ UNCHANGED <<desired, behind, abandoned>>

(* The list is shortened, by nothing that still needs to be looked at. *)
Acknowledge ==
  /\ UNCHANGED <<desired, actual, abandoned>>
  /\ behind' \subseteq behind
  /\ Accounted'

Next ==
  \/ Request
  \/ \E s \in behind \cup abandoned : Upsert(s)
  \/ \E S \in SUBSET schedules : Retire(S)
  \/ Acknowledge

Spec == Init /\ [][Next]_vars

=============================================================================
