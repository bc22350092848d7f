--------------------------- MODULE ListingInvariant ---------------------------
(* What makes the properties of Listing inductive: how far an open listing has come, and *)
(* what it then has of the records that nothing disturbed.                                *)
EXTENDS Listing

-----------------------------------------------------------------------------
(* The tables *)

(* What was never at the provider is nowhere, what is read is no newer than there, and *)
(* between runs the temporary table is empty.                                            *)
TablesAreReal ==
  /\ \A r \in Records : source[r].at = 0 =>
       source[r] = Absent /\ listed[r] = Absent /\ dest[r] = Absent /\ ghost.listed[r] = Absent
  /\ \A r \in Records : listed[r].at <= source[r].at /\ ghost.listed[r].at <= clock
  /\ run.stage = "off" => listed = [r \in Records |-> Absent]

(* An open run has put the mark where its listing starts. *)
MarkIsSince == run.stage # "off" => mark = run.since /\ (run.full => run.since = 0)

(* Up to the mark, every row is right that nothing has slipped past. *)
MarkIsSafe ==
  \A r \in Records \ slipped :
    source[r].at # 0 /\ source[r].at <= mark => Delivered(r, dest[r])

-----------------------------------------------------------------------------
(* The open listing *)

(* The records that the listing owes: all, if nothing has changed since the run began. *)
Still(r) == quiet \/ r \notin slipped

(* It has them as they are, or not yet. *)
ListedIsCurrent ==
  run.stage # "off" => \A r \in Records : Still(r) => listed[r] \in {Absent, source[r]}

(* Its pages have come past the record. *)
ReadSoFar(r) ==
  /\ run.at # 0
  /\ \/ run.how.order = "fixed"
     \/ IF Counts THEN Position(r, InPages) < run.at ELSE ~Precedes(run.last, Key(r))

Reading == run.stage \in {"live", "archived"}

ReadIsListed ==
  Reading => \A r \in InPages :
    Still(r) /\ ReadSoFar(r) /\ IsAfter(source[r].at, run.since) => listed[r] = source[r]

(* Nothing has changed since the run began, or it does not show: a change makes all that *)
(* is not listed slip where pages are counted.                                            *)
Undisturbed == quiet \/ \E r \in Records \ slipped : listed[r] = Absent

Before(n) == {r \in InPages : Position(r, InPages) < n}

(* The count of records read is the count of those that come before the next page. *)
CountIsRight ==
  Counts /\ run.how.order # "fixed" /\ Undisturbed => Cardinality(Before(run.at)) = run.at

(* What the passes that are over have listed. *)
ReadPasses(r) ==
  \/ ~source[r].gone
  \/ policy.archived = "flagged"
  \/ policy.archived = "pass" /\ run.stage = "write"

PassesAreComplete ==
  run.stage \in {"archived", "write"} => \A r \in Records :
    Still(r) /\ source[r].at # 0 /\ ReadPasses(r) /\ IsAfter(source[r].at, run.since) =>
      listed[r] = source[r]

Sound == TypeOK /\ TablesAreReal /\ MarkIsSince

DataSafe == MarkIsSafe /\ ListedIsCurrent /\ ReadIsListed /\ CountIsRight /\ PassesAreComplete

ListingInv == Sound /\ DataSafe

=============================================================================
