------------------------------- MODULE Listing -------------------------------
(***************************************************************************)
(* How each provider is listed: the passes, pages and cursors of a full or *)
(* incremental listing, the filter on the time of change and where it is   *)
(* applied, while records change under it and many changes share a time.   *)
(*                                                                         *)
(* A run reads its pages, removes duplicates, writes the rows, marks those *)
(* it misses and moves the mark.  SyncRun has the steps of a run; here its *)
(* end is one step, and its beginning another.                             *)
(***************************************************************************)
EXTENDS Naturals, FiniteSets

CONSTANTS
  Records,        \* ids
  Policies,       \* the ways of listing of this instance
  GivenUp,        \* those of which an attempt may be given up here and go on
  PageSize,       \* records on a page
  SearchLimit,    \* HUBSPOT_SEARCH_RESULTS_LIMIT
  MaxClock        \* bound on the time

ASSUME ListingConstants ==
  /\ Records \subseteq Nat \ {0} /\ IsFiniteSet(Records)
  /\ PageSize \in Nat \ {0} /\ SearchLimit \in Nat /\ MaxClock \in Nat \ {0}

(* filter: who keeps the records changed after the mark, the provider, the client after *)
(* it has read them all, or nobody.  order: of the pages, by id, by time of change in   *)
(* either direction, or one result fixed when the query is submitted.  cursor: a page   *)
(* begins after the last record of the one before, or after a count of records.         *)
(* archived: deleted records are gone, flagged, or listed in a second pass.  stamp: the *)
(* lastModifiedAt of a listed record.                                                   *)
Policy == [filter : {"provider", "client", "none"}, order : {"id", "oldest", "newest", "fixed"},
           cursor : {"key", "offset"}, archived : {"gone", "flagged", "pass"},
           stamp : {"changed", "now", "zero"}]

Usual == [filter |-> "provider", order |-> "id", cursor |-> "key", archived |-> "gone",
          stamp |-> "changed"]
MsDynamics == Usual
Outreach == Usual
IntercomSearch == Usual
IntercomCompanies == [Usual EXCEPT !.filter = "none"]
Linear == [Usual EXCEPT !.order = "newest"]
Salesloft == [Usual EXCEPT !.cursor = "offset"]
Pipedrive == [Usual EXCEPT !.filter = "client", !.cursor = "offset"]
ApolloSequences == [Usual EXCEPT !.filter = "none", !.cursor = "offset", !.stamp = "now"]
GongTranscripts == [Usual EXCEPT !.stamp = "zero"]
Salesforce == [Usual EXCEPT !.order = "fixed", !.archived = "flagged"]
(* Full listings and incremental ones beyond the limit of the search; the search itself. *)
Hubspot == [Usual EXCEPT !.filter = "client", !.archived = "pass"]
HubspotSearch == [Hubspot EXCEPT !.filter = "provider", !.order = "oldest", !.cursor = "offset"]

ASSUME PolicyConstants == GivenUp \subseteq Policies /\ Policies \subseteq Policy

Version == [at : 0..MaxClock, gone : BOOLEAN]
Absent == [at |-> 0, gone |-> FALSE]

Run == [stage : {"off", "live", "archived", "write"}, full : BOOLEAN, since : 0..MaxClock,
        how : Policy, at : Nat, last : (0..MaxClock) \X Nat, newest : 0..MaxClock]
NoRun == [stage |-> "off", full |-> FALSE, since |-> 0, how |-> Usual, at |-> 0,
          last |-> <<0, 0>>, newest |-> 0]

Ghost == [there : BOOLEAN, listed : [Records -> Version], deletes : BOOLEAN]
NoGhost == [there |-> FALSE, listed |-> [r \in Records |-> Absent], deletes |-> FALSE]

VARIABLES
  policy,     \* of the provider, chosen once
  source,     \* Records -> its version at the provider; gone: it is deleted there
  clock,
  run,        \* the open run
  listed,     \* Records -> the version in the temporary table
  dest,       \* Records -> the version in the row of the destination
  mark,
  ghost,      \* an attempt given up for a missed heartbeat, which goes on
  quiet,      \* history: no change at the provider and no ghost since the run began
  slipped     \* history: records changed during a run or at the mark's own time, or written by
              \* a ghost, and missed

vars == <<policy, source, clock, run, listed, dest, mark, ghost, quiet, slipped>>

Init ==
  /\ policy \in Policies
  /\ source = [r \in Records |-> Absent] /\ clock = 1
  /\ run = NoRun /\ listed = [r \in Records |-> Absent]
  /\ dest = [r \in Records |-> Absent] /\ mark = 0
  /\ ghost = NoGhost
  /\ quiet = TRUE /\ slipped = {}

-----------------------------------------------------------------------------
(* The provider *)

Tick ==
  /\ clock < MaxClock
  /\ clock' = clock + 1
  /\ UNCHANGED <<policy, source, run, listed, dest, mark, ghost, quiet, slipped>>

(* A change moves the record, and where pages are counted it shifts the others. *)
Shifted(r) == IF run.stage # "off" /\ run.how.cursor = "offset"
              THEN {r} \cup {q \in Records : listed[q] = Absent} ELSE {r}

Becomes(r, gone) ==
  /\ source' = [source EXCEPT ![r] = [at |-> clock, gone |-> gone]]
  /\ slipped' = IF run.stage # "off" THEN slipped \cup Shifted(r)
                ELSE IF clock <= mark THEN slipped \cup {r} ELSE slipped \ {r}
  /\ quiet' = FALSE
  /\ UNCHANGED <<policy, clock, run, listed, dest, mark, ghost>>

(* A record is created or changes, or comes back from the archive. *)
Change(r) == Becomes(r, FALSE)

Delete(r) ==
  /\ source[r] # Absent /\ ~source[r].gone
  /\ Becomes(r, TRUE)

-----------------------------------------------------------------------------
(* A run *)

(* Where nothing says otherwise, a full listing is read as an incremental one without filter. *)
(* HubSpot's incremental listing probes the search first, for the number of its results.      *)
Changed(since) == {r \in Records : source[r].at > since /\ ~source[r].gone}
Method(since) ==
  IF policy.archived = "pass" /\ since # 0 /\ Cardinality(Changed(since)) <= SearchLimit
  THEN HubspotSearch ELSE policy

Begin(full) ==
  LET since == IF full THEN 0 ELSE mark
  IN /\ run.stage = "off"
     /\ run' = [NoRun EXCEPT !.stage = "live", !.full = full, !.since = since,
                             !.how = Method(since)]
     /\ mark' = since
     /\ quiet' = TRUE
     /\ UNCHANGED <<policy, source, clock, listed, dest, ghost, slipped>>

(* Wrong: one past the mark, of a filter that is strict already. *)
IsAfterNext(at, since) == since = 0 \/ at > since + 1

IsAfter(at, since) == since = 0 \/ at > since

(* The records whose pages this pass reads. *)
InPass ==
  {r \in Records :
     /\ source[r] # Absent
     /\ IF run.stage = "archived" THEN source[r].gone
        ELSE source[r].gone => policy.archived = "flagged"}

FilteredBy(who) == run.how.filter = who

InPages ==
  {r \in InPass : (run.stage = "live" /\ FilteredBy("provider")) => IsAfter(source[r].at, run.since)}

Precedes(a, b) ==
  LET byTime == a[1] < b[1] \/ (a[1] = b[1] /\ a[2] < b[2])
      byAge == a[1] > b[1] \/ (a[1] = b[1] /\ a[2] < b[2])
  IN CASE run.stage = "archived" \/ run.how.order \in {"id", "fixed"} -> a[2] < b[2]
       [] run.how.order = "oldest" -> byTime
       [] OTHER -> byAge

Key(r) == <<source[r].at, r>>
Position(r, S) == Cardinality({q \in S : Precedes(Key(q), Key(r))})

(* The archived pass goes by key in any case. *)
Counts == run.how.cursor = "offset" /\ run.stage = "live"
Rest ==
  IF Counts THEN {r \in InPages : Position(r, InPages) >= run.at}
  ELSE {r \in InPages : run.at = 0 \/ Precedes(run.last, Key(r))}
(* A fixed result is read as one page: what changes after it was taken is not in it. *)
NextPage ==
  IF run.how.order = "fixed" THEN {r \in Rest : run.at = 0}
  ELSE {r \in Rest : Position(r, Rest) < PageSize}

(* What the client keeps of a page, filterForUpdatedAfter and filterForArchivedAfter. *)
Kept(page) ==
  {r \in page : (run.stage = "archived" \/ FilteredBy("client")) => IsAfter(source[r].at, run.since)}

(* Wrong: the time is rounded up. *)
StampRoundedUp(r) == source[r].at + 1

Stamp(r) == CASE policy.stamp = "changed" -> source[r].at
              [] policy.stamp = "now" -> clock
              [] OTHER -> 0
Latest(S) == CHOOSE t \in S : \A u \in S : t >= u
LastKey(page) == Key(CHOOSE r \in page : \A q \in page : q = r \/ Precedes(Key(q), Key(r)))

(* The temporary table keeps the newest version of an id. *)
ListPage ==
  LET page == NextPage
      kept == Kept(page)
  IN /\ run.stage \in {"live", "archived"} /\ page # {}
     /\ listed' = [r \in Records |->
                     IF r \in kept /\ source[r].at >= listed[r].at THEN source[r] ELSE listed[r]]
     /\ run' = [run EXCEPT !.at = @ + Cardinality(page), !.last = LastKey(page),
                           !.newest = Latest({@} \cup {Stamp(r) : r \in kept})]
     /\ UNCHANGED <<policy, source, clock, dest, mark, ghost, quiet, slipped>>

(* Wrong: HubSpot's archived records are not listed. *)
EndOfPassAlways ==
  /\ run.stage \in {"live", "archived"} /\ NextPage = {}
  /\ run' = [run EXCEPT !.stage = "write", !.at = 0, !.last = <<0, 0>>]
  /\ UNCHANGED <<policy, source, clock, listed, dest, mark, ghost, quiet, slipped>>

EndOfPass ==
  /\ run.stage \in {"live", "archived"} /\ NextPage = {}
  /\ run' = [run EXCEPT !.stage = IF @ = "live" /\ policy.archived = "pass" THEN "archived"
                                  ELSE "write",
                        !.at = 0, !.last = <<0, 0>>]
  /\ UNCHANGED <<policy, source, clock, listed, dest, mark, ghost, quiet, slipped>>

(* Apollo's rows are never marked for what a listing misses. *)
Deletes == run.since = 0 /\ policy # ApolloSequences

(* Wrong: rows a full listing misses stay as they are. *)
WrittenAsListed(r, table, deletes) == IF table[r] # Absent THEN table[r] ELSE dest[r]

(* The row after an attempt has copied its temporary table and marked what it misses. *)
Written(r, table, deletes) ==
  IF table[r] # Absent THEN table[r]
  ELSE IF deletes /\ dest[r] # Absent THEN [dest[r] EXCEPT !.gone = TRUE]
  ELSE dest[r]

(* What the row says of the record is what the provider says; where deleted records are *)
(* not listed, nothing is asked of their rows.                                           *)
Delivered(r, row) ==
  \/ row = source[r]
  \/ source[r].gone /\ policy.archived = "gone"

(* What is above the mark is listed by the next run. *)
StillMissed(rows, m) ==
  {r \in slipped : source[r].at <= m /\ ~Delivered(r, rows[r])}

EndRun ==
  LET rows == [r \in Records |-> Written(r, listed, Deletes)]
      m == IF run.full THEN run.newest ELSE Latest({run.newest, mark})
  IN /\ run.stage = "write"
     /\ dest' = rows /\ mark' = m
     /\ slipped' = StillMissed(rows, m)
     /\ run' = NoRun /\ listed' = [r \in Records |-> Absent]
     /\ UNCHANGED <<policy, source, clock, ghost, quiet>>

(* An error on any page fails the run; the temporary table goes. *)
FailRun ==
  /\ run.stage # "off"
  /\ run' = NoRun /\ listed' = [r \in Records |-> Absent]
  /\ slipped' = StillMissed(dest, mark)
  /\ UNCHANGED <<policy, source, clock, dest, mark, ghost, quiet>>

(* An attempt that misses its heartbeats after it has listed everything is given up, and *)
(* its retry begins; yet it goes on and writes what it has, and nobody asks for its mark. *)
GiveUp ==
  /\ run.stage = "write" /\ ~ghost.there /\ policy \in GivenUp
  /\ ghost' = [there |-> TRUE, listed |-> listed, deletes |-> Deletes]
  /\ run' = NoRun /\ listed' = [r \in Records |-> Absent]
  /\ slipped' = StillMissed(dest, mark)
  /\ UNCHANGED <<policy, source, clock, dest, mark, quiet>>

GhostWrites ==
  LET rows == [r \in Records |-> Written(r, ghost.listed, ghost.deletes)]
  IN /\ ghost.there
     /\ dest' = rows
     /\ slipped' = slipped \cup {r \in Records : rows[r] # dest[r]}
     /\ ghost' = NoGhost /\ quiet' = FALSE
     /\ UNCHANGED <<policy, source, clock, run, listed, mark>>

-----------------------------------------------------------------------------
Next ==
  \/ Tick
  \/ \E r \in Records : Change(r) \/ Delete(r)
  \/ \E full \in BOOLEAN : Begin(full)
  \/ ListPage \/ EndOfPass \/ EndRun \/ FailRun
  \/ GiveUp \/ GhostWrites

Spec == Init /\ [][Next]_vars

-----------------------------------------------------------------------------
(* Properties *)

(* Types, and that nothing the system holds is from the future. *)
TypeOK ==
  /\ policy \in Policy /\ clock \in 1..MaxClock /\ run \in Run
  /\ source \in [Records -> Version] /\ listed \in [Records -> Version]
  /\ dest \in [Records -> Version]
  /\ \A r \in Records : source[r].at <= clock /\ listed[r].at <= clock /\ dest[r].at <= clock
  /\ mark \in 0..clock /\ run.newest <= clock /\ ghost \in Ghost
  /\ quiet \in BOOLEAN /\ slipped \subseteq Records

(* However a provider is listed, the mark passes over no record but those that changed  *)
(* under an open run or, after it, still within the time unit of the mark, those that   *)
(* such a change shifted on pages found by counting, and those that a ghost wrote.       *)
OnlySlippedAreMissed ==
  run.stage = "off" =>
    \A r \in Records \ slipped :
      source[r] # Absent /\ source[r].at <= mark => Delivered(r, dest[r])

(* A full run under which nothing changed and no ghost wrote repairs what was missed, *)
(* deletions included.                                                               *)
QuietFullRunRepairs ==
  [][EndRun /\ run.full /\ quiet =>
       \A r \in Records : \/ Delivered(r, dest'[r]) /\ ~source[r].gone
                          \/ source[r].gone /\ (dest'[r].gone \/ dest'[r] = Absent
                                                \/ policy = ApolloSequences)]_vars

=============================================================================
