--------------------------------- MODULE Pages ---------------------------------
(***************************************************************************)
(* The lists the API answers page by page, while the rows behind them come *)
(* and go: records of the managed destination, read with SQL of its own,   *)
(* and syncs and sync runs, read with Prisma.  A cursor is all the server  *)
(* is given of the reader's past: a row and a direction.                   *)
(*                                                                         *)
(* A row is its id. Records and sync runs are listed by id (the code gives *)
(* runs downwards: it is the order that counts). Syncs are by customer,    *)
(* provider and object, so several may share a place, and every query may  *)
(* answer those in another order. Of a page only the ids are kept; the     *)
(* total count is left out.                                                *)
(***************************************************************************)
EXTENDS Naturals, FiniteSets, SequencesExt

CONSTANTS
  Ids,        \* of rows, smaller ones first in lists by id
  Place,      \* of a sync in the list of syncs, which syncs may share
  PageSize,
  Styles,     \* the lists of this instance: "managed" records, "runs", "syncs"
  MaxMoves    \* bound on the rows that come and go

ASSUME PagesConstants ==
  /\ Ids \subseteq Nat \ {0} /\ IsFiniteSet(Ids)
  /\ Place \in [Ids -> Nat]
  /\ PageSize \in Nat \ {0} /\ MaxMoves \in Nat
  /\ Styles \subseteq {"managed", "runs", "syncs"}

Cursors == [id : Ids, reverse : BOOLEAN]
None == [none |-> TRUE]
After(i) == [id |-> i, reverse |-> FALSE]
Before(i) == [id |-> i, reverse |-> TRUE]

VARIABLES
  style,    \* of the list, chosen once
  row,      \* Ids -> "in" the list, "out" of it, "gone", or not there yet: "absent"
  page,     \* the last answer: its records and its two cursors
  moves,
  walked,   \* history: what a walk that only went forward has shown, page after page
  whole,    \* history: the rows that have matched since it began
  strayed   \* history: it went back, or on from a row that no longer matched or shared its place

walk == <<walked, whole, strayed>>
vars == <<style, row, page, moves, walk>>

Matching == {i \in Ids : row[i] = "in"}

NoPage == [records |-> <<>>, next |-> None, previous |-> None, failed |-> FALSE]
Failed == [NoPage EXCEPT !.failed = TRUE]

-----------------------------------------------------------------------------
(* Answers *)

Forward(cursor) == cursor = None \/ ~cursor.reverse

At(i) == IF style = "syncs" THEN Place[i] ELSE i

(* The orders that an ORDER BY may answer in: smaller by[i] first, whatever the order of rows *)
(* that share a place.                                                                        *)
SyncOrders ==  \* an image, which TLC lists only once
  {by : by \in {f \in Injection(Ids, Ids) : \A i, j \in Ids : Place[i] < Place[j] => f[i] < f[j]}}
Orders == IF style = "syncs" THEN SyncOrders ELSE {[i \in Ids |-> i]}

(* The i-th row is the one that i - 1 rows come before. *)
Rank(r, S, forward, by) == Cardinality({q \in S : IF forward THEN by[q] < by[r] ELSE by[q] > by[r]})
InOrder(S, cursor, by) ==
  [i \in 1..Cardinality(S) |-> CHOOSE r \in S : Rank(r, S, Forward(cursor), by) = i - 1]

Take(s, n) == SubSeq(s, 1, IF Len(s) < n THEN Len(s) ELSE n)

(* Wrong: from the row of the cursor on, which the page before has shown. *)
BeyondAndAt(cursor, by) ==
  {i \in Matching : cursor # None => IF Forward(cursor) THEN by[i] >= by[cursor.id]
                                                        ELSE by[i] <= by[cursor.id]}

Beyond(cursor, by) ==
  {i \in Matching : cursor # None => IF Forward(cursor) THEN by[i] > by[cursor.id]
                                                        ELSE by[i] < by[cursor.id]}

(* Wrong: only as many rows as the page holds. *)
FetchedPage(cursor, by) == Take(InOrder(Beyond(cursor, by), cursor, by), PageSize)

(* getSql: the rows beyond the cursor, nearest first, and one more than the page holds. *)
Fetched(cursor, by) == Take(InOrder(Beyond(cursor, by), cursor, by), PageSize + 1)

(* getPaginatedSupaglueRecords: with a row too many it drops the last one going forward, and *)
(* the first one going back. It takes the place of the first row of none for its cursors,     *)
(* and throws.                                                                                *)
ManagedPage(cursor, by) ==
  LET rows == Fetched(cursor, by)
      more == Len(rows) = PageSize + 1
      shown == IF ~more THEN rows ELSE IF Forward(cursor) THEN SubSeq(rows, 1, PageSize) ELSE Tail(rows)
  IN IF cursor # None /\ rows = <<>> THEN Failed
     ELSE IF Forward(cursor)
     THEN [NoPage EXCEPT !.records = shown,
                         !.next = IF more THEN After(rows[PageSize]) ELSE None,
                         !.previous = IF cursor # None THEN Before(rows[1]) ELSE None]
     ELSE [NoPage EXCEPT !.records = Reverse(shown),
                         !.next = After(rows[1]),
                         !.previous = IF more THEN Before(rows[PageSize]) ELSE None]

FromCursor(cursor, by) ==
  IF cursor = None THEN Matching ELSE Beyond(cursor, by) \cup (Matching \cap {cursor.id})

(* Wrong: the rows before a cursor in the order they were found. *)
FoundNearestFirst(cursor, by) ==
  LET rows == InOrder(FromCursor(cursor, by), cursor, by)
  IN IF cursor = None THEN Take(rows, PageSize)
     ELSE IF row[cursor.id] = "gone" \/ rows = <<>> THEN <<>> ELSE Take(Tail(rows), PageSize)

(* findMany with getPaginationParams: from the row of the cursor on, in either direction,    *)
(* without the first of the rows found. That is another row if the cursor's no longer        *)
(* matches (a sync always does), and there is nothing to go on from if it is gone.           *)
Found(cursor, by) ==
  LET rows == InOrder(FromCursor(cursor, by), cursor, by)
      taken == Take(Tail(rows), PageSize)
  IN IF cursor = None THEN Take(rows, PageSize)
     ELSE IF row[cursor.id] = "gone" \/ rows = <<>> THEN <<>>
     ELSE IF Forward(cursor) THEN taken ELSE Reverse(taken)

(* getPaginationResult *)
PrismaPage(cursor, by) ==
  LET rows == Found(cursor, by)
  IN [NoPage EXCEPT !.records = rows,
                    !.next = IF Len(rows) = PageSize THEN After(rows[PageSize]) ELSE None,
                    !.previous = IF cursor # None /\ rows # <<>> THEN Before(rows[1]) ELSE None]

Answer(cursor, by) ==
  IF style = "managed" THEN ManagedPage(cursor, by) ELSE PrismaPage(cursor, by)

-----------------------------------------------------------------------------
Init ==
  /\ style \in Styles
  /\ row \in [Ids -> {"in", "absent"}]
  /\ page = NoPage /\ moves = 0
  /\ walked = <<>> /\ whole = {} /\ strayed = TRUE

(* A list is asked for from its beginning. *)
Start ==
  /\ \E by \in Orders : page' = Answer(None, by)
  /\ walked' = page'.records /\ whole' = Matching /\ strayed' = FALSE
  /\ UNCHANGED <<style, row, moves>>

Alone(i) == \A q \in Matching : At(q) = At(i) => q = i

(* A list read with Prisma goes on from a row that still matches and shares its place with none. *)
GoesOnFrom(i) == style # "managed" => i \in Matching /\ Alone(i)

(* The reader sends a cursor of the last page back. *)
Follow(cursor) ==
  /\ cursor # None
  /\ \E by \in Orders : page' = Answer(cursor, by)
  /\ strayed' = (strayed \/ cursor.reverse \/ ~GoesOnFrom(cursor.id))
  /\ IF strayed' THEN walked' = <<>> /\ whole' = {}
     ELSE walked' = walked \o page'.records /\ UNCHANGED whole
  /\ UNCHANGED <<style, row, moves>>

NextPage == Follow(page.next)
PreviousPage == Follow(page.previous)

Move(i, to) ==
  /\ moves < MaxMoves /\ moves' = moves + 1
  /\ row' = [row EXCEPT ![i] = to]
  /\ whole' = whole \ {i}
  /\ UNCHANGED <<style, page, walked, strayed>>

(* A row is added, or changes so that it matches (a modification after the time asked for). *)
Enter(i) == row[i] \in {"absent", "out"} /\ Move(i, "in")
(* The status of a sync run changes; an older version goes over a record. What syncs are     *)
(* asked for by does not change.                                                            *)
Leave(i) == style # "syncs" /\ row[i] = "in" /\ Move(i, "out")
(* A sync is deleted, and its runs with it; rows of records are never deleted.              *)
Delete(i) == style # "managed" /\ row[i] \in {"in", "out"} /\ Move(i, "gone")

Next ==
  \/ Start \/ NextPage \/ PreviousPage
  \/ \E i \in Ids : Enter(i) \/ Leave(i) \/ Delete(i)

Spec == Init /\ [][Next]_vars

-----------------------------------------------------------------------------
(* Properties *)

Ascending(s) == \A i, j \in DOMAIN s : i < j => At(s[i]) <= At(s[j]) /\ s[i] # s[j]

(* Types, and that a page is in order and no longer than asked for, whichever way it was read. *)
TypeOK ==
  /\ style \in Styles /\ row \in [Ids -> {"in", "out", "gone", "absent"}]
  /\ page \in [records : Seq(Ids), next : Cursors \cup {None}, previous : Cursors \cup {None},
               failed : BOOLEAN]
  /\ Ascending(page.records) /\ Len(page.records) <= PageSize
  /\ moves \in 0..MaxMoves
  /\ walked \in Seq(Ids) /\ whole \subseteq Ids /\ strayed \in BOOLEAN

(* Going forward to the end of a list shows each row that was there all the time, and none *)
(* twice, whatever comes and goes meanwhile. Lists read with Prisma promise that only as    *)
(* long as the row of each cursor still matches, and that of syncs only if no other sync is *)
(* at its place: the next query may turn the two round.                                     *)
ForwardWalksShowAll ==
  ~strayed => /\ Ascending(walked)
              /\ page.next = None => whole \subseteq ToSet(walked)

(* Pages a and b in this order, with no row between them now. *)
Adjacent(a, b) ==
  /\ At(Last(a)) < At(Head(b))
  /\ \A i \in Matching : At(i) <= At(Last(a)) \/ At(i) >= At(Head(b))

StepsBack ==
  PreviousPage /\ page'.records # <<>> => Adjacent(page'.records, page.records)

(* The page before a page of syncs or sync runs ends where that page begins, if its first *)
(* row still matches and, among syncs, shares its place with no other.                     *)
ListsStepBack ==
  [][style # "managed" /\ PreviousPage /\ GoesOnFrom(page.previous.id) => StepsBack]_vars

-----------------------------------------------------------------------------
(* What the repository's comments and documents say, and the code does not do. *)

(* "We fetch `pageSize + 1` records so we know if we need to return a `next` pagination": *)
(* the row more is for the cursor, and the page still ends where the reader came from.     *)
RecordsStepBack == [][style = "managed" /\ PreviousPage => StepsBack]_vars

=============================================================================
