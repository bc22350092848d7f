----------------------------- MODULE PagesProofs -----------------------------
(* Proofs about the lists of the API, for any rows, any places that syncs share, pages of *)
(* any size and any number of rows that come and go.                                      *)
EXTENDS PagesInvariant, FiniteSetTheorems, SequenceTheorems, TLAPS

-----------------------------------------------------------------------------
(* Sorting *)

(* The rows of S, each once, upwards or downwards. *)
Sorted(s, by, up) ==
  \A i, j \in DOMAIN s : i < j => IF up THEN by[s[i]] < by[s[j]] ELSE by[s[i]] > by[s[j]]
Sorts(s, S, by, up) ==
  s \in Seq(S) /\ Sorted(s, by, up) /\ \A r \in S : \E i \in 1..Len(s) : s[i] = r

(* An order tells all rows apart, and keeps to their places. *)
Ordered(by) ==
  /\ \A r \in Ids : by[r] \in Nat
  /\ \A q, r \in Ids : by[q] = by[r] => q = r
  /\ \A q, r \in Ids : At(q) < At(r) => by[q] < by[r]

LEMMA PlaceType == \A r \in Ids : r \in Nat /\ At(r) \in Nat
BY PagesConstants DEF At

LEMMA OrdersAreOrdered == \A by \in Orders : Ordered(by)
<1> SUFFICES ASSUME NEW by \in Orders PROVE Ordered(by)
  OBVIOUS
<1>1. CASE style = "syncs"
  <2>1. by \in Injection(Ids, Ids) /\ \A q, r \in Ids : Place[q] < Place[r] => by[q] < by[r]
    BY <1>1 DEF Orders, SyncOrders
  <2>2. by \in [Ids -> Ids] /\ \A q, r \in Ids : by[q] = by[r] => q = r
    BY <2>1 DEF Injection, IsInjective
  <2> QED
    BY <1>1, <2>1, <2>2, PagesConstants DEF Ordered, At
<1>2. CASE style # "syncs"
  <2>1. by = [r \in Ids |-> r]
    BY <1>2 DEF Orders
  <2> QED
    BY <1>2, <2>1, PagesConstants DEF Ordered, At
<1> QED
  BY <1>1, <1>2

LEMMA RankType ==
  ASSUME NEW by, Ordered(by), NEW S \in SUBSET Ids, NEW r \in S, NEW up \in BOOLEAN
  PROVE  Rank(r, S, up, by) \in 0..(Cardinality(S) - 1)
<1> DEFINE Q == {q \in S : IF up THEN by[q] < by[r] ELSE by[q] > by[r]}
<1>1. Q \subseteq S /\ r \notin Q
  BY DEF Ordered
<1>2. /\ IsFiniteSet(Q) /\ Cardinality(Q) <= Cardinality(S) /\ Cardinality(Q) # Cardinality(S)
      /\ Cardinality(S) \in Nat /\ Cardinality(Q) \in Nat
  <2>1. IsFiniteSet(S)
    BY PagesConstants, FS_Subset
  <2> HIDE DEF Q
  <2> QED
    BY <1>1, <2>1, FS_Subset, FS_CardinalityType
<1> QED
  BY <1>2 DEF Rank

LEMMA RankKeepsOrder ==
  ASSUME NEW by, Ordered(by), NEW S \in SUBSET Ids, NEW up \in BOOLEAN,
         NEW q \in S, NEW r \in S, IF up THEN by[q] < by[r] ELSE by[q] > by[r]
  PROVE  Rank(q, S, up, by) < Rank(r, S, up, by)
<1> DEFINE Q == {p \in S : IF up THEN by[p] < by[q] ELSE by[p] > by[q]}
           R == {p \in S : IF up THEN by[p] < by[r] ELSE by[p] > by[r]}
<1>1. Q \subseteq R /\ q \in R /\ q \notin Q /\ R \subseteq S
  <2>1. \A p \in S : by[p] \in Nat
    BY DEF Ordered
  <2>2. /\ \A p : p \in Q <=> p \in S /\ (IF up THEN by[p] < by[q] ELSE by[p] > by[q])
        /\ \A p : p \in R <=> p \in S /\ (IF up THEN by[p] < by[r] ELSE by[p] > by[r])
    OBVIOUS
  <2>3. \A p \in S : (IF up THEN by[p] < by[q] ELSE by[p] > by[q]) =>
                     (IF up THEN by[p] < by[r] ELSE by[p] > by[r])
    <3> SUFFICES ASSUME NEW p \in S, IF up THEN by[p] < by[q] ELSE by[p] > by[q]
                 PROVE  IF up THEN by[p] < by[r] ELSE by[p] > by[r]
      OBVIOUS
    <3>1. by[p] \in Nat /\ by[q] \in Nat /\ by[r] \in Nat
      BY <2>1
    <3> QED
      BY <3>1
  <2>4. ~(IF up THEN by[q] < by[q] ELSE by[q] > by[q])
    BY <2>1
  <2> HIDE DEF Q, R
  <2> QED
    BY <2>2, <2>3, <2>4
<1>2. /\ IsFiniteSet(R) /\ Cardinality(Q) <= Cardinality(R) /\ Cardinality(Q) # Cardinality(R)
      /\ Cardinality(R) \in Nat /\ Cardinality(Q) \in Nat
  <2>1. IsFiniteSet(S)
    BY PagesConstants, FS_Subset
  <2> HIDE DEF Q, R
  <2> QED
    BY <1>1, <2>1, FS_Subset, FS_CardinalityType
<1> QED
  BY <1>2 DEF Rank

(* Of two rows one comes before the other. *)
LEMMA RanksDiffer ==
  ASSUME NEW by, Ordered(by), NEW S \in SUBSET Ids, NEW up \in BOOLEAN,
         NEW q \in S, NEW r \in S, q # r
  PROVE  Rank(q, S, up, by) # Rank(r, S, up, by)
<1>1. Rank(q, S, up, by) \in Int /\ Rank(r, S, up, by) \in Int
  <2>1. /\ Rank(q, S, up, by) \in 0..(Cardinality(S) - 1)
        /\ Rank(r, S, up, by) \in 0..(Cardinality(S) - 1)
    BY RankType
  <2> QED
    BY <2>1
<1>2. (IF up THEN by[q] < by[r] ELSE by[q] > by[r]) \/ (IF up THEN by[r] < by[q] ELSE by[r] > by[q])
  <2>1. by[q] \in Nat /\ by[r] \in Nat /\ by[q] # by[r]
    BY DEF Ordered
  <2> QED
    BY <2>1
<1>3. Rank(q, S, up, by) < Rank(r, S, up, by) \/ Rank(r, S, up, by) < Rank(q, S, up, by)
  BY <1>2, RankKeepsOrder
<1> QED
  BY <1>1, <1>3

(* Every rank below the number of rows is taken by one of them. *)
LEMMA RankIsOnto ==
  ASSUME NEW by, Ordered(by), NEW S \in SUBSET Ids, NEW up \in BOOLEAN,
         NEW n \in 0..(Cardinality(S) - 1)
  PROVE  \E r \in S : Rank(r, S, up, by) = n
<1> DEFINE N == 0..(Cardinality(S) - 1)
           f == [r \in S |-> Rank(r, S, up, by)]
<1>1. IsFiniteSet(S) /\ Cardinality(S) \in Nat
  BY PagesConstants, FS_Subset, FS_CardinalityType
<1>2. IsFiniteSet(N) /\ Cardinality(N) = Cardinality(S)
  BY <1>1, FS_Interval
<1>3. f \in [S -> N]
  BY RankType
<1>4. \A q, r \in S : Rank(q, S, up, by) = Rank(r, S, up, by) => q = r
  BY RanksDiffer
<1>5. f \in Injection(S, N)
  BY <1>3, <1>4 DEF Injection, IsInjective
<1>6. f \in Surjection(S, N)
  <2> HIDE DEF N, f
  <2> QED
    BY <1>1, <1>2, <1>5, FS_Injection
<1> QED
  BY <1>6 DEF Surjection

(* ORDER BY gives the rows of the set, each once, in the order of the cursor. *)
LEMMA InOrderSorts ==
  ASSUME NEW by, Ordered(by), NEW S \in SUBSET Ids, NEW cursor
  PROVE  Sorts(InOrder(S, cursor, by), S, by, Forward(cursor))
<1> DEFINE up == Forward(cursor)
           n == Cardinality(S)
           s == InOrder(S, cursor, by)
<1>1. n \in Nat /\ up \in BOOLEAN /\ \A r \in S : by[r] \in Nat
  BY PagesConstants, FS_Subset, FS_CardinalityType DEF Forward, Ordered
<1>2. ASSUME NEW i \in 1..n PROVE s[i] \in S /\ Rank(s[i], S, up, by) = i - 1
  <2>1. i - 1 \in 0..(n - 1)
    BY <1>1
  <2>2. \E r \in S : Rank(r, S, up, by) = i - 1
    <3> HIDE DEF up
    <3> QED
      BY <1>1, <2>1, RankIsOnto
  <2> QED
    BY <2>2 DEF InOrder
<1>3. s \in [1..n -> S]
  BY <1>2 DEF InOrder
<1>4. s \in Seq(S) /\ Len(s) = n /\ DOMAIN s = 1..n
  <2> HIDE DEF s, n
  <2> QED
    BY <1>1, <1>3, IsASeq
<1> HIDE DEF s, up
<1>5. ASSUME NEW i \in 1..n, NEW j \in 1..n, i < j
      PROVE  IF up THEN by[s[i]] < by[s[j]] ELSE by[s[i]] > by[s[j]]
  <2>1. s[i] \in S /\ s[j] \in S /\ Rank(s[i], S, up, by) < Rank(s[j], S, up, by)
    BY <1>1, <1>2, <1>5
  <2>2. by[s[i]] # by[s[j]] /\ by[s[i]] \in Nat /\ by[s[j]] \in Nat
    <3>1. Rank(s[i], S, up, by) # Rank(s[j], S, up, by)
      BY <1>2, <1>5
    <3> QED
      BY <1>1, <2>1, <3>1 DEF Ordered
  <2>3. ASSUME IF up THEN by[s[j]] < by[s[i]] ELSE by[s[j]] > by[s[i]] PROVE FALSE
    <3>1. Rank(s[j], S, up, by) < Rank(s[i], S, up, by)
      BY <1>1, <2>1, <2>3, RankKeepsOrder
    <3> QED
      BY <1>2, <1>5, <3>1
  <2>4. CASE up
    BY <2>2, <2>3, <2>4
  <2>5. CASE ~up
    BY <2>2, <2>3, <2>5
  <2> QED
    BY <2>4, <2>5
<1>6. ASSUME NEW r \in S PROVE \E i \in 1..n : s[i] = r
  <2>1. Rank(r, S, up, by) \in 0..(n - 1)
    BY <1>1, RankType
  <2>2. PICK i \in 1..n : i = Rank(r, S, up, by) + 1
    BY <1>1, <2>1
  <2>3. s[i] \in S /\ Rank(s[i], S, up, by) = Rank(r, S, up, by)
    BY <1>1, <1>2, <2>1, <2>2
  <2>4. s[i] = r
    BY <1>1, <2>3, RanksDiffer
  <2> QED
    BY <2>4
<1> QED
  BY <1>4, <1>5, <1>6 DEF Sorts, Sorted, s, up

-----------------------------------------------------------------------------
(* Parts of what was sorted *)

LEMMA TakeSorted ==
  ASSUME NEW by, NEW S, NEW s \in Seq(S), NEW n \in Nat
  PROVE  /\ Take(s, n) \in Seq(S)
         /\ Sorted(s, by, TRUE) => Sorted(Take(s, n), by, TRUE)
         /\ Sorted(s, by, FALSE) => Sorted(Take(s, n), by, FALSE)
         /\ Len(Take(s, n)) = IF Len(s) < n THEN Len(s) ELSE n
         /\ \A i \in 1..Len(Take(s, n)) : Take(s, n)[i] = s[i]
<1> DEFINE m == IF Len(s) < n THEN Len(s) ELSE n
           t == SubSeq(s, 1, m)
<1>1. Len(s) \in Nat /\ m \in Nat /\ m <= Len(s) /\ DOMAIN s = 1..Len(s)
  BY LenProperties
<1>2. Take(s, n) = t
  BY DEF Take
<1> HIDE DEF m
<1>3. \A i \in 1..m : s[i] \in S
  BY <1>1, ElementOfSeq
<1>4. t \in Seq(S) /\ Len(t) = m /\ \A i \in 1..m : t[i] = s[i]
  BY <1>1, <1>3, SubSeqProperties
<1> HIDE DEF t
<1>5. /\ Sorted(s, by, TRUE) => Sorted(t, by, TRUE)
      /\ Sorted(s, by, FALSE) => Sorted(t, by, FALSE)
  <2>1. DOMAIN t = 1..m
    BY <1>4, LenProperties
  <2> QED
    BY <1>1, <1>4, <2>1 DEF Sorted
<1> QED
  BY <1>2, <1>4, <1>5 DEF m

LEMMA TailSorted ==
  ASSUME NEW by, NEW S, NEW s \in Seq(S), NEW up \in BOOLEAN, Sorted(s, by, up), s # <<>>
  PROVE  /\ Tail(s) \in Seq(S) /\ Sorted(Tail(s), by, up) /\ Len(Tail(s)) = Len(s) - 1
         /\ \A i \in 1..Len(Tail(s)) : Tail(s)[i] = s[i + 1]
<1>1. /\ Tail(s) \in Seq(S) /\ Len(Tail(s)) = Len(s) - 1 /\ Len(s) \in Nat \ {0}
      /\ \A i \in 1..Len(Tail(s)) : Tail(s)[i] = s[i + 1]
  BY HeadTailProperties, EmptySeq
<1>2. DOMAIN s = 1..Len(s) /\ DOMAIN Tail(s) = 1..(Len(s) - 1)
  BY <1>1, LenProperties
<1>3. Sorted(Tail(s), by, up)
  <2> SUFFICES ASSUME NEW i \in DOMAIN Tail(s), NEW j \in DOMAIN Tail(s), i < j
               PROVE  IF up THEN by[Tail(s)[i]] < by[Tail(s)[j]]
                            ELSE by[Tail(s)[i]] > by[Tail(s)[j]]
    BY DEF Sorted
  <2>1. i + 1 \in DOMAIN s /\ j + 1 \in DOMAIN s /\ i + 1 < j + 1
    BY <1>1, <1>2
  <2>2. Tail(s)[i] = s[i + 1] /\ Tail(s)[j] = s[j + 1]
    BY <1>1, <1>2
  <2> QED
    BY <2>1, <2>2 DEF Sorted
<1> QED
  BY <1>1, <1>3

LEMMA ReverseSorted ==
  ASSUME NEW by, NEW S, NEW s \in Seq(S), Sorted(s, by, FALSE),
         \A r \in S : by[r] \in Nat
  PROVE  /\ Reverse(s) \in Seq(S) /\ Sorted(Reverse(s), by, TRUE) /\ Len(Reverse(s)) = Len(s)
         /\ \A i \in 1..Len(s) : Reverse(s)[i] = s[Len(s) - i + 1]
<1> DEFINE n == Len(s)
           t == Reverse(s)
<1>1. n \in Nat /\ DOMAIN s = 1..n /\ \A i \in 1..n : s[i] \in S
  BY LenProperties, ElementOfSeq
<1>2. DOMAIN t = 1..n /\ \A i \in 1..n : t[i] = s[n - i + 1]
  BY DEF Reverse
<1>3. t \in [1..n -> S]
  <2>1. \A i \in 1..n : n - i + 1 \in 1..n
    BY <1>1
  <2> QED
    BY <1>1, <2>1 DEF Reverse
<1> HIDE DEF n, t
<1>4. t \in Seq(S) /\ Len(t) = n
  BY <1>1, <1>3, SeqDef
<1>5. Sorted(t, by, TRUE)
  <2> SUFFICES ASSUME NEW i \in 1..n, NEW j \in 1..n, i < j PROVE by[t[i]] < by[t[j]]
    BY <1>2 DEF Sorted
  <2>1. n - i + 1 \in 1..n /\ n - j + 1 \in 1..n /\ n - j + 1 < n - i + 1
    BY <1>1
  <2>2. /\ by[s[n - j + 1]] > by[s[n - i + 1]]
        /\ by[s[n - j + 1]] \in Nat /\ by[s[n - i + 1]] \in Nat
    BY <1>1, <2>1 DEF Sorted
  <2> QED
    BY <1>2, <2>2
<1> QED
  BY <1>2, <1>4, <1>5 DEF n, t

(* Rows in order are at places that ascend, and none is there twice. *)
LEMMA SortedAscends ==
  ASSUME NEW by, Ordered(by), NEW s \in Seq(Ids), Sorted(s, by, TRUE)
  PROVE  Ascending(s)
<1> SUFFICES ASSUME NEW i \in DOMAIN s, NEW j \in DOMAIN s, i < j
             PROVE  At(s[i]) <= At(s[j]) /\ s[i] # s[j]
  BY DEF Ascending
<1>1. DOMAIN s = 1..Len(s) /\ s[i] \in Ids /\ s[j] \in Ids
  BY LenProperties, ElementOfSeq
<1>2. by[s[i]] < by[s[j]]
  BY DEF Sorted
<1>3. by[s[i]] \in Nat /\ by[s[j]] \in Nat /\ (At(s[j]) < At(s[i]) => by[s[j]] < by[s[i]])
  BY <1>1 DEF Ordered
<1>4. At(s[i]) \in Nat /\ At(s[j]) \in Nat
  BY <1>1, PlaceType
<1> QED
  BY <1>2, <1>3, <1>4

LEMMA SeqOfFunction ==
  ASSUME NEW S, NEW n \in Nat, NEW s \in [1..n -> S] PROVE s \in Seq(S)
BY SeqDef

(* The first rows of a set, upwards: they hold all that is at a place before the last of them. *)
LEMMA PrefixShows ==
  ASSUME NEW by, Ordered(by), NEW S \in SUBSET Ids, NEW o, Sorts(o, S, by, TRUE), NEW s \in Seq(S),
         Len(s) <= Len(o), \A i \in 1..Len(s) : s[i] = o[i]
  PROVE  /\ Ascending(s)
         /\ Len(s) = Len(o) => S \subseteq ToSet(s)
         /\ s # <<>> => \A r \in S : At(r) < At(Last(s)) => r \in ToSet(s)
<1>1. /\ Len(s) \in Nat /\ DOMAIN s = 1..Len(s) /\ o \in Seq(S) /\ s \in Seq(Ids)
      /\ Len(o) \in Nat /\ DOMAIN o = 1..Len(o)
  BY LenProperties, SeqMonotonic DEF Sorts
<1>2. Ascending(s)
  <2>1. Sorted(s, by, TRUE)
    BY <1>1 DEF Sorts, Sorted
  <2> QED
    BY <1>1, <2>1, SortedAscends
<1>3. \A i \in 1..Len(s) : s[i] \in ToSet(s)
  BY <1>1 DEF ToSet
<1>4. ASSUME Len(s) = Len(o), NEW r \in S PROVE r \in ToSet(s)
  <2>1. PICK i \in 1..Len(o) : o[i] = r
    BY DEF Sorts
  <2> QED
    BY <1>1, <1>3, <1>4, <2>1
<1>5. ASSUME s # <<>>, NEW r \in S, At(r) < At(Last(s)) PROVE r \in ToSet(s)
  <2>1. PICK i \in 1..Len(o) : o[i] = r
    BY DEF Sorts
  <2>2. Len(s) \in 1..Len(o) /\ Last(s) = o[Len(s)] /\ o[Len(s)] \in S
    BY <1>1, <1>5, EmptySeq, ElementOfSeq DEF Last
  <2>3. ASSUME i > Len(s) PROVE FALSE
    <3>1. by[o[Len(s)]] < by[o[i]]
      BY <1>1, <2>2, <2>3 DEF Sorts, Sorted
    <3>2. by[r] < by[o[Len(s)]] /\ by[r] \in Nat /\ by[o[Len(s)]] \in Nat
      BY <1>5, <2>2 DEF Ordered
    <3> QED
      BY <2>1, <3>1, <3>2
  <2>4. i \in 1..Len(s) /\ s[i] = r
    BY <1>1, <2>1, <2>3
  <2> QED
    BY <1>3, <2>4
<1> QED
  BY <1>2, <1>4, <1>5

-----------------------------------------------------------------------------
(* Answers *)

(* A page as the properties see it: in order, not too long, its cursors facing outwards. *)
PageType ==
  [records : Seq(Ids), next : Cursors \cup {None}, previous : Cursors \cup {None}, failed : BOOLEAN]
PageOK(p) ==
  /\ p \in PageType /\ Ascending(p.records) /\ Len(p.records) <= PageSize
  /\ p.next # None => ~p.next.reverse
  /\ p.previous # None => p.previous.reverse

(* The page of a cursor shows rows beyond it: all of them, or all that are
   at a place before its own next cursor. *)
ShowsOn(p, cursor, by) ==
  /\ p.records \in Seq(Beyond(cursor, by))
  /\ IF p.next = None THEN Beyond(cursor, by) \subseteq ToSet(p.records)
     ELSE /\ p.records # <<>> /\ p.next.id = Last(p.records)
          /\ \A r \in Beyond(cursor, by) : At(r) < At(p.next.id) => r \in ToSet(p.records)

LEMMA CursorFacts ==
  /\ None \notin Cursors
  /\ \A i \in Ids : /\ After(i) \in Cursors /\ After(i).id = i /\ ~After(i).reverse
                    /\ Before(i) \in Cursors /\ Before(i).id = i /\ Before(i).reverse
<1>1. None \notin Cursors
  <2> SUFFICES ASSUME None \in Cursors PROVE FALSE
    OBVIOUS
  <2>1. DOMAIN None = {"none"}
    BY DEF None
  <2>2. DOMAIN None = {"id", "reverse"}
    BY DEF Cursors
  <2> QED
    BY <2>1, <2>2
<1> QED
  BY <1>1 DEF Cursors, After, Before

LEMMA RowsAreIds ==
  ASSUME NEW by, NEW cursor \in Cursors \cup {None}
  PROVE  /\ Matching \in SUBSET Ids /\ Beyond(cursor, by) \in SUBSET Ids
         /\ FromCursor(cursor, by) \in SUBSET Ids /\ Beyond(None, by) = Matching
         /\ Forward(cursor) \in BOOLEAN
BY DEF Matching, Beyond, FromCursor, Forward

(* Rows of a set of rows make a page of the list. *)
LEMMA SeqOfIds ==
  ASSUME NEW S \in SUBSET Ids, NEW s \in Seq(S) PROVE s \in Seq(Ids)
BY SeqMonotonic

(* No row is found exactly if there is none. *)
LEMMA NoneFound ==
  ASSUME NEW by, Ordered(by), NEW S \in SUBSET Ids, NEW cursor,
         Len(InOrder(S, cursor, by)) = 0
  PROVE  S = {}
<1> DEFINE o == InOrder(S, cursor, by)
<1>1. Sorts(o, S, by, Forward(cursor)) /\ Len(o) = 0
  BY InOrderSorts
<1> HIDE DEF o
<1> QED
  BY <1>1 DEF Sorts

(* The rows the SQL of a page gives. *)
LEMMA FetchedRows ==
  ASSUME NEW by, Ordered(by), NEW cursor \in Cursors \cup {None}
  PROVE  LET o == InOrder(Beyond(cursor, by), cursor, by)
             rows == Fetched(cursor, by)
         IN /\ rows \in Seq(Beyond(cursor, by)) /\ Sorted(rows, by, Forward(cursor))
            /\ Len(o) \in Nat /\ Len(rows) \in Nat
            /\ Len(rows) = IF Len(o) < PageSize + 1 THEN Len(o) ELSE PageSize + 1
            /\ \A i \in 1..Len(rows) : rows[i] = o[i] /\ rows[i] \in Beyond(cursor, by)
<1> DEFINE B == Beyond(cursor, by)
           o == InOrder(B, cursor, by)
           up == Forward(cursor)
           n == PageSize + 1
<1>1. B \in SUBSET Ids /\ up \in BOOLEAN /\ n \in Nat
  BY RowsAreIds, PagesConstants
<1>2. Sorts(o, B, by, up)
  BY <1>1, InOrderSorts
<1>3. o \in Seq(B) /\ Sorted(o, by, up) /\ Len(o) \in Nat
  BY <1>2, LenProperties DEF Sorts
<1> HIDE DEF B, up, n
<1>4. /\ Take(o, n) \in Seq(B) /\ Sorted(Take(o, n), by, up)
      /\ Len(Take(o, n)) = IF Len(o) < n THEN Len(o) ELSE n
      /\ \A i \in 1..Len(Take(o, n)) : Take(o, n)[i] = o[i]
  <2> HIDE DEF o
  <2>1. CASE up = TRUE
    BY <1>1, <1>3, <2>1, TakeSorted
  <2>2. CASE up = FALSE
    BY <1>1, <1>3, <2>2, TakeSorted
  <2> QED
    BY <1>1, <2>1, <2>2
<1>5. Len(Take(o, n)) \in Nat /\ \A i \in 1..Len(Take(o, n)) : Take(o, n)[i] \in B
  BY <1>4, LenProperties, ElementOfSeq
<1> QED
  BY <1>3, <1>4, <1>5 DEF Fetched, B, up, n

(* Pages of records of the managed destination. *)
LEMMA ManagedPages ==
  ASSUME NEW by, Ordered(by), NEW cursor \in Cursors \cup {None}
  PROVE  /\ PageOK(ManagedPage(cursor, by))
         /\ Forward(cursor) => ShowsOn(ManagedPage(cursor, by), cursor, by)
<1> DEFINE B == Beyond(cursor, by)
           o == InOrder(B, cursor, by)
           rows == Fetched(cursor, by)
           more == Len(rows) = PageSize + 1
           p == ManagedPage(cursor, by)
<1> SUFFICES PageOK(p) /\ (Forward(cursor) => ShowsOn(p, cursor, by))
  OBVIOUS
<1>1. B \in SUBSET Ids /\ Forward(cursor) \in BOOLEAN /\ PageSize \in Nat \ {0}
  BY RowsAreIds, PagesConstants
<1>2. /\ rows \in Seq(B) /\ Sorted(rows, by, Forward(cursor)) /\ Len(o) \in Nat /\ Len(rows) \in Nat
      /\ Len(rows) = IF Len(o) < PageSize + 1 THEN Len(o) ELSE PageSize + 1
      /\ \A i \in 1..Len(rows) : rows[i] = o[i] /\ rows[i] \in B /\ rows[i] \in Ids
  BY <1>1, FetchedRows
<1>3. Sorts(o, B, by, Forward(cursor))
  BY <1>1, InOrderSorts
<1>4. /\ None \notin Cursors
      /\ \A i \in Ids : /\ After(i) \in Cursors /\ After(i).id = i /\ ~After(i).reverse
                        /\ Before(i) \in Cursors /\ Before(i).id = i /\ Before(i).reverse
  BY CursorFacts
<1>5. rows # <<>> => Len(rows) # 0
  BY <1>2, EmptySeq
<1>6. Len(rows) = 0 => B = {}
  <2>1. Len(rows) = 0 => Len(o) = 0
    BY <1>1, <1>2
  <2> QED
    BY <1>1, <2>1, NoneFound
<1>7. CASE cursor # None /\ rows = <<>>
  <2>1. p = Failed
    BY <1>7 DEF ManagedPage
  <2>2. B = {}
    BY <1>6, <1>7
  <2>3. p.records = <<>> /\ p.next = None /\ p.previous = None /\ p.failed = TRUE
    BY <2>1 DEF Failed, NoPage
  <2>4. p \in PageType
    BY <2>1, EmptySeq DEF Failed, NoPage, PageType
  <2>5. Ascending(<<>>) /\ Len(<<>>) = 0 /\ <<>> \in Seq(B)
    BY EmptySeq DEF Ascending
  <2> HIDE DEF p
  <2> QED
    BY <1>1, <2>2, <2>3, <2>4, <2>5 DEF PageOK, ShowsOn
<1>8. CASE Forward(cursor) /\ (cursor = None \/ rows # <<>>)
  <2> DEFINE shown == IF more THEN SubSeq(rows, 1, PageSize) ELSE rows
  <2>1. p = [records |-> shown, next |-> IF more THEN After(rows[PageSize]) ELSE None,
             previous |-> IF cursor # None THEN Before(rows[1]) ELSE None, failed |-> FALSE]
    BY <1>8 DEF ManagedPage, NoPage
  <2>2. /\ shown \in Seq(B) /\ Len(shown) = IF more THEN PageSize ELSE Len(o)
        /\ Len(shown) <= Len(o) /\ Len(shown) <= PageSize
        /\ \A i \in 1..Len(shown) : shown[i] = o[i]
    <3>1. CASE more
      <4>1. \A i \in 1..PageSize : rows[i] \in B /\ rows[i] = o[i]
        BY <1>1, <1>2, <3>1
      <4>2. /\ SubSeq(rows, 1, PageSize) \in Seq(B) /\ Len(SubSeq(rows, 1, PageSize)) = PageSize
            /\ \A i \in 1..PageSize : SubSeq(rows, 1, PageSize)[i] = rows[i]
        BY <1>1, <4>1, SubSeqProperties
      <4> QED
        BY <1>1, <1>2, <3>1, <4>1, <4>2
    <3>2. CASE ~more
      BY <1>1, <1>2, <3>2
    <3> QED
      BY <3>1, <3>2
  <2> HIDE DEF shown
  <2>3. /\ Ascending(shown) /\ (~more => B \subseteq ToSet(shown))
        /\ shown # <<>> => \A r \in B : At(r) < At(Last(shown)) => r \in ToSet(shown)
    <3> HIDE DEF o, B
    <3>1. Forward(cursor) = TRUE
      BY <1>1, <1>8
    <3>2. Sorts(o, B, by, TRUE)
      BY <1>3, <3>1
    <3>3. /\ Ascending(shown)
          /\ Len(shown) = Len(o) => B \subseteq ToSet(shown)
          /\ shown # <<>> => \A r \in B : At(r) < At(Last(shown)) => r \in ToSet(shown)
      BY <1>1, <2>2, <3>2, PrefixShows
    <3> QED
      BY <2>2, <3>3
  <2>4. more => shown # <<>> /\ rows[PageSize] = Last(shown) /\ rows[PageSize] \in Ids
    <3>1. more => Len(shown) = PageSize /\ PageSize \in 1..Len(rows) /\ PageSize \in 1..Len(shown)
      BY <1>1, <1>2, <2>2
    <3>2. shown = <<>> => Len(shown) = 0
      BY EmptySeq
    <3> QED
      BY <1>1, <1>2, <2>2, <3>1, <3>2 DEF Last
  <2>5. cursor # None => rows[1] \in Ids
    BY <1>2, <1>5, <1>8
  <2> DEFINE next == IF more THEN After(rows[PageSize]) ELSE None
             previous == IF cursor # None THEN Before(rows[1]) ELSE None
  <2>6. /\ next \in Cursors \cup {None} /\ previous \in Cursors \cup {None}
        /\ next # None => more /\ ~next.reverse /\ next.id = Last(shown)
        /\ previous # None => previous.reverse
        /\ next = None => ~more
    BY <1>4, <2>4, <2>5
  <2>7. shown \in Seq(Ids)
    BY <1>1, <2>2, SeqOfIds
  <2>8. p.records = shown /\ p.next = next /\ p.previous = previous /\ p \in PageType
    <3> HIDE DEF p, next, previous
    <3> QED
      BY <2>1, <2>6, <2>7 DEF PageType, next, previous
  <2> HIDE DEF p, next, previous, more
  <2> QED
    BY <2>2, <2>3, <2>4, <2>6, <2>8 DEF PageOK, ShowsOn
<1>9. CASE ~Forward(cursor) /\ rows # <<>>
  <2> DEFINE shown == IF more THEN Tail(rows) ELSE rows
  <2>1. p = [records |-> Reverse(shown), next |-> After(rows[1]),
             previous |-> IF more THEN Before(rows[PageSize]) ELSE None, failed |-> FALSE]
    BY <1>9 DEF ManagedPage, NoPage, Forward
  <2>2. shown \in Seq(B) /\ Sorted(shown, by, FALSE) /\ Len(shown) <= PageSize
    <3> HIDE DEF rows, o
    <3>3. Forward(cursor) = FALSE
      BY <1>1, <1>9
    <3>1. Sorted(rows, by, FALSE) /\ rows # <<>>
      BY <1>2, <1>9, <3>3 DEF Sorted
    <3>2. Tail(rows) \in Seq(B) /\ Sorted(Tail(rows), by, FALSE) /\ Len(Tail(rows)) = Len(rows) - 1
      BY <1>2, <3>1, TailSorted
    <3>4. Len(rows) <= PageSize + 1
      BY <1>1, <1>2
    <3>5. CASE more
      <4>1. shown = Tail(rows) /\ Len(rows) = PageSize + 1
        BY <3>5
      <4> HIDE DEF shown, B
      <4>2. shown \in Seq(B)
        BY <3>2, <4>1
      <4>3. Sorted(shown, by, FALSE)
        BY <3>2, <4>1
      <4>4. Len(shown) <= PageSize
        BY <1>1, <3>2, <4>1
      <4> QED
        BY <4>2, <4>3, <4>4
    <3>6. CASE ~more
      <4>1. shown = rows /\ Len(rows) # PageSize + 1
        BY <3>6
      <4> HIDE DEF shown, B
      <4>2. shown \in Seq(B)
        BY <1>2, <4>1
      <4>3. Sorted(shown, by, FALSE)
        BY <3>1, <4>1
      <4>4. Len(shown) <= PageSize
        BY <1>1, <1>2, <3>4, <4>1
      <4> QED
        BY <4>2, <4>3, <4>4
    <3> QED
      BY <3>5, <3>6
  <2> HIDE DEF shown
  <2>3. /\ Reverse(shown) \in Seq(B) /\ Sorted(Reverse(shown), by, TRUE)
        /\ Len(Reverse(shown)) <= PageSize
    <3>1. \A r \in B : by[r] \in Nat
      BY <1>1 DEF Ordered
    <3> QED
      BY <2>2, <3>1, ReverseSorted
  <2>4. Reverse(shown) \in Seq(Ids) /\ Ascending(Reverse(shown))
    BY <1>1, <2>3, SeqOfIds, SortedAscends
  <2>5. rows[1] \in Ids /\ (more => rows[PageSize] \in Ids)
    BY <1>1, <1>2, <1>5, <1>9
  <2> DEFINE previous == IF more THEN Before(rows[PageSize]) ELSE None
  <2>6. /\ previous \in Cursors \cup {None} /\ (previous # None => previous.reverse)
        /\ After(rows[1]) \in Cursors /\ ~After(rows[1]).reverse
    BY <1>4, <2>5
  <2>7. /\ p.records = Reverse(shown) /\ p.next = After(rows[1]) /\ p.previous = previous
        /\ p \in PageType
    <3> HIDE DEF p, previous
    <3> QED
      BY <2>1, <2>4, <2>6 DEF PageType, previous
  <2> HIDE DEF p, previous, more
  <2> QED
    BY <1>9, <2>3, <2>4, <2>6, <2>7 DEF PageOK
<1> QED
  BY <1>7, <1>8, <1>9 DEF Forward

(* What is found from the row of a cursor on, if that row still matches: the row itself, *)
(* and then the rows beyond it.                                                           *)
LEMMA CursorIsFoundFirst ==
  ASSUME NEW by, Ordered(by), NEW cursor \in Cursors, cursor.id \in Matching
  PROVE  LET o == InOrder(FromCursor(cursor, by), cursor, by)
         IN o # <<>> /\ Sorts(Tail(o), Beyond(cursor, by), by, Forward(cursor))
<1> DEFINE S == FromCursor(cursor, by)
           B == Beyond(cursor, by)
           up == Forward(cursor)
           o == InOrder(S, cursor, by)
           c == cursor.id
<1> SUFFICES o # <<>> /\ Sorts(Tail(o), B, by, up)
  OBVIOUS
<1>1. S \in SUBSET Ids /\ B \in SUBSET Ids /\ up \in BOOLEAN /\ c \in Ids
  BY RowsAreIds DEF Cursors
<1>2. cursor # None /\ up = ~cursor.reverse
  BY CursorFacts DEF Forward
<1>3. /\ S = B \cup {c} /\ c \notin B
      /\ \A r \in B : IF up THEN by[c] < by[r] ELSE by[c] > by[r]
  <2>1. \A q, r \in Ids : by[r] \in Nat /\ (by[q] = by[r] => q = r)
    BY DEF Ordered
  <2>2. B = {i \in Matching : IF up THEN by[i] > by[c] ELSE by[i] < by[c]}
    BY <1>2 DEF Beyond
  <2>3. S = B \cup {c}
    BY <1>2 DEF FromCursor
  <2> HIDE DEF B, up, S
  <2> QED
    BY <1>1, <2>1, <2>2, <2>3
<1>4. Sorts(o, S, by, up)
  BY <1>1, InOrderSorts
<1> HIDE DEF S, B, up, c, o
<1>5. PICK k \in 1..Len(o) : o[k] = c
  BY <1>3, <1>4 DEF Sorts
<1>6. o \in Seq(S) /\ Sorted(o, by, up) /\ Len(o) \in Nat /\ DOMAIN o = 1..Len(o)
  BY <1>4, LenProperties DEF Sorts
<1>7. \A i \in 1..Len(o) : o[i] \in S /\ by[o[i]] \in Nat
  BY <1>1, <1>6, ElementOfSeq DEF Ordered
<1>8. k = 1
  <2> SUFFICES ASSUME k # 1 PROVE FALSE
    OBVIOUS
  <2>1. 1 \in DOMAIN o /\ k \in DOMAIN o /\ 1 < k
    BY <1>5, <1>6
  <2>2. IF up THEN by[o[1]] < by[c] ELSE by[o[1]] > by[c]
    BY <1>5, <1>6, <2>1 DEF Sorted
  <2>3. o[1] \in S /\ by[o[1]] \in Nat /\ by[c] \in Nat
    BY <1>1, <1>5, <1>6, <1>7, <2>1 DEF Ordered
  <2>4. o[1] = c \/ (IF up THEN by[c] < by[o[1]] ELSE by[c] > by[o[1]])
    BY <1>3, <2>3
  <2> QED
    BY <2>2, <2>3, <2>4
<1>9. o # <<>>
  BY <1>5, <1>6, EmptySeq
<1>10. /\ Tail(o) \in Seq(S) /\ Sorted(Tail(o), by, up) /\ Len(Tail(o)) = Len(o) - 1
       /\ \A i \in 1..Len(Tail(o)) : Tail(o)[i] = o[i + 1]
  BY <1>1, <1>6, <1>9, TailSorted
<1>11. \A i \in 1..Len(Tail(o)) : Tail(o)[i] \in B
  <2> SUFFICES ASSUME NEW i \in 1..Len(Tail(o)) PROVE o[i + 1] \in B
    BY <1>10
  <2>1. i + 1 \in 1..Len(o) /\ 1 \in 1..Len(o) /\ 1 < i + 1
    BY <1>6, <1>10
  <2>2. o[1] = c
    BY <1>5, <1>8
  <2>3. IF up THEN by[c] < by[o[i + 1]] ELSE by[c] > by[o[i + 1]]
    BY <1>6, <2>1, <2>2 DEF Sorted
  <2>4. o[i + 1] # c /\ o[i + 1] \in S
    <3>1. by[c] \in Nat /\ o[i + 1] \in S
      BY <1>7, <2>1, <2>2
    <3> QED
      BY <2>3, <3>1
  <2> QED
    BY <1>3, <2>4
<1>12. Tail(o) \in Seq(B)
  <2>1. /\ Len(Tail(o)) \in Nat /\ Tail(o) \in [1..Len(Tail(o)) -> S]
        /\ DOMAIN Tail(o) = 1..Len(Tail(o))
    BY <1>10, LenProperties
  <2>2. Tail(o) \in [1..Len(Tail(o)) -> B]
    BY <1>11, <2>1
  <2> QED
    BY <2>1, <2>2, SeqOfFunction
<1>13. ASSUME NEW r \in B PROVE \E i \in 1..Len(Tail(o)) : Tail(o)[i] = r
  <2>1. PICK j \in 1..Len(o) : o[j] = r
    BY <1>3, <1>4 DEF Sorts
  <2>2. j # 1
    BY <1>3, <1>5, <1>8, <2>1
  <2>3. j - 1 \in 1..Len(Tail(o)) /\ Tail(o)[j - 1] = o[j - 1 + 1] /\ j - 1 + 1 = j
    BY <1>6, <1>10, <2>1, <2>2
  <2> QED
    BY <2>1, <2>3
<1> QED
  BY <1>9, <1>10, <1>12, <1>13 DEF Sorts

(* The cursors a walk goes on from: the rows beyond them are those the walk has not shown. *)
GoesOn(cursor) == Forward(cursor) /\ (cursor # None => GoesOnFrom(cursor.id))

(* What is found for a page of syncs or sync runs. *)
LEMMA FoundRows ==
  ASSUME NEW by, Ordered(by), NEW cursor \in Cursors \cup {None}
  PROVE  /\ Found(cursor, by) \in Seq(Ids) /\ Ascending(Found(cursor, by))
         /\ Len(Found(cursor, by)) <= PageSize
         /\ cursor = None \/ (Forward(cursor) /\ cursor.id \in Matching) =>
              \E o : /\ Sorts(o, Beyond(cursor, by), by, TRUE)
                     /\ Found(cursor, by) = Take(o, PageSize)
         /\ cursor # None /\ ~Forward(cursor) /\ cursor.id \in Matching =>
              \E o : /\ Sorts(o, Beyond(cursor, by), by, FALSE)
                     /\ Found(cursor, by) = Reverse(Take(o, PageSize))
<1> DEFINE S == FromCursor(cursor, by)
           up == Forward(cursor)
           rows == InOrder(S, cursor, by)
           taken == Take(Tail(rows), PageSize)
           found == Found(cursor, by)
<1> SUFFICES /\ found \in Seq(Ids) /\ Ascending(found) /\ Len(found) <= PageSize
             /\ cursor = None \/ (up /\ cursor.id \in Matching) =>
                  \E o : /\ Sorts(o, Beyond(cursor, by), by, TRUE) /\ found = Take(o, PageSize)
             /\ cursor # None /\ ~up /\ cursor.id \in Matching =>
                  \E o : /\ Sorts(o, Beyond(cursor, by), by, FALSE)
                         /\ found = Reverse(Take(o, PageSize))
  OBVIOUS
<1>1. /\ S \in SUBSET Ids /\ up \in BOOLEAN /\ PageSize \in Nat
      /\ Beyond(cursor, by) \in SUBSET Ids /\ Matching \in SUBSET Ids /\ Beyond(None, by) = Matching
  BY RowsAreIds, PagesConstants
<1>2. Sorts(rows, S, by, up)
  BY <1>1, InOrderSorts
<1>3. rows \in Seq(S) /\ Sorted(rows, by, up) /\ rows \in Seq(Ids)
  <2> HIDE DEF rows, S, up
  <2> QED
    BY <1>1, <1>2, SeqOfIds DEF Sorts
<1>4. \A s : s \in Seq(Ids) /\ Sorted(s, by, TRUE) =>
        /\ Take(s, PageSize) \in Seq(Ids) /\ Ascending(Take(s, PageSize))
        /\ Len(Take(s, PageSize)) <= PageSize
  <2> SUFFICES ASSUME NEW s \in Seq(Ids), Sorted(s, by, TRUE)
               PROVE  /\ Take(s, PageSize) \in Seq(Ids) /\ Ascending(Take(s, PageSize))
                      /\ Len(Take(s, PageSize)) <= PageSize
    OBVIOUS
  <2>1. /\ Take(s, PageSize) \in Seq(Ids) /\ Sorted(Take(s, PageSize), by, TRUE)
        /\ Len(Take(s, PageSize)) = IF Len(s) < PageSize THEN Len(s) ELSE PageSize
    BY <1>1, TakeSorted
  <2>2. Len(s) \in Nat
    BY LenProperties
  <2>3. Ascending(Take(s, PageSize))
    BY <2>1, SortedAscends
  <2> QED
    BY <1>1, <2>1, <2>2, <2>3
<1>5. \A s : s \in Seq(Ids) /\ Sorted(s, by, FALSE) =>
        /\ Reverse(Take(s, PageSize)) \in Seq(Ids) /\ Ascending(Reverse(Take(s, PageSize)))
        /\ Len(Reverse(Take(s, PageSize))) <= PageSize
  <2> SUFFICES ASSUME NEW s \in Seq(Ids), Sorted(s, by, FALSE)
               PROVE  /\ Reverse(Take(s, PageSize)) \in Seq(Ids)
                      /\ Ascending(Reverse(Take(s, PageSize)))
                      /\ Len(Reverse(Take(s, PageSize))) <= PageSize
    OBVIOUS
  <2> DEFINE t == Take(s, PageSize)
  <2>1. /\ t \in Seq(Ids) /\ Sorted(t, by, FALSE)
        /\ Len(t) = IF Len(s) < PageSize THEN Len(s) ELSE PageSize
    BY <1>1, TakeSorted
  <2>2. Len(s) \in Nat
    BY LenProperties
  <2> HIDE DEF t
  <2>3. \A r \in Ids : by[r] \in Nat
    BY DEF Ordered
  <2>4. Reverse(t) \in Seq(Ids) /\ Sorted(Reverse(t), by, TRUE) /\ Len(Reverse(t)) = Len(t)
    BY <2>1, <2>3, ReverseSorted
  <2>5. Ascending(Reverse(t))
    BY <2>4, SortedAscends
  <2> QED
    BY <1>1, <2>1, <2>2, <2>4, <2>5 DEF t
<1>6. CASE cursor = None
  <2>1. up = TRUE /\ S = Beyond(cursor, by) /\ found = Take(rows, PageSize)
    BY <1>1, <1>6 DEF Found, Forward, FromCursor
  <2>2. Sorted(rows, by, TRUE) /\ Sorts(rows, Beyond(cursor, by), by, TRUE)
    <3> HIDE DEF rows, S, up
    <3> QED
      BY <1>2, <1>3, <2>1
  <2> HIDE DEF rows, S, up, found
  <2> QED
    BY <1>3, <1>4, <1>6, <2>1, <2>2
<1>7. CASE cursor # None /\ (row[cursor.id] = "gone" \/ rows = <<>>)
  <2>1. found = <<>>
    BY <1>7 DEF Found
  <2>2. cursor.id \notin Matching
    <3>1. cursor.id \in Matching => row[cursor.id] # "gone"
      BY DEF Matching
    <3>2. cursor.id \in Matching => rows # <<>>
      BY <1>7, CursorIsFoundFirst
    <3> QED
      BY <1>7, <3>1, <3>2
  <2> HIDE DEF rows, S, up, found
  <2>3. found \in Seq(Ids) /\ Ascending(found) /\ Len(found) <= PageSize
    <3>1. <<>> \in Seq(Ids) /\ Len(<<>>) = 0 /\ Ascending(<<>>)
      BY EmptySeq DEF Ascending
    <3> QED
      BY <1>1, <2>1, <3>1
  <2> QED
    BY <1>7, <2>2, <2>3
<1>8. CASE cursor # None /\ row[cursor.id] # "gone" /\ rows # <<>>
  <2>1. found = IF up THEN taken ELSE Reverse(taken)
    BY <1>8 DEF Found
  <2>2. Tail(rows) \in Seq(Ids) /\ Sorted(Tail(rows), by, up)
    <3> HIDE DEF rows, S, up
    <3> QED
      BY <1>1, <1>3, <1>8, TailSorted
  <2>3. cursor.id \in Matching => Sorts(Tail(rows), Beyond(cursor, by), by, up)
    BY <1>8, CursorIsFoundFirst
  <2> DEFINE t == Tail(rows)
  <2>4. taken = Take(t, PageSize)
    OBVIOUS
  <2> HIDE DEF t, taken, rows, S, up, found
  <2>5. CASE up = TRUE
    <3>1. /\ found = Take(t, PageSize) /\ t \in Seq(Ids) /\ Sorted(t, by, TRUE)
          /\ cursor.id \in Matching => Sorts(t, Beyond(cursor, by), by, TRUE)
      BY <2>1, <2>2, <2>3, <2>4, <2>5 DEF t
    <3> QED
      BY <1>4, <1>8, <2>5, <3>1
  <2>6. CASE up = FALSE
    <3>1. /\ found = Reverse(Take(t, PageSize)) /\ t \in Seq(Ids) /\ Sorted(t, by, FALSE)
          /\ cursor.id \in Matching => Sorts(t, Beyond(cursor, by), by, FALSE)
      BY <2>1, <2>2, <2>3, <2>4, <2>6 DEF t
    <3> QED
      BY <1>5, <1>8, <2>6, <3>1
  <2> QED
    BY <1>1, <2>5, <2>6
<1> QED
  BY <1>6, <1>7, <1>8

(* Pages of syncs and of sync runs. *)
LEMMA PrismaPages ==
  ASSUME NEW by, Ordered(by), NEW cursor \in Cursors \cup {None}
  PROVE  LET p == PrismaPage(cursor, by)
         IN /\ PageOK(p)
            /\ p.previous # None => p.records # <<>> /\ p.previous.id = Head(p.records)
            /\ cursor = None \/ (Forward(cursor) /\ cursor.id \in Matching) =>
                 ShowsOn(p, cursor, by)
<1> DEFINE rows == Found(cursor, by)
           full == Len(rows) = PageSize
           B == Beyond(cursor, by)
           p == PrismaPage(cursor, by)
           next == IF full THEN After(rows[PageSize]) ELSE None
           previous == IF cursor # None /\ rows # <<>> THEN Before(rows[1]) ELSE None
<1> SUFFICES /\ PageOK(p)
             /\ p.previous # None => p.records # <<>> /\ p.previous.id = Head(p.records)
             /\ cursor = None \/ (Forward(cursor) /\ cursor.id \in Matching) =>
                 ShowsOn(p, cursor, by)
  OBVIOUS
<1>1. PageSize \in Nat \ {0} /\ B \in SUBSET Ids
  BY RowsAreIds, PagesConstants
<1>2. rows \in Seq(Ids) /\ Ascending(rows) /\ Len(rows) <= PageSize /\ Len(rows) \in Nat
  BY FoundRows, LenProperties
<1>3. p = [records |-> rows, next |-> next, previous |-> previous, failed |-> FALSE]
  <2>1. p = [NoPage EXCEPT !.records = rows, !.next = next, !.previous = previous]
    BY DEF PrismaPage
  <2> HIDE DEF p, rows, next, previous
  <2> QED
    BY <2>1 DEF NoPage
<1>4. cursor = None \/ (Forward(cursor) /\ cursor.id \in Matching) =>
        \E o : Sorts(o, B, by, TRUE) /\ rows = Take(o, PageSize)
  BY FoundRows
<1> HIDE DEF rows, p, B
<1>5. /\ rows # <<>> => 1 \in 1..Len(rows) /\ rows[1] \in Ids /\ rows[1] = Head(rows)
      /\ full => rows # <<>> /\ PageSize \in 1..Len(rows) /\ rows[PageSize] \in Ids
                 /\ rows[PageSize] = Last(rows)
  BY <1>1, <1>2, EmptySeq, ElementOfSeq DEF Last
<1>6. /\ next \in Cursors \cup {None} /\ previous \in Cursors \cup {None}
      /\ next # None => full /\ ~next.reverse /\ next.id = Last(rows)
      /\ next = None => ~full
      /\ previous # None => previous.reverse /\ rows # <<>> /\ previous.id = Head(rows)
  BY <1>5, CursorFacts
<1>7. p.records = rows /\ p.next = next /\ p.previous = previous /\ p \in PageType
  <2> HIDE DEF next, previous
  <2> QED
    BY <1>2, <1>3, <1>6 DEF PageType
<1> HIDE DEF next, previous, full
<1>8. PageOK(p)
  BY <1>2, <1>6, <1>7 DEF PageOK
<1>9. ASSUME cursor = None \/ (Forward(cursor) /\ cursor.id \in Matching)
      PROVE  ShowsOn(p, cursor, by)
  <2>1. PICK o : Sorts(o, B, by, TRUE) /\ rows = Take(o, PageSize)
    BY <1>4, <1>9
  <2>2. o \in Seq(B) /\ Sorted(o, by, TRUE) /\ Len(o) \in Nat
    BY <2>1, LenProperties DEF Sorts
  <2>3. /\ rows \in Seq(B) /\ Len(rows) = IF Len(o) < PageSize THEN Len(o) ELSE PageSize
        /\ \A i \in 1..Len(rows) : rows[i] = o[i]
    BY <1>1, <2>1, <2>2, TakeSorted
  <2>4. Len(rows) <= Len(o)
    BY <1>1, <2>2, <2>3
  <2>5. /\ Len(rows) = Len(o) => B \subseteq ToSet(rows)
        /\ rows # <<>> => \A r \in B : At(r) < At(Last(rows)) => r \in ToSet(rows)
    BY <1>1, <2>1, <2>3, <2>4, PrefixShows
  <2>6. ~full => Len(rows) = Len(o)
    BY <1>1, <2>2, <2>3 DEF full
  <2> QED
    BY <1>5, <1>6, <1>7, <2>3, <2>5, <2>6 DEF ShowsOn, B
<1> QED
  BY <1>6, <1>7, <1>8, <1>9

(* The page before a row that still matches, and shares its place with none, ends next to it. *)
LEMMA PrismaStepsBack ==
  ASSUME NEW by, Ordered(by), NEW cursor \in Cursors, ~Forward(cursor),
         cursor.id \in Matching, Alone(cursor.id), PrismaPage(cursor, by).records # <<>>
  PROVE  LET last == Last(PrismaPage(cursor, by).records)
         IN /\ At(last) < At(cursor.id)
            /\ \A r \in Matching : At(r) <= At(last) \/ At(r) >= At(cursor.id)
<1> DEFINE rows == Found(cursor, by)
           B == Beyond(cursor, by)
           c == cursor.id
<1> SUFFICES /\ At(Last(rows)) < At(c)
             /\ \A r \in Matching : At(r) <= At(Last(rows)) \/ At(r) >= At(c)
  BY DEF PrismaPage, NoPage
<1>1. /\ PageSize \in Nat \ {0} /\ B \in SUBSET Ids /\ Matching \in SUBSET Ids
      /\ rows # <<>> /\ cursor # None /\ c \in Ids
  BY RowsAreIds, PagesConstants, CursorFacts DEF PrismaPage, NoPage
<1>2. PICK o : Sorts(o, B, by, FALSE) /\ rows = Reverse(Take(o, PageSize))
  BY <1>1, FoundRows
<1>3. /\ o \in Seq(B) /\ Sorted(o, by, FALSE) /\ Len(o) \in Nat /\ DOMAIN o = 1..Len(o)
      /\ \A i \in 1..Len(o) : o[i] \in B
  BY <1>2, LenProperties, ElementOfSeq DEF Sorts
<1> DEFINE t == Take(o, PageSize)
<1>4. /\ t \in Seq(B) /\ Sorted(t, by, FALSE) /\ Len(t) \in Nat
      /\ Len(t) = IF Len(o) < PageSize THEN Len(o) ELSE PageSize
      /\ \A i \in 1..Len(t) : t[i] = o[i]
  BY <1>1, <1>3, TakeSorted, LenProperties
<1>5. rows = Reverse(t)
  BY <1>2
<1>6. B = {r \in Matching : by[r] < by[c]}
  BY <1>1 DEF Beyond
<1>7. \A r \in Ids : At(r) \in Nat /\ by[r] \in Nat
  BY PlaceType DEF Ordered
<1> HIDE DEF t, rows, B
<1>8. /\ Len(rows) = Len(t) /\ \A i \in 1..Len(t) : rows[i] = t[Len(t) - i + 1]
  BY <1>1, <1>4, <1>5, <1>7, ReverseSorted
<1>9. Len(t) \in 1..Len(t) /\ 1 \in 1..Len(t) /\ 1 \in 1..Len(o)
  <2>1. Len(t) # 0
    BY <1>1, <1>4, <1>5, EmptySeq, ReverseSorted, <1>7
  <2> QED
    BY <1>1, <1>3, <1>4, <2>1
<1>10. Last(rows) = o[1] /\ o[1] \in B
  <2>1. rows[Len(t)] = t[1]
    <3>1. Len(t) - Len(t) + 1 = 1
      BY <1>4
    <3>2. rows[Len(t)] = t[Len(t) - Len(t) + 1]
      BY <1>8, <1>9
    <3> QED
      BY <3>1, <3>2
  <2>2. t[1] = o[1] /\ o[1] \in B
    BY <1>3, <1>4, <1>9
  <2> QED
    BY <1>8, <2>1, <2>2 DEF Last
(* A row before the cursor in this order is at a place before it, and so is any the other *)
(* way about: no other row is at the cursor's place.                                      *)
<1>11. \A r \in Matching : At(r) < At(c) <=> r \in B
  <2> SUFFICES ASSUME NEW r \in Matching PROVE At(r) < At(c) <=> by[r] < by[c]
    BY <1>6
  <2>1. /\ At(r) \in Nat /\ At(c) \in Nat /\ by[r] \in Nat /\ by[c] \in Nat
        /\ At(r) < At(c) => by[r] < by[c]
        /\ At(c) < At(r) => by[c] < by[r]
    BY <1>1, <1>7 DEF Ordered
  <2>2. At(r) = At(c) => r = c
    BY DEF Alone
  <2> QED
    BY <2>1, <2>2
<1>12. ASSUME NEW r \in Matching, At(r) < At(c) PROVE At(r) <= At(o[1])
  <2>1. PICK i \in 1..Len(o) : o[i] = r
    BY <1>2, <1>11, <1>12 DEF Sorts
  <2>2. o[1] \in Ids /\ r \in Ids
    BY <1>1, <1>10
  <2>3. i # 1 => by[o[1]] > by[r]
    BY <1>3, <1>9, <2>1 DEF Sorted
  <2>4. At(o[1]) < At(r) => by[o[1]] < by[r]
    BY <2>2 DEF Ordered
  <2>5. At(o[1]) \in Nat /\ At(r) \in Nat /\ by[o[1]] \in Nat /\ by[r] \in Nat
    BY <1>7, <2>2
  <2> QED
    BY <2>1, <2>3, <2>4, <2>5
<1>13. o[1] \in Matching
  BY <1>6, <1>10
<1> QED
  BY <1>1, <1>7, <1>10, <1>11, <1>12, <1>13

-----------------------------------------------------------------------------
(* Steps *)

LEMMA AnswerFacts ==
  ASSUME NEW by, Ordered(by), NEW cursor \in Cursors \cup {None}
  PROVE  LET p == Answer(cursor, by)
         IN /\ PageOK(p)
            /\ style # "managed" /\ p.previous # None =>
                 p.records # <<>> /\ p.previous.id = Head(p.records)
            /\ GoesOn(cursor) => ShowsOn(p, cursor, by)
BY ManagedPages, PrismaPages DEF Answer, GoesOn, GoesOnFrom

(* An answer keeps the types, and what is said of the cursors of a page. *)
LEMMA AnswerKeeps ==
  ASSUME NEW by, Ordered(by), NEW cursor \in Cursors \cup {None}, page' = Answer(cursor, by),
         style' = style
  PROVE  /\ page' \in PageType /\ Ascending(page'.records) /\ Ascending(page.records)'
         /\ Len(page'.records) <= PageSize
         /\ page'.records \in Seq(Ids)
         /\ CursorsAreOfThePage'
         /\ GoesOn(cursor) => ShowsOn(page', cursor, by)
         /\ page'.next \in Cursors \cup {None}
<1>1. /\ PageOK(page')
      /\ style # "managed" /\ page'.previous # None =>
           page'.records # <<>> /\ page'.previous.id = Head(page'.records)
      /\ GoesOn(cursor) => ShowsOn(page', cursor, by)
  BY AnswerFacts
<1>2. page' \in PageType /\ page'.records \in Seq(Ids) /\ page'.next \in Cursors \cup {None}
  BY <1>1 DEF PageOK, PageType
<1>3. CursorsAreOfThePage'
  BY <1>1 DEF PageOK, CursorsAreOfThePage
<1>4. Ascending(page'.records) /\ Ascending(page.records)'
  BY <1>1 DEF PageOK, Ascending, At
<1> QED
  BY <1>1, <1>2, <1>3, <1>4 DEF PageOK

LEMMA InitPages == Init => PagesInv
<1> SUFFICES ASSUME Init PROVE PagesInv
  OBVIOUS
<1>1. <<>> \in Seq(Ids) /\ Len(<<>>) = 0 /\ Ascending(<<>>)
  BY EmptySeq DEF Ascending
<1>2. TypeOK
  BY <1>1, PagesConstants DEF Init, TypeOK, NoPage
<1> QED
  BY <1>2 DEF Init, NoPage, PagesInv, CursorsAreOfThePage, WalkIsWhole

LEMMA StartKeeps ==
  ASSUME PagesInv, Start PROVE PagesInv'
<1>1. /\ TypeOK /\ style' = style /\ row' = row /\ moves' = moves
      /\ walked' = page'.records /\ whole' = Matching /\ strayed' = FALSE
  BY DEF PagesInv, Start
<1>2. PICK by \in Orders : page' = Answer(None, by)
  BY DEF Start
<1>3. GoesOn(None) /\ Beyond(None, by) = Matching /\ Matching \subseteq Ids
  BY RowsAreIds DEF GoesOn, Forward
<1>4. /\ page' \in PageType /\ Ascending(page'.records) /\ Ascending(page.records)'
      /\ Len(page'.records) <= PageSize
      /\ page'.records \in Seq(Ids) /\ CursorsAreOfThePage' /\ ShowsOn(page', None, by)
  BY <1>1, <1>2, <1>3, OrdersAreOrdered, AnswerKeeps
<1>5. TypeOK'
  BY <1>1, <1>3, <1>4 DEF TypeOK, PageType
<1>6. Matching' = Matching /\ \A i \in Ids : At(i)' = At(i)
  BY <1>1 DEF Matching, At
<1>7. Ascending(walked)'
  BY <1>1, <1>4 DEF Ascending, At
<1>8. WalkIsWhole'
  <2>1. CASE page'.next = None
    BY <1>1, <1>3, <1>4, <1>6, <1>7, <2>1 DEF WalkIsWhole, ShowsOn
  <2>2. CASE page'.next # None
    <3>1. /\ walked' # <<>> /\ page'.next.id = Last(walked')
          /\ \A r \in Matching : At(r) < At(page'.next.id) => r \in ToSet(walked')
      BY <1>1, <1>3, <1>4, <2>2 DEF ShowsOn
    <3>2. \A r \in whole' : At(r)' < At(page.next.id)' => r \in ToSet(walked')
      BY <1>1, <3>1 DEF At
    <3> QED
      BY <1>1, <1>6, <1>7, <2>2, <3>1, <3>2 DEF WalkIsWhole
  <2> QED
    BY <2>1, <2>2
<1> QED
  BY <1>4, <1>5, <1>8 DEF PagesInv

(* A walk that goes on shows the rows beyond those it has shown. *)
LEMMA WalkGoesOn ==
  ASSUME NEW w \in Seq(Ids), w # <<>>, Ascending(w), NEW c \in Ids, c = Last(w),
         NEW B \in SUBSET Ids, \A r \in B : At(r) > At(c), NEW s \in Seq(B), Ascending(s)
  PROVE  /\ w \o s \in Seq(Ids) /\ Ascending(w \o s) /\ w \o s # <<>>
         /\ s # <<>> => Last(w \o s) = Last(s)
         /\ \A r \in ToSet(w) \cup ToSet(s) : r \in ToSet(w \o s)
<1> DEFINE t == w \o s
           m == Len(w)
           n == Len(s)
<1>1. /\ m \in Nat \ {0} /\ n \in Nat /\ DOMAIN w = 1..m /\ DOMAIN s = 1..n /\ s \in Seq(Ids)
      /\ s # <<>> => n # 0
  BY LenProperties, EmptySeq, SeqOfIds
<1>2. /\ t \in Seq(Ids) /\ Len(t) = m + n
      /\ \A i \in 1..(m + n) : t[i] = IF i <= m THEN w[i] ELSE s[i - m]
  BY <1>1, ConcatProperties
<1>3. DOMAIN t = 1..(m + n)
  BY <1>2, LenProperties
<1>4. /\ \A i \in 1..m : At(w[i]) \in Nat /\ At(w[i]) <= At(c)
      /\ \A i \in 1..n : At(s[i]) \in Nat /\ At(c) < At(s[i])
      /\ At(c) \in Nat
  <2>1. \A i \in 1..m : w[i] \in Ids
    BY <1>1, ElementOfSeq
  <2>2. \A i \in 1..n : s[i] \in B
    BY <1>1, ElementOfSeq
  <2>3. \A r \in Ids : At(r) \in Nat
    BY PlaceType
  <2>4. ASSUME NEW i \in 1..m PROVE At(w[i]) <= At(c)
    <3>1. w[m] = c /\ m \in DOMAIN w /\ i \in DOMAIN w
      BY <1>1 DEF Last
    <3>2. i < m => At(w[i]) <= At(w[m])
      BY <3>1 DEF Ascending
    <3> QED
      BY <1>1, <2>1, <2>3, <3>1, <3>2
  <2> QED
    BY <2>1, <2>2, <2>3, <2>4
<1> HIDE DEF t, m, n
<1>5. Ascending(t)
  <2> SUFFICES ASSUME NEW i \in 1..(m + n), NEW j \in 1..(m + n), i < j
               PROVE  At(t[i]) <= At(t[j]) /\ t[i] # t[j]
    BY <1>3 DEF Ascending
  <2>1. CASE j <= m
    <3>1. i \in 1..m /\ j \in 1..m
      BY <1>1, <2>1
    <3>2. At(w[i]) <= At(w[j]) /\ w[i] # w[j]
      BY <1>1, <3>1 DEF Ascending
    <3> QED
      BY <1>2, <3>1, <3>2
  <2>2. CASE i <= m /\ ~(j <= m)
    <3>1. i \in 1..m /\ j - m \in 1..n
      BY <1>1, <2>2
    <3>2. /\ At(w[i]) <= At(c) /\ At(c) < At(s[j - m])
          /\ At(w[i]) \in Nat /\ At(s[j - m]) \in Nat /\ At(c) \in Nat
      BY <1>4, <3>1
    <3>3. t[i] = w[i] /\ t[j] = s[j - m]
      BY <1>2, <2>2
    <3> QED
      BY <3>2, <3>3
  <2>3. CASE ~(i <= m)
    <3>1. i - m \in 1..n /\ j - m \in 1..n /\ i - m < j - m /\ ~(j <= m)
      BY <1>1, <2>3
    <3>2. At(s[i - m]) <= At(s[j - m]) /\ s[i - m] # s[j - m]
      BY <1>1, <3>1 DEF Ascending
    <3> QED
      BY <1>2, <2>3, <3>1, <3>2
  <2> QED
    BY <1>1, <2>1, <2>2, <2>3
<1>6. t # <<>> /\ (s # <<>> => Last(t) = Last(s))
  <2>1. t # <<>>
    BY <1>1, <1>2, EmptySeq
  <2>2. ASSUME s # <<>> PROVE t[m + n] = s[n]
    <3>1. PICK k \in 1..(m + n) : k = m + n /\ ~(k <= m) /\ k - m = n
      BY <1>1, <2>2
    <3>2. t[k] = s[k - m]
      BY <1>2, <3>1
    <3> QED
      BY <3>1, <3>2
  <2> QED
    BY <1>2, <2>1, <2>2 DEF Last, n
<1>7. ASSUME NEW r \in ToSet(w) \cup ToSet(s) PROVE r \in ToSet(t)
  <2>1. CASE r \in ToSet(w)
    <3>1. PICK i \in 1..m : w[i] = r
      BY <1>1, <2>1 DEF ToSet
    <3>2. i \in 1..(m + n) /\ t[i] = r
      BY <1>1, <1>2, <3>1
    <3> QED
      BY <1>3, <3>2 DEF ToSet
  <2>2. CASE r \in ToSet(s)
    <3>1. PICK i \in 1..n : s[i] = r
      BY <1>1, <2>2 DEF ToSet
    <3>2. PICK k \in 1..(m + n) : ~(k <= m) /\ k - m = i
      <4>1. i + m \in 1..(m + n) /\ ~(i + m <= m) /\ (i + m) - m = i
        BY <1>1, <3>1
      <4> QED
        BY <4>1
    <3>3. t[k] = r
      BY <1>2, <3>1, <3>2
    <3> QED
      BY <1>3, <3>2, <3>3 DEF ToSet
  <2> QED
    BY <2>1, <2>2
<1> QED
  BY <1>2, <1>5, <1>6, <1>7 DEF t

LEMMA FollowKeeps ==
  ASSUME PagesInv, NEW cursor \in {page.next, page.previous}, Follow(cursor),
         cursor = page.next \/ cursor.reverse
  PROVE  PagesInv'
<1>1. /\ TypeOK /\ CursorsAreOfThePage /\ WalkIsWhole
      /\ cursor # None
      /\ strayed' = (strayed \/ cursor.reverse \/ ~GoesOnFrom(cursor.id))
      /\ IF strayed' THEN walked' = <<>> /\ whole' = {}
         ELSE walked' = walked \o page'.records /\ whole' = whole
      /\ style' = style /\ row' = row /\ moves' = moves
  BY DEF PagesInv, Follow
<1>2. PICK by \in Orders : page' = Answer(cursor, by)
  BY DEF Follow
<1>3. cursor \in Cursors /\ cursor.id \in Ids /\ cursor.reverse \in BOOLEAN /\ Ordered(by)
  <2>1. cursor \in Cursors
    BY <1>1 DEF TypeOK
  <2> QED
    BY <2>1, OrdersAreOrdered DEF Cursors
<1>4. /\ page' \in PageType /\ Ascending(page'.records) /\ Ascending(page.records)'
      /\ Len(page'.records) <= PageSize
      /\ page'.records \in Seq(Ids) /\ CursorsAreOfThePage'
      /\ GoesOn(cursor) => ShowsOn(page', cursor, by)
  BY <1>1, <1>2, <1>3, AnswerKeeps
<1>5. strayed' \in BOOLEAN
  BY <1>1, <1>3 DEF TypeOK, GoesOnFrom
<1>6. CASE strayed'
  <2>1. walked' = <<>> /\ whole' = {} /\ <<>> \in Seq(Ids)
    BY <1>1, <1>6, EmptySeq
  <2>2. TypeOK'
    BY <1>1, <1>4, <1>5, <2>1 DEF TypeOK, PageType
  <2>3. WalkIsWhole'
    BY <1>6 DEF WalkIsWhole
  <2> QED
    BY <1>4, <2>2, <2>3 DEF PagesInv
<1>7. CASE ~strayed'
  <2>1. /\ ~strayed /\ ~cursor.reverse /\ GoesOnFrom(cursor.id)
        /\ walked' = walked \o page'.records /\ whole' = whole
    BY <1>1, <1>7
  <2>2. cursor = page.next /\ GoesOn(cursor)
    BY <2>1 DEF GoesOn, Forward
  <2>3. /\ walked \in Seq(Ids) /\ Ascending(walked) /\ walked # <<>> /\ cursor.id = Last(walked)
        /\ whole \subseteq Matching /\ whole \subseteq Ids
        /\ \A i \in whole : At(i) < At(cursor.id) => i \in ToSet(walked)
    BY <1>1, <2>1, <2>2 DEF TypeOK, WalkIsWhole
  <2> DEFINE B == Beyond(cursor, by)
  <2>4. B = {i \in Matching : by[i] > by[cursor.id]} /\ B \in SUBSET Ids /\ Matching \in SUBSET Ids
    BY <1>1, <1>3, <2>1, RowsAreIds DEF Beyond, Forward
  <2>5. /\ page'.records \in Seq(B)
        /\ IF page'.next = None THEN B \subseteq ToSet(page'.records)
           ELSE /\ page'.records # <<>> /\ page'.next.id = Last(page'.records)
                /\ \A r \in B : At(r) < At(page'.next.id) => r \in ToSet(page'.records)
    BY <1>4, <2>2 DEF ShowsOn
  <2> HIDE DEF B
  (* No other row is at the place of the cursor: what is beyond it is at a later one. *)
  <2>6. \A r \in Matching :
          r = cursor.id \/ At(r) < At(cursor.id) \/ (r \in B /\ At(r) > At(cursor.id))
    <3> SUFFICES ASSUME NEW r \in Matching, r # cursor.id
                 PROVE  At(r) < At(cursor.id) \/ (r \in B /\ At(r) > At(cursor.id))
      OBVIOUS
    <3>1. /\ At(r) \in Nat /\ At(cursor.id) \in Nat /\ by[r] \in Nat /\ by[cursor.id] \in Nat
          /\ At(cursor.id) < At(r) => by[cursor.id] < by[r]
      BY <1>3, <2>4, PlaceType DEF Ordered
    <3>2. At(r) # At(cursor.id)
      <4>1. CASE style = "managed"
        BY <3>1, <4>1 DEF At
      <4>2. CASE style # "managed"
        BY <2>1, <4>2 DEF GoesOnFrom, Alone
      <4> QED
        BY <4>1, <4>2
    <3> QED
      BY <2>4, <3>1, <3>2
  <2>7. \A r \in B : At(r) > At(cursor.id)
    <3> SUFFICES ASSUME NEW r \in B PROVE At(r) > At(cursor.id)
      OBVIOUS
    <3>1. /\ r \in Matching /\ r \in Ids /\ by[r] > by[cursor.id]
          /\ by[r] \in Nat /\ by[cursor.id] \in Nat
          /\ At(r) < At(cursor.id) => by[r] < by[cursor.id]
      BY <1>3, <2>4 DEF Ordered
    <3> QED
      BY <2>6, <3>1
  <2>8. /\ walked' \in Seq(Ids) /\ Ascending(walked') /\ walked' # <<>>
        /\ page'.records # <<>> => Last(walked') = Last(page'.records)
        /\ \A r \in ToSet(walked) \cup ToSet(page'.records) : r \in ToSet(walked')
    <3> DEFINE s == page'.records
               c == cursor.id
    <3>1. \A r \in B : At(r) > At(c)
      BY <2>7
    <3>2. c \in Ids /\ B \in SUBSET Ids /\ s \in Seq(B) /\ Ascending(s) /\ c = Last(walked)
      BY <1>3, <1>4, <2>3, <2>4, <2>5
    <3> HIDE DEF s, c
    <3>3. /\ walked \o s \in Seq(Ids) /\ Ascending(walked \o s) /\ walked \o s # <<>>
          /\ s # <<>> => Last(walked \o s) = Last(s)
          /\ \A r \in ToSet(walked) \cup ToSet(s) : r \in ToSet(walked \o s)
      BY <2>3, <3>1, <3>2, WalkGoesOn
    <3> QED
      BY <2>1, <3>3 DEF s
  <2>9. \A i \in whole : i \in ToSet(walked) \/ i \in B
    <3>1. cursor.id \in ToSet(walked)
      BY <2>3, EmptySeq, LenProperties DEF Last, ToSet
    <3> QED
      BY <2>3, <2>6, <3>1
  <2>10. Matching' = Matching /\ Ascending(walked)' /\ \A r : At(r)' = At(r)
    BY <1>1, <2>8 DEF Matching, At, Ascending
  <2>11. WalkIsWhole'
    <3>1. CASE page'.next = None
      <4>1. whole \subseteq ToSet(walked')
        BY <2>5, <2>8, <2>9, <3>1
      <4> QED
        BY <2>1, <2>3, <2>10, <3>1, <4>1 DEF WalkIsWhole
    <3>2. CASE page'.next # None
      <4>1. page'.next.id = Last(walked')
        BY <2>5, <2>8, <3>2
      <4>2. \A i \in whole : At(i) < At(page'.next.id) => i \in ToSet(walked')
        BY <2>5, <2>8, <2>9, <3>2
      <4>3. \A i \in whole' : At(i)' < At(page.next.id)' => i \in ToSet(walked')
        BY <1>1, <2>1, <4>2 DEF At
      <4> QED
        BY <2>1, <2>3, <2>8, <2>10, <3>2, <4>1, <4>3 DEF WalkIsWhole
    <3> QED
      BY <3>1, <3>2
  <2>12. TypeOK'
    BY <1>1, <1>4, <1>5, <2>1, <2>3, <2>8 DEF TypeOK, PageType
  <2> QED
    BY <1>4, <2>11, <2>12 DEF PagesInv
<1> QED
  BY <1>6, <1>7

LEMMA MoveKeeps ==
  ASSUME PagesInv, NEW i \in Ids, NEW to \in {"in", "out", "gone"}, Move(i, to)
  PROVE  PagesInv'
<1>1. /\ TypeOK /\ CursorsAreOfThePage /\ WalkIsWhole
      /\ moves < MaxMoves /\ moves' = moves + 1 /\ row' = [row EXCEPT ![i] = to]
      /\ whole' = whole \ {i}
      /\ style' = style /\ page' = page /\ walked' = walked /\ strayed' = strayed
  BY DEF PagesInv, Move
<1>2. TypeOK'
  <2>1. row' \in [Ids -> {"in", "out", "gone", "absent"}] /\ moves' \in 0..MaxMoves
    BY <1>1, PagesConstants DEF TypeOK
  <2>2. Ascending(page.records)'
    BY <1>1 DEF TypeOK, Ascending, At
  <2> QED
    BY <1>1, <2>1, <2>2 DEF TypeOK
<1>3. CursorsAreOfThePage'
  BY <1>1 DEF CursorsAreOfThePage
<1>4. \A j \in Matching : j # i => j \in Matching'
  BY <1>1 DEF Matching, TypeOK
<1>5. WalkIsWhole'
  BY <1>1, <1>4 DEF WalkIsWhole, Ascending, At
<1> QED
  BY <1>2, <1>3, <1>5 DEF PagesInv

LEMMA NextKeeps == PagesInv /\ [Next]_vars => PagesInv'
<1> SUFFICES ASSUME PagesInv, [Next]_vars PROVE PagesInv'
  OBVIOUS
<1>1. CASE Start
  BY <1>1, StartKeeps
<1>2. CASE NextPage
  BY <1>2, FollowKeeps DEF NextPage
<1>3. CASE PreviousPage
  <2>1. page.previous # None /\ page.previous.reverse
    BY <1>3 DEF PreviousPage, Follow, PagesInv, CursorsAreOfThePage
  <2> QED
    BY <1>3, <2>1, FollowKeeps DEF PreviousPage
<1>4. ASSUME NEW i \in Ids, Enter(i) \/ Leave(i) \/ Delete(i) PROVE PagesInv'
  BY <1>4, MoveKeeps DEF Enter, Leave, Delete
<1>5. CASE UNCHANGED vars
  BY <1>5 DEF vars, walk, PagesInv, TypeOK, CursorsAreOfThePage, WalkIsWhole, Matching,
              Ascending, At
<1> QED
  BY <1>1, <1>2, <1>3, <1>4, <1>5 DEF Next

-----------------------------------------------------------------------------
(* Theorems *)

(* Whatever rows come and go between two requests, the cursors of a page face outwards, and a *)
(* walk that went only forward has shown every row that was there all the time up to the      *)
(* place of the cursor it would go on from. Of a list read with Prisma that is said while the *)
(* row of each cursor still matches and no other sync shares its place.                       *)
THEOREM WalksAreWhole == Spec => []PagesInv
<1>1. Init => PagesInv
  BY InitPages
<1>2. PagesInv /\ [Next]_vars => PagesInv'
  BY NextKeeps
<1> QED
  BY <1>1, <1>2, PTL DEF Spec

(* A page is in order and no longer than asked for, whichever way it was read. *)
THEOREM PagesAreInOrder == Spec => []TypeOK
<1>1. PagesInv => TypeOK
  BY DEF PagesInv
<1> QED
  BY <1>1, WalksAreWhole, PTL

(* Going forward to the end shows each row that was there all the time, and none twice. Syncs *)
(* may share places on a page and at its start; a page that ends at a shared place ends the   *)
(* promise, whatever order the next query answers in.                                         *)
THEOREM ForwardShowsAll == Spec => []ForwardWalksShowAll
<1>1. PagesInv => ForwardWalksShowAll
  BY DEF PagesInv, WalkIsWhole, ForwardWalksShowAll
<1> QED
  BY <1>1, WalksAreWhole, PTL

(* The page before a page of syncs or sync runs ends where that page begins, whatever order *)
(* the reversed query answers in, if its first row matches and shares its place with none.  *)
THEOREM PreviousPagesAdjoin == Spec => ListsStepBack
<1>1. PagesInv /\ [Next]_vars =>
        [style # "managed" /\ PreviousPage /\ GoesOnFrom(page.previous.id) => StepsBack]_vars
  <2> SUFFICES ASSUME PagesInv, style # "managed", PreviousPage, GoesOnFrom(page.previous.id),
                      page'.records # <<>>
               PROVE  Adjacent(page'.records, page.records)
    BY DEF StepsBack
  <2>1. /\ page.previous # None /\ page.previous.reverse /\ page.previous \in Cursors
        /\ page.previous.id = Head(page.records)
        /\ page.previous.id \in Matching /\ Alone(page.previous.id)
    BY DEF PreviousPage, Follow, PagesInv, CursorsAreOfThePage, TypeOK, GoesOnFrom
  <2>2. PICK by \in Orders : page' = PrismaPage(page.previous, by)
    BY DEF PreviousPage, Follow, Answer
  <2>3. ~Forward(page.previous) /\ Ordered(by)
    BY <2>1, OrdersAreOrdered DEF Forward
  <2> QED
    BY <2>1, <2>2, <2>3, PrismaStepsBack DEF Adjacent
<1> QED
  BY <1>1, WalksAreWhole, PTL DEF Spec, ListsStepBack

=============================================================================
