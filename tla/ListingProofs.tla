---------------------------- MODULE ListingProofs ----------------------------
(* Proofs about the listings of providers, for any records, pages of any size, every way *)
(* of listing that Policy has and any times up to the bound.                              *)
EXTENDS ListingInvariant, FiniteSetTheorems, WellFoundedInduction, TLAPS

-----------------------------------------------------------------------------
(* Finite sets *)

(* A finite set has an element that no other is below. *)
LEMMA LeastExists ==
  ASSUME NEW S, IsFiniteSet(S), S # {}, NEW R,
         \A a, b, c \in S : <<a, b>> \in R /\ <<b, c>> \in R => <<a, c>> \in R,
         \A a \in S : <<a, a>> \notin R
  PROVE  \E r \in S : \A q \in S : <<q, r>> \notin R
<1> DEFINE Below(r) == {q \in S : <<q, r>> \in R}
           Belows == {Below(r) : r \in S}
<1>1. Belows \subseteq FiniteSubsetsOf(S) /\ Belows # {}
  <2>1. ASSUME NEW r \in S PROVE Below(r) \in FiniteSubsetsOf(S)
    BY FS_Subset DEF FiniteSubsetsOf
  <2>2. \E r : r \in S
    OBVIOUS
  <2> HIDE DEF Below
  <2> QED
    BY <2>1, <2>2
<1>2. PICK B \in Belows : \A C \in Belows : <<C, B>> \notin StrictSubsetOrdering(S)
  <2> HIDE DEF Belows
  <2> QED
    BY <1>1, FS_StrictSubsetOrderingWellFounded, WFMin
<1>3. PICK r \in S : B = Below(r)
  OBVIOUS
<1>4. ASSUME NEW q \in S, <<q, r>> \in R PROVE FALSE
  <2>1. Below(q) \subseteq Below(r)
    BY <1>4
  <2>2. q \in Below(r) /\ q \notin Below(q)
    BY <1>4
  <2>3. <<Below(q), Below(r)>> \in StrictSubsetOrdering(S)
    BY <2>1, <2>2 DEF StrictSubsetOrdering
  <2> QED
    BY <1>2, <1>3, <2>3
<1> QED
  BY <1>4

(* A finite set of times has a latest one. *)
LEMMA LatestIsMember ==
  ASSUME NEW S \in SUBSET Nat, S # {}, NEW n \in Nat, \A t \in S : t <= n
  PROVE  Latest(S) \in S /\ \A u \in S : Latest(S) >= u
<1> DEFINE R == {p \in S \X S : p[1] > p[2]}
<1>1. IsFiniteSet(S)
  BY FS_BoundedSetOfNaturals
<1>2. \A a, b : <<a, b>> \in R <=> a \in S /\ b \in S /\ a > b
  OBVIOUS
<1>3. /\ \A a, b, c \in S : <<a, b>> \in R /\ <<b, c>> \in R => <<a, c>> \in R
      /\ \A a \in S : <<a, a>> \notin R
  BY <1>2
<1>4. PICK r \in S : \A q \in S : <<q, r>> \notin R
  <2> HIDE DEF R
  <2> QED
    BY <1>1, <1>3, LeastExists
<1>5. \A u \in S : r >= u
  <2> HIDE DEF R
  <2>1. ASSUME NEW u \in S PROVE ~(u > r)
    BY <1>2, <1>4
  <2> QED
    BY <2>1
<1> QED
  BY <1>5 DEF Latest

-----------------------------------------------------------------------------
(* The order of records *)

(* Whatever the order of the pages is, it is strict and total. *)
LEMMA PrecedesIsOrder ==
  ASSUME TypeOK
  PROVE  /\ \A r \in Records : ~Precedes(Key(r), Key(r))
         /\ \A q, r \in Records : q # r => Precedes(Key(q), Key(r)) \/ Precedes(Key(r), Key(q))
         /\ \A p, q, r \in Records :
              Precedes(Key(p), Key(q)) /\ Precedes(Key(q), Key(r)) => Precedes(Key(p), Key(r))
<1>1. \A r \in Records : r \in Nat /\ source[r].at \in Nat
  BY ListingConstants DEF TypeOK, Version
<1>2. CASE run.stage = "archived" \/ run.how.order \in {"id", "fixed"}
  BY <1>1, <1>2 DEF Precedes, Key
<1>3. CASE ~(run.stage = "archived" \/ run.how.order \in {"id", "fixed"}) /\ run.how.order = "oldest"
  BY <1>1, <1>3 DEF Precedes, Key
<1>4. CASE ~(run.stage = "archived" \/ run.how.order \in {"id", "fixed"}) /\ run.how.order # "oldest"
  BY <1>1, <1>4 DEF Precedes, Key
<1> QED
  BY <1>2, <1>3, <1>4

(* The position of a record is the number of those before it, and keeps their order. *)
LEMMA PositionType ==
  ASSUME NEW S \in SUBSET Records, NEW r
  PROVE  /\ IsFiniteSet({q \in S : Precedes(Key(q), Key(r))})
         /\ Position(r, S) \in Nat
<1>1. {q \in S : Precedes(Key(q), Key(r))} \in SUBSET Records
  OBVIOUS
<1>2. IsFiniteSet({q \in S : Precedes(Key(q), Key(r))})
  BY <1>1, ListingConstants, FS_Subset
<1> QED
  BY <1>2, FS_CardinalityType DEF Position

LEMMA PositionKeepsOrder ==
  ASSUME TypeOK, NEW S \in SUBSET Records, NEW q \in S, NEW r \in S, Precedes(Key(q), Key(r))
  PROVE  Position(q, S) < Position(r, S)
<1> DEFINE Q == {p \in S : Precedes(Key(p), Key(q))}
           R == {p \in S : Precedes(Key(p), Key(r))}
<1>1. Q \in SUBSET R /\ q \in R /\ q \notin Q
  BY PrecedesIsOrder
<1>2. IsFiniteSet(R) /\ IsFiniteSet(Q) /\ Cardinality(R) \in Nat /\ Cardinality(Q) \in Nat
  BY PositionType, FS_CardinalityType
<1>3. Cardinality(Q) <= Cardinality(R) /\ Cardinality(Q) # Cardinality(R)
  <2> HIDE DEF Q, R
  <2> QED
    BY <1>1, <1>2, FS_Subset
<1> QED
  BY <1>2, <1>3 DEF Position

(* So a record of lower position comes first. *)
LEMMA LowerComesFirst ==
  ASSUME TypeOK, NEW S \in SUBSET Records, NEW q \in S, NEW r \in S,
         Position(q, S) < Position(r, S)
  PROVE  Precedes(Key(q), Key(r))
<1>1. Position(q, S) \in Nat /\ Position(r, S) \in Nat
  BY PositionType
<1>2. q # r
  BY <1>1
<1>3. CASE Precedes(Key(r), Key(q))
  BY <1>1, <1>3, PositionKeepsOrder
<1> QED
  BY <1>2, <1>3, PrecedesIsOrder

(* A set of records has a first one and a last one. *)
LEMMA EndsExist ==
  ASSUME TypeOK, NEW S \in SUBSET Records, S # {}
  PROVE  /\ \E r \in S : \A q \in S : ~Precedes(Key(q), Key(r))
         /\ \E r \in S : \A q \in S : q = r \/ Precedes(Key(q), Key(r))
<1> DEFINE R == {p \in S \X S : Precedes(Key(p[1]), Key(p[2]))}
           I == {p \in S \X S : Precedes(Key(p[2]), Key(p[1]))}
<1>1. IsFiniteSet(S)
  BY ListingConstants, FS_Subset
<1>2. \A a, b \in S : /\ <<a, b>> \in R <=> Precedes(Key(a), Key(b))
                      /\ <<a, b>> \in I <=> Precedes(Key(b), Key(a))
  OBVIOUS
<1>3. \E r \in S : \A q \in S : <<q, r>> \notin R
  <2>1. /\ \A a, b, c \in S : <<a, b>> \in R /\ <<b, c>> \in R => <<a, c>> \in R
        /\ \A a \in S : <<a, a>> \notin R
    <3> HIDE DEF R
    <3> QED
      BY <1>2, PrecedesIsOrder
  <2> HIDE DEF R
  <2> QED
    BY <1>1, <2>1, LeastExists
<1>4. \E r \in S : \A q \in S : <<q, r>> \notin I
  <2>1. /\ \A a, b, c \in S : <<a, b>> \in I /\ <<b, c>> \in I => <<a, c>> \in I
        /\ \A a \in S : <<a, a>> \notin I
    <3> HIDE DEF I
    <3> QED
      BY <1>2, PrecedesIsOrder
  <2> HIDE DEF I
  <2> QED
    BY <1>1, <2>1, LeastExists
<1> HIDE DEF R, I
<1> QED
  BY <1>2, <1>3, <1>4, PrecedesIsOrder

-----------------------------------------------------------------------------
(* Pages *)

LEMMA PageIsOfRecords ==
  ASSUME TypeOK
  PROVE  /\ NextPage \subseteq Rest /\ Rest \subseteq InPages /\ InPages \subseteq Records
         /\ \A S \in SUBSET InPages : IsFiniteSet(S) /\ Cardinality(S) \in Nat
<1>1. NextPage \subseteq Rest
  BY DEF NextPage
<1>2. Rest \subseteq InPages
  BY DEF Rest
<1>3. InPages \subseteq Records
  BY DEF InPages, InPass
<1>4. ASSUME NEW S \in SUBSET InPages PROVE IsFiniteSet(S) /\ Cardinality(S) \in Nat
  BY <1>3, <1>4, ListingConstants, FS_Subset, FS_CardinalityType
<1> QED
  BY <1>1, <1>2, <1>3, <1>4

(* Before anything is read, everything is left. *)
LEMMA AllIsLeft == ASSUME TypeOK, run.at = 0 PROVE Rest = InPages
<1>1. \A r : Position(r, InPages) \in Nat
  BY PageIsOfRecords, PositionType
<1> QED
  BY <1>1 DEF Rest

(* An empty page ends a pass that has come past everything. *)
LEMMA EmptyPageIsTheEnd ==
  ASSUME TypeOK, NextPage = {}, NEW r \in InPages
  PROVE  ReadSoFar(r)
<1>1. run.at \in Nat /\ Position(r, InPages) \in Nat
  BY PageIsOfRecords, PositionType DEF TypeOK, Run
<1>2. CASE run.how.order = "fixed"
  <2>1. run.at # 0
    BY <1>2, AllIsLeft DEF NextPage
  <2> QED
    BY <1>2, <2>1 DEF ReadSoFar
<1>3. CASE run.how.order # "fixed"
  <2>1. ASSUME Rest # {} PROVE FALSE
    <3>1. PICK q \in Rest : \A p \in Rest : ~Precedes(Key(p), Key(q))
      BY <2>1, PageIsOfRecords, EndsExist
    <3>2. {p \in Rest : Precedes(Key(p), Key(q))} = {}
      BY <3>1
    <3>3. Position(q, Rest) = 0
      BY <3>2, FS_EmptySet DEF Position
    <3> QED
      BY <1>3, <3>3, ListingConstants DEF NextPage
  <2> QED
    BY <1>1, <1>3, <2>1 DEF Rest, ReadSoFar
<1> QED
  BY <1>2, <1>3

(* On a page are the first of those that are left. *)
LEMMA PageIsFirst ==
  ASSUME TypeOK, run.how.order # "fixed", NEW q \in NextPage, NEW r \in Rest \ NextPage
  PROVE  Precedes(Key(q), Key(r))
<1>1. Position(q, Rest) < PageSize /\ ~(Position(r, Rest) < PageSize)
  BY DEF NextPage
<1>2. Position(q, Rest) \in Nat /\ Position(r, Rest) \in Nat
  BY PageIsOfRecords, PositionType
<1>3. Position(q, Rest) < Position(r, Rest)
  BY <1>1, <1>2, ListingConstants
<1> QED
  BY <1>3, PageIsOfRecords, LowerComesFirst

(* A cursor after the last record of a page leaves what the page did not have. *)
LEMMA KeyLeavesTheRest ==
  ASSUME TypeOK, NextPage # {}, run.how.order # "fixed", ~Counts,
         NEW r \in InPages, r \notin NextPage, ~ReadSoFar(r)
  PROVE  Precedes(LastKey(NextPage), Key(r))
<1>1. r \in Rest
  BY DEF Rest, ReadSoFar
<1> DEFINE IsLast(m) == \A q \in NextPage : q = m \/ Precedes(Key(q), Key(m))
           m == CHOOSE m \in NextPage : IsLast(m)
<1>2. \E n \in NextPage : IsLast(n)
  BY PageIsOfRecords, EndsExist
<1>3. m \in NextPage
  BY <1>2
<1>4. LastKey(NextPage) = Key(m)
  BY DEF LastKey
<1> QED
  BY <1>1, <1>3, <1>4, PageIsFirst

(* A page is as many records as the count moves by. *)
LEMMA CountLeavesTheRest ==
  ASSUME TypeOK, run.how.order # "fixed", Counts, Cardinality(Before(run.at)) = run.at
  PROVE  LET n == run.at + Cardinality(NextPage)
         IN  Before(n) = Before(run.at) \cup NextPage /\ Cardinality(Before(n)) = n
<1> DEFINE L == Before(run.at)
           P == NextPage
<1>1. /\ L \subseteq InPages /\ P \subseteq InPages /\ Rest = InPages \ L
      /\ run.at \in Nat /\ L \cap P = {}
  <2>1. \A r \in InPages : Position(r, InPages) \in Nat
    BY PageIsOfRecords, PositionType
  <2>2. run.at \in Nat
    BY DEF TypeOK, Run
  <2> QED
    BY <2>1, <2>2, PageIsOfRecords DEF Before, Rest
<1>2. /\ IsFiniteSet(L) /\ IsFiniteSet(P)
      /\ Cardinality(P) \in Nat /\ Cardinality(L \cup P) = run.at + Cardinality(P)
  <2>1. IsFiniteSet(L) /\ IsFiniteSet(P) /\ Cardinality(P) \in Nat
    BY <1>1, PageIsOfRecords
  <2>2. Cardinality(L \cap P) = 0
    BY <1>1, FS_EmptySet
  <2>3. Cardinality(L \cup P) = Cardinality(L) + Cardinality(P) - Cardinality(L \cap P)
    BY <2>1, FS_Union
  <2> QED
    BY <1>1, <2>1, <2>2, <2>3
<1>3. ASSUME NEW q \in L, NEW r \in Rest PROVE Precedes(Key(q), Key(r))
  <2>1. Position(q, InPages) < run.at /\ ~(Position(r, InPages) < run.at) /\ r \in InPages
    BY <1>1 DEF Before
  <2>2. Position(q, InPages) \in Nat /\ Position(r, InPages) \in Nat
    BY PageIsOfRecords, PositionType
  <2>3. Position(q, InPages) < Position(r, InPages)
    BY <1>1, <2>1, <2>2
  <2> QED
    BY <1>1, <2>1, <2>3, PageIsOfRecords, LowerComesFirst
<1>4. ASSUME NEW r \in Rest PROVE Position(r, InPages) = run.at + Position(r, Rest)
  <2> DEFINE A == {q \in InPages : Precedes(Key(q), Key(r))}
             B == {q \in Rest : Precedes(Key(q), Key(r))}
  <2>1. A = L \cup B /\ L \cap B = {}
    BY <1>1, <1>3
  <2>2. IsFiniteSet(B) /\ Cardinality(B) \in Nat
    BY PageIsOfRecords
  <2>3. Cardinality(L \cap B) = 0
    BY <2>1, FS_EmptySet
  <2>4. Cardinality(L \cup B) = Cardinality(L) + Cardinality(B) - Cardinality(L \cap B)
    BY <1>2, <2>2, FS_Union
  <2>5. Cardinality(L) = run.at
    OBVIOUS
  <2>6. Cardinality(A) = run.at + Cardinality(B)
    <3> HIDE DEF A, B, L
    <3> QED
      BY <1>1, <2>1, <2>2, <2>3, <2>4, <2>5
  <2> QED
    BY <2>6 DEF Position
<1>5. ASSUME NEW r \in P PROVE Position(r, Rest) < Cardinality(P)
  <2> DEFINE B == {q \in Rest : Precedes(Key(q), Key(r))}
  <2>1. B \subseteq P
    <3>1. ASSUME NEW q \in B, q \notin P PROVE FALSE
      <4>1. Precedes(Key(r), Key(q))
        BY <3>1, PageIsFirst
      <4> QED
        BY <4>1, PageIsOfRecords, PrecedesIsOrder
    <3> QED
      BY <3>1
  <2>2. r \in P /\ r \notin B
    BY PageIsOfRecords, PrecedesIsOrder
  <2>3. Cardinality(B) <= Cardinality(P) /\ Cardinality(B) # Cardinality(P) /\ Cardinality(B) \in Nat
    <3> HIDE DEF B, P
    <3> QED
      BY <1>2, <2>1, <2>2, FS_Subset, FS_CardinalityType
  <2> QED
    BY <1>2, <2>3 DEF Position
<1>6. ASSUME NEW r \in Rest \ P PROVE ~(Position(r, Rest) < Cardinality(P))
  <2> DEFINE B == {q \in Rest : Precedes(Key(q), Key(r))}
  <2>1. P \subseteq B
    BY PageIsFirst, PageIsOfRecords
  <2>2. IsFiniteSet(B) /\ Cardinality(B) \in Nat
    BY PageIsOfRecords
  <2>3. Cardinality(P) <= Cardinality(B)
    <3> HIDE DEF B, P
    <3> QED
      BY <2>1, <2>2, FS_Subset
  <2> QED
    BY <1>2, <2>2, <2>3 DEF Position
<1> DEFINE n == run.at + Cardinality(P)
<1>7. Before(n) = L \cup P
  <2>1. ASSUME NEW r \in L PROVE r \in Before(n)
    <3>1. Position(r, InPages) < run.at /\ Position(r, InPages) \in Nat /\ r \in InPages
      BY PageIsOfRecords, PositionType DEF Before
    <3> QED
      BY <1>1, <1>2, <3>1 DEF Before
  <2>2. ASSUME NEW r \in Rest PROVE r \in Before(n) <=> r \in P
    <3>1. Position(r, Rest) \in Nat
      BY PageIsOfRecords, PositionType
    <3>2. r \in Before(n) <=> Position(r, Rest) < Cardinality(P)
      BY <1>1, <1>2, <1>4, <3>1 DEF Before
    <3> QED
      BY <1>5, <1>6, <3>2
  <2>3. Before(n) \subseteq InPages
    BY DEF Before
  <2> HIDE DEF n
  <2> QED
    BY <1>1, <2>1, <2>2, <2>3, PageIsOfRecords
<1> QED
  BY <1>2, <1>7

-----------------------------------------------------------------------------
(* Types and tables *)

LEMMA AbsentIsVersion ==
  Absent \in Version /\ Absent.at = 0 /\ \A v \in Version : v.at \in Nat /\ v.at <= MaxClock
BY ListingConstants DEF Absent, Version

LEMMA RunTypes ==
  /\ Policy # {} /\ Usual \in Policy /\ HubspotSearch \in Policy
  /\ NoRun \in Run /\ NoRun.stage = "off" /\ NoRun.newest = 0
<1>1. Usual \in Policy
  BY DEF Usual, Policy
<1>2. HubspotSearch \in Policy
  BY DEF HubspotSearch, Hubspot, Usual, Policy
<1> QED
  BY <1>1, <1>2, ListingConstants DEF NoRun, Run

LEMMA InitSound == Init => Sound
<1> SUFFICES ASSUME Init PROVE Sound
  OBVIOUS
<1>1. policy \in Policy
  BY PolicyConstants DEF Init
<1>2. ghost \in Ghost /\ ghost.listed = [r \in Records |-> Absent]
  BY AbsentIsVersion DEF Init, NoGhost, Ghost
<1>3. /\ source \in [Records -> Version] /\ listed \in [Records -> Version]
      /\ dest \in [Records -> Version]
      /\ \A r \in Records : source[r] = Absent /\ listed[r] = Absent /\ dest[r] = Absent
  BY AbsentIsVersion DEF Init
<1>4. clock = 1 /\ run = NoRun /\ mark = 0 /\ quiet = TRUE /\ slipped = {}
  BY DEF Init
<1>5. TypeOK
  BY <1>1, <1>2, <1>3, <1>4, AbsentIsVersion, RunTypes, ListingConstants DEF TypeOK
<1> QED
  BY <1>2, <1>3, <1>4, <1>5, AbsentIsVersion, RunTypes
     DEF Init, Sound, TablesAreReal, MarkIsSince

LEMMA TickSound == ASSUME Sound, Tick PROVE Sound'
BY ListingConstants, AbsentIsVersion
   DEF Sound, TypeOK, TablesAreReal, MarkIsSince, Tick, Run, Ghost

LEMMA BecomesSound == ASSUME Sound, NEW r \in Records, NEW gone \in BOOLEAN, Becomes(r, gone) PROVE Sound'
<1> USE DEF Sound, TypeOK, TablesAreReal, MarkIsSince
<1>1. [at |-> clock, gone |-> gone] \in Version
  BY ListingConstants DEF Version
<1>2. /\ source' = [source EXCEPT ![r] = [at |-> clock, gone |-> gone]]
      /\ quiet' = FALSE /\ slipped' \subseteq Records
      /\ UNCHANGED <<policy, clock, run, listed, dest, mark, ghost>>
  BY DEF Becomes, Shifted
<1>3. /\ source' \in [Records -> Version]
      /\ \A q \in Records : source'[q].at = IF q = r THEN clock ELSE source[q].at
  BY <1>1, <1>2
<1>4. clock \in Nat /\ clock # 0
  BY ListingConstants
<1>5. TypeOK'
  <2>1. \A q \in Records : source'[q].at <= clock
    BY <1>3, <1>4
  <2>2. quiet' \in BOOLEAN
    BY <1>2
  <2> QED
    BY <1>2, <1>3, <2>1, <2>2
<1>6. TablesAreReal' /\ MarkIsSince'
  BY <1>1, <1>2, <1>3, <1>4, AbsentIsVersion
<1> QED
  BY <1>5, <1>6

LEMMA BeginSound == ASSUME Sound, NEW full \in BOOLEAN, Begin(full) PROVE Sound'
<1> DEFINE since == IF full THEN 0 ELSE mark
<1> USE DEF Sound, TypeOK, TablesAreReal, MarkIsSince
<1>1. since \in 0..clock /\ since \in 0..MaxClock
  BY ListingConstants
<1>2. Method(since) \in Policy
  BY RunTypes DEF Method
<1>3. run' = [NoRun EXCEPT !.stage = "live", !.full = full, !.since = since, !.how = Method(since)]
  BY DEF Begin
<1>4. /\ run' \in Run /\ run'.newest = 0 /\ run'.since = since /\ run'.full = full
      /\ run'.stage = "live"
  <2> HIDE DEF since
  <2> QED
    BY <1>1, <1>2, <1>3, RunTypes DEF NoRun, Run
<1>5. /\ mark' = since /\ quiet' = TRUE
      /\ UNCHANGED <<policy, source, clock, listed, dest, ghost, slipped>>
  BY DEF Begin
<1>6. TypeOK'
  BY <1>1, <1>4, <1>5
<1> QED
  BY <1>4, <1>5, <1>6, AbsentIsVersion

(* What ListPage reads. *)
LEMMA KeptIsReal ==
  ASSUME Sound, NEW r \in Kept(NextPage)
  PROVE  r \in Records /\ source[r].at # 0 /\ r \in NextPage /\ Stamp(r) \in 0..clock
<1>1. r \in NextPage /\ r \in InPages
  BY PageIsOfRecords DEF Kept, Sound
<1>2. r \in Records /\ source[r] # Absent
  BY <1>1 DEF InPages, InPass
<1>3. source[r].at # 0 /\ source[r].at \in 0..clock
  BY <1>2, AbsentIsVersion DEF Sound, TablesAreReal, TypeOK
<1> QED
  BY <1>1, <1>2, <1>3 DEF Stamp, Sound, TypeOK

LEMMA ListPageSound == ASSUME Sound, ListPage PROVE Sound'
<1> DEFINE kept == Kept(NextPage)
           times == {run.newest} \cup {Stamp(r) : r \in kept}
<1>1. /\ listed' = [r \in Records |->
                      IF r \in kept /\ source[r].at >= listed[r].at THEN source[r] ELSE listed[r]]
      /\ run' = [run EXCEPT !.at = @ + Cardinality(NextPage), !.last = LastKey(NextPage),
                            !.newest = Latest(times)]
      /\ NextPage # {} /\ run.stage # "off"
      /\ UNCHANGED <<policy, source, clock, dest, mark, ghost, quiet, slipped>>
  BY DEF ListPage
<1>2. Latest(times) \in 0..clock /\ Latest(times) \in 0..MaxClock
  <2>1. clock \in Nat /\ clock <= MaxClock /\ run.newest \in 0..clock
    BY ListingConstants DEF Sound, TypeOK, Run
  <2>2. \A t \in times : t \in 0..clock
    BY <2>1, KeptIsReal
  <2>3. times \in SUBSET Nat /\ times # {} /\ \A t \in times : t <= clock
    BY <2>1, <2>2
  <2> HIDE DEF times
  <2>4. Latest(times) \in times
    BY <2>1, <2>3, LatestIsMember
  <2> QED
    BY <2>1, <2>2, <2>4, ListingConstants
<1>3. Cardinality(NextPage) \in Nat
  BY PageIsOfRecords DEF Sound
<1>4. LastKey(NextPage) \in (0..MaxClock) \X Nat
  <2> DEFINE IsLast(m) == \A q \in NextPage : q = m \/ Precedes(Key(q), Key(m))
             m == CHOOSE m \in NextPage : IsLast(m)
  <2>1. \E n \in NextPage : IsLast(n)
    BY <1>1, PageIsOfRecords, EndsExist DEF Sound
  <2>2. m \in NextPage
    BY <2>1
  <2>3. LastKey(NextPage) = Key(m)
    BY DEF LastKey
  <2>4. m \in Records
    BY <2>2, PageIsOfRecords DEF Sound
  <2> HIDE DEF m
  <2> QED
    BY <2>3, <2>4, ListingConstants DEF Key, Sound, TypeOK, Version
<1>5. /\ run' \in Run /\ run'.newest \in 0..clock
      /\ run'.stage = run.stage /\ run'.since = run.since /\ run'.full = run.full
  <2> HIDE DEF times
  <2>1. run \in Run
    BY DEF Sound, TypeOK
  <2>2. run.at + Cardinality(NextPage) \in Nat
    BY <1>3, <2>1 DEF Run
  <2> QED
    BY <1>1, <1>2, <1>4, <2>1, <2>2 DEF Run
<1>6. /\ listed' \in [Records -> Version]
      /\ \A r \in Records : listed'[r].at <= source[r].at
      /\ \A r \in Records : source[r].at = 0 => listed'[r] = listed[r]
  <2> HIDE DEF kept
  <2>1. \A r \in kept : source[r].at # 0
    BY KeptIsReal DEF kept
  <2> QED
    BY <1>1, <2>1, AbsentIsVersion DEF Sound, TypeOK, TablesAreReal
<1>7. TypeOK'
  <2>1. \A r \in Records : source[r].at \in Nat /\ listed'[r].at \in Nat
    BY <1>6, AbsentIsVersion DEF Sound, TypeOK
  <2>2. \A r \in Records : listed'[r].at <= clock
    BY <1>6, <2>1, ListingConstants DEF Sound, TypeOK
  <2> QED
    BY <1>1, <1>5, <1>6, <2>2 DEF Sound, TypeOK
<1>8. TablesAreReal'
  BY <1>1, <1>5, <1>6 DEF Sound, TablesAreReal
<1> QED
  BY <1>1, <1>5, <1>7, <1>8 DEF Sound, MarkIsSince

LEMMA EndOfPassSound == ASSUME Sound, EndOfPass PROVE Sound'
<1>1. PICK stage \in {"archived", "write"} :
        run' = [run EXCEPT !.stage = stage, !.at = 0, !.last = <<0, 0>>]
  BY DEF EndOfPass, Sound, TypeOK, Run
<1>2. <<0, 0>> \in (0..MaxClock) \X Nat
  BY ListingConstants
<1>3. /\ run' \in Run /\ run'.newest = run.newest /\ run'.since = run.since /\ run'.full = run.full
      /\ run'.stage # "off" /\ run.stage # "off"
  BY <1>1, <1>2 DEF EndOfPass, Sound, TypeOK, Run
<1> QED
  BY <1>3 DEF EndOfPass, Sound, TypeOK, TablesAreReal, MarkIsSince

(* What a table leaves in the rows. *)
LEMMA WrittenIsSound ==
  ASSUME Sound, NEW table \in [Records -> Version], NEW deletes \in BOOLEAN,
         \A r \in Records : table[r].at <= clock,
         \A r \in Records : source[r].at = 0 => table[r] = Absent
  PROVE  LET rows == [r \in Records |-> Written(r, table, deletes)]
         IN  /\ rows \in [Records -> Version]
             /\ \A r \in Records : rows[r].at <= clock
             /\ \A r \in Records : source[r].at = 0 => rows[r] = Absent
<1>1. ASSUME NEW r \in Records
      PROVE  /\ Written(r, table, deletes) \in Version /\ Written(r, table, deletes).at <= clock
             /\ source[r].at = 0 => Written(r, table, deletes) = Absent
  <2>1. dest[r] \in Version /\ table[r] \in Version /\ dest[r].at <= clock
    BY DEF Sound, TypeOK
  <2>2. [dest[r] EXCEPT !.gone = TRUE] \in Version
        /\ [dest[r] EXCEPT !.gone = TRUE].at = dest[r].at
    BY <2>1 DEF Version
  <2>3. source[r].at = 0 => dest[r] = Absent
    BY DEF Sound, TablesAreReal
  <2> QED
    BY <2>1, <2>2, <2>3 DEF Written
<1> QED
  BY <1>1

LEMMA WritesSound == ASSUME Sound, EndRun \/ GhostWrites PROVE Sound'
<1> USE DEF Sound, TypeOK, TablesAreReal, MarkIsSince
<1>1. CASE EndRun
  <2> DEFINE rows == [r \in Records |-> Written(r, listed, Deletes)]
             m == IF run.full THEN run.newest ELSE Latest({run.newest, mark})
  <2>1. m \in 0..clock
    <3>1. run.newest \in 0..clock /\ mark \in 0..clock /\ clock \in Nat
      BY ListingConstants DEF Run
    <3>2. {run.newest, mark} \in SUBSET Nat /\ \A t \in {run.newest, mark} : t <= clock
      BY <3>1
    <3>3. Latest({run.newest, mark}) \in {run.newest, mark}
      BY <3>1, <3>2, LatestIsMember
    <3> QED
      BY <3>1, <3>3
  <2>2. /\ rows \in [Records -> Version] /\ \A r \in Records : rows[r].at <= clock
        /\ \A r \in Records : source[r].at = 0 => rows[r] = Absent
    BY WrittenIsSound DEF Deletes
  <2>3. /\ dest' = rows /\ mark' = m /\ slipped' \subseteq Records
        /\ run' = NoRun /\ listed' = [r \in Records |-> Absent]
        /\ UNCHANGED <<policy, source, clock, ghost, quiet>>
    BY <1>1 DEF EndRun, StillMissed
  <2> HIDE DEF rows, m
  <2> QED
    BY <2>1, <2>2, <2>3, RunTypes, AbsentIsVersion
<1>2. CASE GhostWrites
  <2> DEFINE rows == [r \in Records |-> Written(r, ghost.listed, ghost.deletes)]
  <2>1. /\ rows \in [Records -> Version] /\ \A r \in Records : rows[r].at <= clock
        /\ \A r \in Records : source[r].at = 0 => rows[r] = Absent
    BY WrittenIsSound DEF Ghost
  <2>2. /\ dest' = rows /\ slipped' \subseteq Records /\ ghost' = NoGhost /\ quiet' = FALSE
        /\ UNCHANGED <<policy, source, clock, run, listed, mark>>
    BY <1>2 DEF GhostWrites
  <2>3. NoGhost \in Ghost /\ \A r \in Records : NoGhost.listed[r] = Absent
    BY AbsentIsVersion DEF NoGhost, Ghost
  <2> HIDE DEF rows
  <2>4. TypeOK'
    BY <2>1, <2>2, <2>3
  <2>5. TablesAreReal'
    BY <2>1, <2>2, <2>3, AbsentIsVersion, ListingConstants
  <2> QED
    BY <2>2, <2>4, <2>5
<1> QED
  BY <1>1, <1>2

LEMMA StopsSound == ASSUME Sound, FailRun \/ GiveUp PROVE Sound'
<1> USE DEF Sound, TypeOK, TablesAreReal, MarkIsSince
<1>1. /\ run' = NoRun /\ listed' = [r \in Records |-> Absent] /\ slipped' \subseteq Records
      /\ UNCHANGED <<policy, source, clock, dest, mark, quiet>>
  BY DEF FailRun, GiveUp, StillMissed
<1>2. /\ ghost' \in Ghost /\ \A r \in Records : ghost'.listed[r].at <= clock
      /\ \A r \in Records : source[r].at = 0 => ghost'.listed[r] = Absent
  <2>1. CASE FailRun
    BY <2>1 DEF FailRun
  <2>2. CASE GiveUp
    <3>1. ghost' = [there |-> TRUE, listed |-> listed, deletes |-> Deletes]
      BY <2>2 DEF GiveUp
    <3>2. Deletes \in BOOLEAN
      BY DEF Deletes
    <3> QED
      BY <3>1, <3>2 DEF Ghost
  <2> QED
    BY <2>1, <2>2
<1> QED
  BY <1>1, <1>2, RunTypes, AbsentIsVersion

LEMMA NextSound == ASSUME Sound, [Next]_vars PROVE Sound'
<1>1. CASE Tick
  BY <1>1, TickSound
<1>2. CASE \E r \in Records : Change(r) \/ Delete(r)
  BY <1>2, BecomesSound DEF Change, Delete
<1>3. CASE \E full \in BOOLEAN : Begin(full)
  BY <1>3, BeginSound
<1>4. CASE ListPage
  BY <1>4, ListPageSound
<1>5. CASE EndOfPass
  BY <1>5, EndOfPassSound
<1>6. CASE EndRun \/ GhostWrites
  BY <1>6, WritesSound
<1>7. CASE FailRun \/ GiveUp
  BY <1>7, StopsSound
<1>8. CASE UNCHANGED vars
  BY <1>8 DEF vars, Sound, TypeOK, TablesAreReal, MarkIsSince
<1> QED
  BY <1>1, <1>2, <1>3, <1>4, <1>5, <1>6, <1>7, <1>8 DEF Next

(* Every value of the model has its type, and nothing that it holds is from the future. *)
THEOREM ListingTyped == Spec => []TypeOK
<1>1. Sound => TypeOK
  BY DEF Sound
<1> QED
  BY <1>1, InitSound, NextSound, PTL DEF Spec

-----------------------------------------------------------------------------
(* The open listing *)

(* Where nothing changes at the provider and the run stays where it is, so does the order. *)
LEMMA SameOrder ==
  ASSUME run'.stage = run.stage, run'.how = run.how, run'.since = run.since,
         policy' = policy, source' = source
  PROVE  /\ InPages' = InPages /\ (Counts' <=> Counts)
         /\ \A r \in Records : Position(r, InPages)' = Position(r, InPages)
<1>1. InPages' = InPages
  BY DEF InPages, InPass, FilteredBy, IsAfter
<1>2. Counts' <=> Counts
  BY DEF Counts
<1>3. \A q, r \in Records : Precedes(Key(q), Key(r))' <=> Precedes(Key(q), Key(r))
  BY DEF Precedes, Key
<1>4. InPages \subseteq Records
  BY DEF InPages, InPass
<1>5. ASSUME NEW r \in Records PROVE Position(r, InPages)' = Position(r, InPages)
  <2>1. {q \in InPages : Precedes(Key(q), Key(r))}' = {q \in InPages : Precedes(Key(q), Key(r))}
    BY <1>1, <1>3, <1>4
  <2> QED
    BY <2>1 DEF Position
<1> QED
  BY <1>1, <1>2, <1>5

(* So a step that leaves the listing alone, and at most takes records out of what it owes, *)
(* keeps what is known of it.                                                              *)
LEMMA OwesNoMore ==
  ASSUME DataSafe, run' = run, policy' = policy, source' = source, listed' = listed,
         quiet' => quiet, slipped \subseteq slipped'
  PROVE  (ListedIsCurrent /\ ReadIsListed /\ CountIsRight /\ PassesAreComplete)'
<1>1. \A r \in Records : Still(r)' => Still(r)
  BY DEF Still
<1>2. /\ InPages' = InPages /\ (Counts' <=> Counts) /\ InPages \subseteq Records
      /\ \A r \in Records : Position(r, InPages)' = Position(r, InPages)
  BY SameOrder DEF InPages, InPass
<1>3. \A r \in Records : ReadSoFar(r)' <=> ReadSoFar(r)
  BY <1>2 DEF ReadSoFar, Precedes, Key
<1>4. ListedIsCurrent'
  BY <1>1 DEF DataSafe, ListedIsCurrent
<1>5. ReadIsListed'
  BY <1>1, <1>2, <1>3 DEF DataSafe, ReadIsListed, Reading, IsAfter
<1>6. CountIsRight'
  <2>1. Undisturbed' => Undisturbed
    BY DEF Undisturbed
  <2>2. Before(run.at)' = Before(run.at)
    BY <1>2 DEF Before
  <2> QED
    BY <1>2, <2>1, <2>2 DEF DataSafe, CountIsRight
<1>7. PassesAreComplete'
  BY <1>1 DEF DataSafe, PassesAreComplete, ReadPasses, IsAfter
<1> QED
  BY <1>4, <1>5, <1>6, <1>7

LEMMA InitSafe == Init => DataSafe
BY RunTypes, AbsentIsVersion
   DEF Init, DataSafe, MarkIsSafe, ListedIsCurrent, ReadIsListed, Reading, CountIsRight, Counts,
       PassesAreComplete

LEMMA TickSafe == ASSUME Sound, DataSafe, Tick PROVE DataSafe'
<1>1. UNCHANGED <<policy, source, run, listed, dest, mark, ghost, quiet, slipped>>
  BY DEF Tick
<1>2. MarkIsSafe'
  BY <1>1 DEF DataSafe, MarkIsSafe, Delivered
<1> QED
  BY <1>1, <1>2, OwesNoMore DEF DataSafe

LEMMA BecomesSafe ==
  ASSUME Sound, DataSafe, NEW r \in Records, NEW gone \in BOOLEAN, Becomes(r, gone)
  PROVE  DataSafe'
<1>1. /\ source' = [source EXCEPT ![r] = [at |-> clock, gone |-> gone]]
      /\ slipped' = IF run.stage # "off" THEN slipped \cup Shifted(r)
                    ELSE IF clock <= mark THEN slipped \cup {r} ELSE slipped \ {r}
      /\ quiet' = FALSE
      /\ UNCHANGED <<policy, clock, run, listed, dest, mark, ghost>>
  BY DEF Becomes
<1>2. /\ source'[r].at = clock
      /\ \A q \in Records : q # r => source'[q] = source[q]
      /\ clock \in Nat /\ mark \in Nat
  BY <1>1, ListingConstants DEF Sound, TypeOK
<1>3. r \in Shifted(r)
  BY DEF Shifted
<1>4. MarkIsSafe'
  <2>1. ASSUME NEW q \in Records \ slipped', source'[q].at # 0, source'[q].at <= mark
        PROVE  q # r /\ q \notin slipped
    BY <1>1, <1>2, <1>3, <2>1
  <2> QED
    BY <1>1, <1>2, <2>1 DEF DataSafe, MarkIsSafe, Delivered
<1>5. ASSUME run.stage # "off", NEW q \in Records, Still(q)'
      PROVE  q # r /\ Still(q) /\ source'[q] = source[q]
  BY <1>1, <1>2, <1>3, <1>5 DEF Still
<1>6. ListedIsCurrent'
  BY <1>1, <1>5 DEF DataSafe, ListedIsCurrent
<1>7. ASSUME run.stage # "off", run.how.cursor = "offset", NEW q \in Records \ slipped'
      PROVE  listed[q] # Absent
  BY <1>1, <1>7 DEF Shifted
<1>8. ReadIsListed'
  <2> SUFFICES ASSUME Reading', NEW q \in InPages', Still(q)', ReadSoFar(q)',
                      IsAfter(source'[q].at, run'.since)
               PROVE  listed'[q] = source'[q]
    BY DEF ReadIsListed
  <2>1. run.stage # "off" /\ Reading
    BY <1>1 DEF Reading
  <2>2. q \in Records
    BY DEF InPages, InPass
  <2>3. q # r /\ Still(q) /\ source'[q] = source[q]
    BY <1>5, <2>1, <2>2
  <2>4. CASE run.how.cursor = "offset"
    <3>1. q \notin slipped'
      BY <1>1 DEF Still
    <3>2. listed[q] # Absent
      BY <1>7, <2>1, <2>2, <2>4, <3>1
    <3> QED
      BY <1>1, <2>1, <2>2, <2>3, <3>2 DEF DataSafe, ListedIsCurrent
  <2>5. CASE run.how.cursor # "offset"
    <3>1. q \in InPages
      BY <1>1, <2>2, <2>3 DEF InPages, InPass, FilteredBy, IsAfter
    <3>2. ReadSoFar(q)
      BY <1>1, <2>3, <2>5 DEF ReadSoFar, Counts, Precedes, Key
    <3> QED
      BY <1>1, <2>1, <2>3, <3>1, <3>2 DEF DataSafe, ReadIsListed, IsAfter
  <2> QED
    BY <2>4, <2>5
<1>9. CountIsRight'
  BY <1>1, <1>7 DEF CountIsRight, Counts, Undisturbed
<1>10. PassesAreComplete'
  <2> SUFFICES ASSUME run'.stage \in {"archived", "write"}, NEW q \in Records, Still(q)',
                      source'[q].at # 0, ReadPasses(q)', IsAfter(source'[q].at, run'.since)
               PROVE  listed'[q] = source'[q]
    BY DEF PassesAreComplete
  <2>1. Still(q) /\ source'[q] = source[q]
    BY <1>1, <1>5
  <2>2. ReadPasses(q)
    BY <1>1, <2>1 DEF ReadPasses
  <2> QED
    BY <1>1, <2>1, <2>2 DEF DataSafe, PassesAreComplete, IsAfter
<1> QED
  BY <1>4, <1>6, <1>8, <1>9, <1>10 DEF DataSafe

LEMMA BeginSafe == ASSUME Sound, DataSafe, NEW full \in BOOLEAN, Begin(full) PROVE DataSafe'
<1> DEFINE since == IF full THEN 0 ELSE mark
<1>1. /\ run.stage = "off" /\ mark' = since
      /\ run' = [NoRun EXCEPT !.stage = "live", !.full = full, !.since = since,
                              !.how = Method(since)]
      /\ UNCHANGED <<policy, source, listed, dest, slipped>>
  BY DEF Begin
<1>2. run'.stage = "live" /\ run'.at = 0
  BY <1>1 DEF NoRun
<1>3. MarkIsSafe'
  BY <1>1, AbsentIsVersion DEF Sound, TypeOK, DataSafe, MarkIsSafe, Delivered
<1>4. ListedIsCurrent'
  BY <1>1 DEF Sound, TablesAreReal, ListedIsCurrent
<1>5. ReadIsListed'
  BY <1>2 DEF ReadIsListed, ReadSoFar
<1>6. CountIsRight'
  <2>1. ASSUME NEW q PROVE Position(q, InPages)' \in Nat
    <3>1. {p \in InPages : Precedes(Key(p), Key(q))}' \in SUBSET Records
      BY DEF InPages, InPass
    <3>2. /\ IsFiniteSet({p \in InPages : Precedes(Key(p), Key(q))}')
          /\ Cardinality({p \in InPages : Precedes(Key(p), Key(q))}') \in Nat
      BY <3>1, ListingConstants, FS_Subset, FS_CardinalityType
    <3> QED
      BY <3>2 DEF Position
  <2>2. Before(run.at)' = {}
    BY <1>2, <2>1 DEF Before
  <2> QED
    BY <1>2, <2>2, FS_EmptySet DEF CountIsRight
<1>7. PassesAreComplete'
  BY <1>2 DEF PassesAreComplete
<1> QED
  BY <1>3, <1>4, <1>5, <1>6, <1>7 DEF DataSafe

LEMMA ListPageSafe == ASSUME Sound, DataSafe, ListPage PROVE DataSafe'
<1> DEFINE page == NextPage
           kept == Kept(page)
           n == run.at + Cardinality(page)
<1>1. /\ Reading /\ page # {}
      /\ listed' = [r \in Records |->
                      IF r \in kept /\ source[r].at >= listed[r].at THEN source[r] ELSE listed[r]]
      /\ UNCHANGED <<policy, source, clock, dest, mark, ghost, quiet, slipped>>
  BY DEF ListPage, Reading
<1>2. /\ run'.at = n /\ run'.last = LastKey(page)
      /\ run'.stage = run.stage /\ run'.how = run.how /\ run'.since = run.since
  BY DEF ListPage, Sound, TypeOK, Run
<1>3. TypeOK /\ page \subseteq InPages /\ InPages \subseteq Records
  BY PageIsOfRecords DEF Sound
<1>4. run.at \in Nat /\ Cardinality(page) \in Nat /\ n # 0
  <2>1. IsFiniteSet(page) /\ Cardinality(page) \in Nat
    BY <1>3, PageIsOfRecords
  <2>2. Cardinality(page) # 0
    BY <1>1, <2>1, FS_EmptySet
  <2> QED
    BY <1>3, <2>1, <2>2 DEF TypeOK, Run
<1>5. /\ InPages' = InPages /\ (Counts' <=> Counts)
      /\ \A r \in Records : Position(r, InPages)' = Position(r, InPages)
  BY <1>1, <1>2, SameOrder
<1>6. ASSUME NEW r \in Records
      PROVE  /\ listed'[r] \in {listed[r], source[r]}
             /\ r \in kept => listed'[r] = source[r] /\ source[r] # Absent
  <2>1. source[r].at \in Nat /\ listed[r].at \in Nat /\ listed[r].at <= source[r].at
    BY AbsentIsVersion DEF Sound, TypeOK, TablesAreReal
  <2>2. r \in kept => source[r] # Absent
    BY KeptIsReal, AbsentIsVersion
  <2> HIDE DEF kept
  <2> QED
    BY <1>1, <2>1, <2>2
<1>7. MarkIsSafe'
  BY <1>1 DEF DataSafe, MarkIsSafe, Delivered
<1>8. ListedIsCurrent'
  <2> HIDE DEF kept
  <2>1. run.stage # "off"
    BY <1>1 DEF Reading
  <2> QED
    BY <1>1, <1>6, <2>1 DEF DataSafe, ListedIsCurrent, Still
<1>9. Undisturbed' => Undisturbed
  <2>1. ASSUME NEW r \in Records, listed'[r] = Absent PROVE listed[r] = Absent
    <3> HIDE DEF kept
    <3> QED
      BY <1>1, <1>6, <2>1
  <2> QED
    BY <1>1, <2>1 DEF Undisturbed
<1>10. ASSUME Counts /\ run.how.order # "fixed" /\ Undisturbed'
       PROVE  CountIsRight' /\ \A r \in InPages \ page : ReadSoFar(r)' => ReadSoFar(r)
  <2>1. Before(n) = Before(run.at) \cup page /\ Cardinality(Before(n)) = n
    <3>1. Cardinality(Before(run.at)) = run.at
      BY <1>9, <1>10 DEF DataSafe, CountIsRight
    <3> QED
      BY <1>3, <1>10, <3>1, CountLeavesTheRest
  <2>2. Before(run.at)' = Before(n)
    <3> HIDE DEF n, page
    <3> QED
      BY <1>2, <1>3, <1>5 DEF Before
  <2> HIDE DEF n, page, kept
  <2>3. CountIsRight'
    BY <1>2, <2>1, <2>2 DEF CountIsRight
  <2>4. ASSUME NEW r \in InPages, ReadSoFar(r)', r \notin page PROVE ReadSoFar(r)
    <3>1. Position(r, InPages) < n
      BY <1>2, <1>3, <1>5, <1>10, <2>4 DEF ReadSoFar
    <3>2. Position(r, InPages) < run.at /\ Position(r, InPages) \in Nat
      BY <1>3, <2>1, <2>4, <3>1, PositionType DEF Before
    <3> QED
      BY <1>4, <1>10, <3>2 DEF ReadSoFar
  <2> QED
    BY <2>3, <2>4
<1>11. CountIsRight'
  <2> HIDE DEF n, page, kept
  <2> QED
    BY <1>2, <1>5, <1>10 DEF CountIsRight
<1>12. ASSUME run.how.order # "fixed", ~Counts, NEW r \in InPages \ page, ReadSoFar(r)'
       PROVE  ReadSoFar(r)
  <2>1. Precedes(run.last, Key(r))' <=> Precedes(LastKey(page), Key(r))
    BY <1>1, <1>2 DEF Precedes, Key
  <2>2. ~Precedes(LastKey(page), Key(r))
    BY <1>2, <1>5, <1>12, <2>1 DEF ReadSoFar
  <2> QED
    BY <1>1, <1>3, <1>12, <2>2, KeyLeavesTheRest
<1>13. run.how.order = "fixed" => page = InPages
  <2>1. ASSUME run.how.order = "fixed" PROVE run.at = 0
    BY <1>1, <2>1 DEF NextPage
  <2> QED
    BY <1>3, <2>1, AllIsLeft DEF NextPage
<1>14. ReadIsListed'
  <2> SUFFICES ASSUME NEW r \in InPages, Still(r), ReadSoFar(r)', IsAfter(source[r].at, run.since)
               PROVE  listed'[r] = source[r]
    BY <1>1, <1>2, <1>5 DEF ReadIsListed, Still, IsAfter
  <2>1. r \in Records /\ listed'[r] \in {listed[r], source[r]}
    BY <1>3, <1>6
  <2>2. CASE r \in page
    <3>1. r \in kept
      BY <2>2 DEF Kept
    <3> QED
      BY <1>6, <2>1, <3>1
  <2>3. CASE r \notin page /\ ReadSoFar(r)
    BY <1>1, <2>1, <2>3 DEF DataSafe, ReadIsListed
  <2>4. CASE r \notin page /\ Counts /\ ~Undisturbed'
    <3>1. listed'[r] # Absent
      BY <1>1, <2>1, <2>4 DEF Undisturbed, Still
    <3>2. listed'[r] \in {Absent, source[r]}
      BY <1>1, <1>2, <1>8, <2>1 DEF ListedIsCurrent, Still, Reading
    <3> QED
      BY <3>1, <3>2
  <2> QED
    BY <1>10, <1>12, <1>13, <2>2, <2>3, <2>4
<1>15. PassesAreComplete'
  <2> SUFFICES ASSUME run.stage \in {"archived", "write"}, NEW r \in Records, Still(r),
                      source[r].at # 0, ReadPasses(r), IsAfter(source[r].at, run.since)
               PROVE  listed'[r] = source[r]
    BY <1>1, <1>2 DEF PassesAreComplete, ReadPasses, Still, IsAfter
  <2>1. listed[r] = source[r]
    BY DEF DataSafe, PassesAreComplete
  <2> QED
    BY <1>6, <2>1
<1> QED
  BY <1>7, <1>8, <1>11, <1>14, <1>15 DEF DataSafe

LEMMA EndOfPassSafe == ASSUME Sound, DataSafe, EndOfPass PROVE DataSafe'
<1>1. /\ Reading /\ NextPage = {} /\ TypeOK
      /\ UNCHANGED <<policy, source, clock, listed, dest, mark, ghost, quiet, slipped>>
  BY DEF EndOfPass, Reading, Sound
<1>2. /\ run'.stage = IF run.stage = "live" /\ policy.archived = "pass" THEN "archived" ELSE "write"
      /\ run'.at = 0 /\ run'.since = run.since
  BY DEF EndOfPass, Sound, TypeOK, Run
<1>3. MarkIsSafe' /\ ListedIsCurrent'
  BY <1>1 DEF DataSafe, MarkIsSafe, Delivered, ListedIsCurrent, Still, Reading
<1>4. ReadIsListed' /\ CountIsRight'
  BY <1>2 DEF ReadIsListed, ReadSoFar, CountIsRight, Counts
<1>5. PassesAreComplete'
  <2> SUFFICES ASSUME NEW r \in Records, Still(r), source[r].at # 0, ReadPasses(r)',
                      IsAfter(source[r].at, run.since)
               PROVE  listed[r] = source[r]
    BY <1>1, <1>2 DEF PassesAreComplete, Still, IsAfter
  <2>1. source[r] # Absent
    BY AbsentIsVersion
  <2>2. ASSUME r \in InPass PROVE listed[r] = source[r]
    <3>1. r \in InPages
      BY <2>2 DEF InPages
    <3>2. ReadSoFar(r)
      BY <1>1, <3>1, EmptyPageIsTheEnd
    <3> QED
      BY <1>1, <3>1, <3>2 DEF DataSafe, ReadIsListed
  <2>3. CASE run.stage = "live"
    BY <1>1, <1>2, <2>1, <2>2, <2>3 DEF InPass, ReadPasses
  <2>4. CASE run.stage = "archived" /\ source[r].gone
    BY <2>1, <2>2, <2>4 DEF InPass
  <2>5. CASE run.stage = "archived" /\ ~source[r].gone
    BY <2>5 DEF DataSafe, PassesAreComplete, ReadPasses
  <2> QED
    BY <1>1, <2>3, <2>4, <2>5 DEF Reading, Sound, TypeOK, Version
<1> QED
  BY <1>3, <1>4, <1>5 DEF DataSafe

(* What a run that is over leaves alone: its open listing is gone. *)
LEMMA OverIsSafe ==
  ASSUME run' = NoRun, MarkIsSafe'
  PROVE  DataSafe'
BY RunTypes
   DEF DataSafe, ListedIsCurrent, ReadIsListed, Reading, CountIsRight, Counts, PassesAreComplete

(* What the run owed is in the row. *)
LEMMA EndRunDelivers ==
  ASSUME Sound, DataSafe, run.stage = "write", NEW r \in Records, Still(r), source[r].at # 0,
         IsAfter(source[r].at, run.since)
  PROVE  \/ Written(r, listed, Deletes) = source[r]
         \/ source[r].gone /\ policy.archived = "gone"
<1>1. source[r] # Absent /\ policy.archived \in {"gone", "flagged", "pass"}
  BY AbsentIsVersion DEF Sound, TypeOK, Policy
<1>2. CASE source[r].gone /\ policy.archived = "gone"
  BY <1>2
<1>3. CASE ~(source[r].gone /\ policy.archived = "gone")
  <2>1. listed[r] = source[r]
    BY <1>1, <1>3 DEF DataSafe, PassesAreComplete, ReadPasses
  <2> QED
    BY <1>1, <2>1 DEF Written
<1> QED
  BY <1>2, <1>3

LEMMA EndRunSafe == ASSUME Sound, DataSafe, EndRun PROVE DataSafe'
<1> DEFINE rows == [r \in Records |-> Written(r, listed, Deletes)]
           m == IF run.full THEN run.newest ELSE Latest({run.newest, mark})
<1>1. /\ run.stage = "write" /\ run' = NoRun
      /\ dest' = rows /\ mark' = m /\ slipped' = StillMissed(rows, m)
      /\ UNCHANGED <<policy, source>>
  BY DEF EndRun
<1>2. mark = run.since /\ mark \in Nat
  BY <1>1, ListingConstants DEF Sound, TypeOK, MarkIsSince
<1>3. ASSUME NEW r \in Records \ slipped', source[r].at # 0, source[r].at <= m
      PROVE  Delivered(r, rows[r])
  <2>1. CASE r \in slipped
    BY <1>1, <1>3, <2>1 DEF StillMissed
  <2>2. CASE r \notin slipped /\ IsAfter(source[r].at, run.since)
    BY <1>1, <1>3, <2>2, EndRunDelivers DEF Still, Delivered
  <2>3. CASE r \notin slipped /\ ~IsAfter(source[r].at, run.since)
    <3>1. source[r].at \in Nat
      BY AbsentIsVersion DEF Sound, TypeOK
    <3>2. run.since # 0 /\ source[r].at <= mark
      BY <1>2, <2>3, <3>1 DEF IsAfter
    <3>3. Delivered(r, dest[r])
      BY <1>3, <2>3, <3>2 DEF DataSafe, MarkIsSafe
    <3>4. listed[r] \in {Absent, source[r]}
      BY <1>1, <2>3 DEF DataSafe, ListedIsCurrent, Still
    <3>5. rows[r] \in {dest[r], source[r]}
      BY <3>2, <3>4 DEF Written, Deletes
    <3> QED
      BY <3>3, <3>5 DEF Delivered
  <2> QED
    BY <2>1, <2>2, <2>3
<1>4. MarkIsSafe'
  <2> HIDE DEF rows, m
  <2> QED
    BY <1>1, <1>3 DEF MarkIsSafe, Delivered
<1> QED
  BY <1>1, <1>4, OverIsSafe

LEMMA StopsSafe == ASSUME Sound, DataSafe, FailRun \/ GiveUp PROVE DataSafe'
<1>1. /\ run' = NoRun /\ slipped' = StillMissed(dest, mark)
      /\ UNCHANGED <<policy, source, dest, mark>>
  BY DEF FailRun, GiveUp
<1>2. MarkIsSafe'
  BY <1>1 DEF DataSafe, MarkIsSafe, StillMissed, Delivered
<1> QED
  BY <1>1, <1>2, OverIsSafe

LEMMA GhostWritesSafe == ASSUME Sound, DataSafe, GhostWrites PROVE DataSafe'
<1> DEFINE rows == [r \in Records |-> Written(r, ghost.listed, ghost.deletes)]
<1>1. /\ dest' = rows /\ quiet' = FALSE
      /\ slipped' = slipped \cup {r \in Records : rows[r] # dest[r]}
      /\ UNCHANGED <<policy, source, clock, run, listed, mark>>
  BY DEF GhostWrites
<1>2. MarkIsSafe'
  <2> HIDE DEF rows
  <2> QED
    BY <1>1 DEF DataSafe, MarkIsSafe, Delivered
<1>3. (ListedIsCurrent /\ ReadIsListed /\ CountIsRight /\ PassesAreComplete)'
  BY <1>1, OwesNoMore
<1> QED
  BY <1>2, <1>3 DEF DataSafe

LEMMA NextSafe == ASSUME Sound, DataSafe, [Next]_vars PROVE DataSafe'
<1>1. CASE Tick
  BY <1>1, TickSafe
<1>2. CASE \E r \in Records : Change(r) \/ Delete(r)
  BY <1>2, BecomesSafe DEF Change, Delete
<1>3. CASE \E full \in BOOLEAN : Begin(full)
  BY <1>3, BeginSafe
<1>4. CASE ListPage
  BY <1>4, ListPageSafe
<1>5. CASE EndOfPass
  BY <1>5, EndOfPassSafe
<1>6. CASE EndRun
  BY <1>6, EndRunSafe
<1>7. CASE FailRun \/ GiveUp
  BY <1>7, StopsSafe
<1>8. CASE GhostWrites
  BY <1>8, GhostWritesSafe
<1>9. CASE UNCHANGED vars
  <2>1. MarkIsSafe'
    BY <1>9 DEF vars, DataSafe, MarkIsSafe, Delivered
  <2> QED
    BY <1>9, <2>1, OwesNoMore DEF vars, DataSafe
<1> QED
  BY <1>1, <1>2, <1>3, <1>4, <1>5, <1>6, <1>7, <1>8, <1>9 DEF Next

-----------------------------------------------------------------------------
(* What follows *)

LEMMA AlwaysSoundAndSafe == Spec => [](Sound /\ DataSafe)
<1>1. Init => Sound /\ DataSafe
  BY InitSound, InitSafe
<1>2. Sound /\ DataSafe /\ [Next]_vars => (Sound /\ DataSafe)'
  BY NextSound, NextSafe
<1> QED
  BY <1>1, <1>2, PTL DEF Spec

(* Whatever the pages, passes, filters and cursors of a provider are, every part of the *)
(* invariant on its open listing holds.                                                  *)
THEOREM OpenListingsAreComplete == Spec => []ListingInv
BY AlwaysSoundAndSafe, PTL DEF ListingInv

(* Whatever they are, the mark passes only over records that changed under a run or at *)
(* the mark's own time, those such a change shifted, and those that a ghost wrote.       *)
THEOREM MarkPassesOnlySlipped == Spec => []OnlySlippedAreMissed
<1>1. Sound /\ DataSafe => OnlySlippedAreMissed
  BY AbsentIsVersion DEF Sound, TablesAreReal, DataSafe, MarkIsSafe, OnlySlippedAreMissed
<1> QED
  BY <1>1, AlwaysSoundAndSafe, PTL

(* A full run under which nothing changed and no ghost wrote repairs every row. *)
THEOREM QuietFullRunsRepair == Spec => QuietFullRunRepairs
<1>1. ASSUME Sound, DataSafe, EndRun, run.full, quiet, NEW r \in Records
      PROVE  \/ Delivered(r, dest'[r]) /\ ~source[r].gone
             \/ source[r].gone /\ (dest'[r].gone \/ dest'[r] = Absent \/ policy = ApolloSequences)
  <2>1. /\ run.stage = "write" /\ run.since = 0 /\ Still(r)
        /\ dest'[r] = Written(r, listed, Deletes) /\ listed[r] \in {Absent, source[r]}
    BY <1>1 DEF EndRun, Sound, MarkIsSince, Still, DataSafe, ListedIsCurrent
  <2>2. IsAfter(source[r].at, run.since)
    BY <2>1 DEF IsAfter
  <2>3. CASE source[r].at = 0
    BY <1>1, <2>1, <2>3 DEF Sound, TablesAreReal, Absent, Written, Delivered
  <2>4. CASE source[r].at # 0 /\ ~source[r].gone
    BY <1>1, <2>1, <2>2, <2>4, EndRunDelivers DEF Delivered
  <2>5. CASE source[r].at # 0 /\ source[r].gone
    <3>1. dest[r] \in Version
      BY <1>1 DEF Sound, TypeOK
    <3>2. dest[r] # Absent => [dest[r] EXCEPT !.gone = TRUE].gone
      BY <3>1 DEF Version
    <3>3. Deletes <=> policy # ApolloSequences
      BY <2>1 DEF Deletes
    <3> QED
      BY <2>1, <2>5, <3>2, <3>3 DEF Written
  <2> QED
    BY <1>1, <2>3, <2>4, <2>5 DEF Sound, TypeOK, Version
<1>2. Sound /\ DataSafe /\ [Next]_vars =>
        [EndRun /\ run.full /\ quiet =>
           \A r \in Records : \/ Delivered(r, dest'[r]) /\ ~source[r].gone
                              \/ source[r].gone /\ (dest'[r].gone \/ dest'[r] = Absent
                                                    \/ policy = ApolloSequences)]_vars
  BY <1>1
<1> QED
  BY <1>2, AlwaysSoundAndSafe, PTL DEF Spec, QuietFullRunRepairs

=============================================================================
