------------------------- MODULE ConnectorSyncProofs -------------------------
(***************************************************************************)
(* What a connector sync promises, for any feed, page size, number of      *)
(* workers, jobs and faults.                                               *)
(*                                                                         *)
(* Nothing is said of a worker that lost its job but that what it did is   *)
(* durable: its page and everything behind it on that page need no work    *)
(* (TurnsLoseNothing).  A worker that holds its job works at the job's     *)
(* cursor (HoldersAreCurrent), and a page accounts for every change up to  *)
(* its own cursor (PagesCover), so what a report moves the cursor over     *)
(* needs no work.                                                          *)
(***************************************************************************)
EXTENDS ConnectorSync, TLAPS, FiniteSetTheorems, NaturalsInduction, WellFoundedInduction

NeedsNoWork(i) == Promise!NeedsNoWork(i)

(* A page is of changes after its position, up to its cursor, and leaves out *)
(* only replaced ones; one that is not the last moves the cursor.            *)
Covers(page, c) ==
  /\ page.cursor \in c .. published
  /\ page.items \subseteq c + 1 .. page.cursor
  /\ \A i \in c + 1 .. page.cursor : i \in page.items \/ Promise!Superseded(i)
  /\ ~page.complete => c < page.cursor

PagesCover ==
  \A j \in Jobs : \A c \in Cursors : pages[j][c] # NoPage => Covers(pages[j][c], c)

OneLiveJob == \A j, k \in Jobs : Live(j) /\ Live(k) => j = k

CheckpointCovers ==
  checkpoint <= published /\ \A i \in 1 .. checkpoint : NeedsNoWork(i)

(* A live job goes on where nothing before its cursor needs work. *)
Resumes(j) ==
  /\ checkpoint <= jobs[j].at /\ jobs[j].at <= published
  /\ \A i \in 1 .. jobs[j].at : NeedsNoWork(i)
  /\ \A i \in pages[j][jobs[j].at].items :
       Rank(i, pages[j][jobs[j].at].items) <= jobs[j].offset => NeedsNoWork(i)
  /\ jobs[j].offset > 0 => jobs[j].offset < Size(pages[j][jobs[j].at])

JobsResume == \A j \in Jobs : Live(j) => Resumes(j)

HoldersAreCurrent ==
  \A w \in Workers : worker[w] # Idle /\ Holds(w) =>
    /\ worker[w].at = jobs[worker[w].job].at
    /\ worker[w].from = jobs[worker[w].job].offset

TurnIsSafe(w) ==
  /\ worker[w].at <= published
  /\ \A i \in 1 .. worker[w].at : NeedsNoWork(i)
  /\ \A i \in TurnPage(w).items :
       Rank(i, TurnPage(w).items) <= worker[w].done => NeedsNoWork(i)
  /\ worker[w].from <= worker[w].done /\ worker[w].done <= Size(TurnPage(w))
  /\ worker[w].phase = "working" => TurnPage(w) # NoPage

TurnsLoseNothing == \A w \in Workers : worker[w] # Idle => TurnIsSafe(w)

SyncInv ==
  /\ TypeOK /\ PagesCover /\ OneLiveJob /\ CheckpointCovers
  /\ JobsResume /\ HoldersAreCurrent /\ TurnsLoseNothing

-----------------------------------------------------------------------------
(* Ranks.                                                                    *)
LEMMA Least ==
  ASSUME NEW T, T \subseteq Nat, T # {}
  PROVE  \E x \in T : \A y \in T : x <= y
<1>1. PICK x \in T : \A y \in T : <<y, x>> \notin OpToRel(<, Nat)
  BY NatLessThanWellFounded, WFMin
<1>2. \A y \in T : ~(y < x)
  BY <1>1 DEF OpToRel
<1> QED BY <1>2

LEMMA Greatest ==
  ASSUME NEW n \in Nat, NEW T, T \subseteq 0 .. n, T # {}
  PROVE  \E x \in T : \A y \in T : y <= x
<1> DEFINE D == {d \in Nat : n - d \in T}
<1>1. D # {}
  <2>1. PICK y \in T : TRUE
    OBVIOUS
  <2>2. n - y \in Nat /\ n - (n - y) = y
    BY <2>1
  <2> QED BY <2>1, <2>2
<1>2. PICK d \in D : \A e \in D : d <= e
  BY <1>1, Least
<1>3. \A y \in T : n - y \in D
  <2> SUFFICES ASSUME NEW y \in T PROVE n - y \in D
    OBVIOUS
  <2>1. n - y \in Nat /\ n - (n - y) = y
    OBVIOUS
  <2> QED BY <2>1
<1>4. \A y \in T : y <= n - d
  BY <1>2, <1>3
<1> QED BY <1>2, <1>4

LEMMA RankFacts ==
  ASSUME NEW n \in Nat, NEW S, S \subseteq 1 .. n
  PROVE  /\ IsFiniteSet(S) /\ Cardinality(S) \in 0 .. n
         /\ \A i : Rank(i, S) \in 0 .. Cardinality(S)
         /\ \A i \in S : 1 <= Rank(i, S)
         /\ \A i \in S : \A k \in Int : k < i => Rank(k, S) < Rank(i, S)
         /\ \A i, k \in Int : i <= k => Rank(i, S) <= Rank(k, S)
<1>0. S \subseteq Int
  OBVIOUS
<1>1. IsFiniteSet(1 .. n) /\ Cardinality(1 .. n) = n
  BY FS_Interval
<1>2. IsFiniteSet(S) /\ Cardinality(S) \in 0 .. n
  <2>1. IsFiniteSet(S) /\ Cardinality(S) <= n
    BY <1>1, FS_Subset
  <2>2. Cardinality(S) \in Nat
    BY <2>1, FS_CardinalityType
  <2> QED BY <2>1, <2>2
<1> DEFINE Upto(i) == {k \in S : k <= i}
<1>3. ASSUME NEW i
      PROVE  /\ IsFiniteSet(Upto(i)) /\ Cardinality(Upto(i)) \in 0 .. Cardinality(S)
             /\ Rank(i, S) = Cardinality(Upto(i))
  <2>1. Upto(i) \subseteq S
    OBVIOUS
  <2>2. IsFiniteSet(Upto(i)) /\ Cardinality(Upto(i)) <= Cardinality(S)
    BY <1>2, <2>1, FS_Subset
  <2>3. Cardinality(Upto(i)) \in Nat
    BY <2>2, FS_CardinalityType
  <2> QED BY <1>2, <2>2, <2>3 DEF Rank
<1>4. ASSUME NEW i, NEW k, Upto(i) \subseteq Upto(k)
      PROVE  /\ Rank(i, S) <= Rank(k, S)
             /\ Upto(i) # Upto(k) => Rank(i, S) < Rank(k, S)
  <2> HIDE DEF Upto
  <2>1. /\ Cardinality(Upto(i)) <= Cardinality(Upto(k))
        /\ Cardinality(Upto(k)) = Cardinality(Upto(i)) => Upto(k) = Upto(i)
    BY <1>3, <1>4, FS_Subset
  <2> QED BY <1>2, <1>3, <2>1
<1>5. ASSUME NEW i \in S, NEW k \in Int, k < i
      PROVE  Rank(k, S) < Rank(i, S)
  <2>1. i \in Int /\ i \in Upto(i) /\ i \notin Upto(k)
    BY <1>0, <1>5
  <2>2. Upto(k) \subseteq Upto(i)
    <3>1. \A y \in S : y <= k => y <= i
      BY <1>0, <1>5, <2>1
    <3> QED BY <3>1
  <2> QED BY <1>4, <2>1, <2>2
<1>6. ASSUME NEW i \in S PROVE 1 <= Rank(i, S)
  <2>1. i \in Int /\ i - 1 \in Int /\ i - 1 < i
    BY <1>0
  <2>2. Rank(i - 1, S) < Rank(i, S)
    BY <1>5, <2>1
  <2>3. Rank(i - 1, S) \in 0 .. Cardinality(S) /\ Rank(i, S) \in 0 .. Cardinality(S)
    <3> HIDE DEF Upto
    <3> QED BY <1>3
  <2> QED BY <1>2, <2>2, <2>3
<1>7. ASSUME NEW i \in Int, NEW k \in Int, i <= k PROVE Rank(i, S) <= Rank(k, S)
  <2>1. Upto(i) \subseteq Upto(k)
    <3>1. \A y \in S : y <= i => y <= k
      BY <1>0, <1>7
    <3> QED BY <3>1
  <2> QED BY <1>4, <2>1
<1> HIDE DEF Upto
<1>8. \A i : Rank(i, S) \in 0 .. Cardinality(S)
  BY <1>3
<1> QED BY <1>2, <1>5, <1>6, <1>7, <1>8

(* Every rank up to the size of a set is some element's.                     *)
LEMMA RankExists ==
  ASSUME NEW n \in Nat, NEW S, S \subseteq 1 .. n, NEW r \in 1 .. Cardinality(S)
  PROVE  \E i \in S : Rank(i, S) = r
<1>1. /\ Cardinality(S) \in 0 .. n /\ IsFiniteSet(S) /\ S \subseteq Int
      /\ \A i : Rank(i, S) \in Nat
  <2>1. /\ Cardinality(S) \in 0 .. n /\ IsFiniteSet(S)
        /\ \A i : Rank(i, S) \in 0 .. Cardinality(S)
    BY RankFacts
  <2> QED BY <2>1
<1> DEFINE T == {i \in S : r <= Rank(i, S)}
<1>2. T # {}
  <2>1. S # {}
    BY <1>1, FS_EmptySet
  <2>2. S \subseteq 0 .. n
    OBVIOUS
  <2>3. PICK x \in S : \A y \in S : y <= x
    BY <2>1, <2>2, Greatest
  <2>4. {k \in S : k <= x} = S
    BY <2>3
  <2>5. Rank(x, S) = Cardinality(S)
    BY <2>4 DEF Rank
  <2> QED BY <1>1, <2>5
<1>3. PICK i \in T : \A k \in T : i <= k
  <2>1. T \subseteq Nat
    <3>1. \A x \in S : x \in Nat
      OBVIOUS
    <3> QED BY <3>1
  <2> HIDE DEF T
  <2> QED BY <1>2, <2>1, Least
<1>4. i \in S /\ i \in Int /\ r <= Rank(i, S)
  BY <1>1, <1>3
<1>5. CASE \E k \in S : k < i
  <2> DEFINE P == {k \in S : k < i}
  <2>1. P # {} /\ P \subseteq 0 .. n
    <3>1. \A k \in S : k \in 0 .. n
      OBVIOUS
    <3>2. PICK k \in S : k < i
      BY <1>5
    <3>3. k \in P
      BY <3>2
    <3>4. \A y \in P : y \in S
      OBVIOUS
    <3> QED BY <3>1, <3>3, <3>4
  <2>2. PICK k \in P : \A y \in P : y <= k
    <3> HIDE DEF P
    <3> QED BY <2>1, Greatest
  <2>3. k \in S /\ k \in Int /\ k < i
    BY <1>1, <2>2
  <2>4. \A y \in S : y <= i <=> y <= k \/ y = i
    BY <1>1, <1>4, <2>2, <2>3
  <2>5. {y \in S : y <= i} = {y \in S : y <= k} \union {i} /\ i \notin {y \in S : y <= k}
    <3>1. i \notin {y \in S : y <= k}
      BY <1>1, <1>4, <2>3
    <3> QED BY <1>4, <2>4, <3>1
  <2>6. IsFiniteSet({y \in S : y <= k})
    BY <1>1, FS_Subset
  <2>7. Rank(i, S) = Rank(k, S) + 1
    BY <2>5, <2>6, FS_AddElement DEF Rank
  <2>8. ~(r <= Rank(k, S))
    BY <1>3, <1>4, <2>3
  <2>9. Rank(i, S) = r
    BY <1>1, <1>4, <2>7, <2>8
  <2> QED BY <1>4, <2>9
<1>6. CASE ~\E k \in S : k < i
  <2>1. {k \in S : k <= i} = {i}
    <3>1. \A k \in S : k <= i <=> k = i
      BY <1>1, <1>4, <1>6
    <3> QED BY <1>4, <3>1
  <2>2. Rank(i, S) = 1
    BY <2>1, FS_Singleton DEF Rank
  <2>3. Rank(i, S) = r
    BY <1>1, <1>4, <2>2
  <2> QED BY <1>4, <2>3
<1> QED BY <1>5, <1>6

-----------------------------------------------------------------------------
(* Pages.                                                                    *)
LEMMA ListingCovers ==
  ASSUME published \in 0 .. MaxFeed, NEW c \in Cursors, NEW p \in c .. published
  PROVE  Listing(c, p) \in Page /\ Covers(Listing(c, p), c)
<1> DEFINE L == Listed(c, p)
           I == {i \in L : Rank(i, L) <= PageSize}
           complete == I = L
           cursor == IF complete THEN p ELSE CHOOSE i \in I : Rank(i, I) = PageSize
<1>1. Listing(c, p) = [items |-> I, complete |-> complete, cursor |-> cursor]
  BY DEF Listing
<1>2. /\ MaxFeed \in Nat /\ PageSize \in Nat /\ 1 <= PageSize /\ c \in Nat /\ p \in Nat
      /\ c <= p /\ p <= published /\ published <= MaxFeed /\ published \in Nat
  BY BoundsAssumption DEF Cursors
<1>3. L \subseteq c + 1 .. p /\ L \subseteq 1 .. MaxFeed /\ I \subseteq L
  BY <1>2 DEF Listed
<1>4. \A i \in c + 1 .. p : i \in L \/ Promise!Superseded(i)
  BY <1>2 DEF Listed, Promise!Superseded
<1> HIDE DEF L
<1>5. /\ Cardinality(L) \in 0 .. MaxFeed
      /\ \A i : Rank(i, L) \in 0 .. Cardinality(L)
      /\ \A i \in L : \A k \in Int : k < i => Rank(k, L) < Rank(i, L)
      /\ \A i, k \in Int : i <= k => Rank(i, L) <= Rank(k, L)
  <2> HIDE DEF I, complete, cursor
  <2>1. MaxFeed \in Nat /\ L \subseteq 1 .. MaxFeed
    BY <1>2, <1>3
  <2> QED BY <2>1, RankFacts
<1>6. Cardinality(L) \in Nat /\ \A i : Rank(i, L) \in Nat /\ Rank(i, L) <= Cardinality(L)
  <2> HIDE DEF I, complete, cursor
  <2>1. Cardinality(L) \in Nat
    BY <1>5
  <2> QED BY <1>5, <2>1
<1>7. L \subseteq Int /\ \A i, k \in L : k <= i => Rank(k, L) <= Rank(i, L)
  <2>1. \A i \in c + 1 .. p : i \in Int
    BY <1>2
  <2>2. L \subseteq Int
    BY <1>3, <2>1
  <2> HIDE DEF I, complete, cursor
  <2> QED BY <1>5, <2>2
<1>8. \A i, k \in L : k < i => Rank(k, L) < Rank(i, L)
  BY <1>5, <1>7
<1>9. ASSUME NEW i \in I PROVE Rank(i, I) = Rank(i, L)
  <2>1. \A k \in L : k <= i => k \in I
    BY <1>2, <1>3, <1>6, <1>7, <1>9
  <2>2. {k \in I : k <= i} = {k \in L : k <= i}
    BY <2>1
  <2> QED BY <2>2 DEF Rank
<1>10. CASE complete
  <2>1. cursor = p /\ I = L
    BY <1>10
  <2>2. Covers(Listing(c, p), c)
    <3>a. complete = TRUE
      BY <1>10
    <3> HIDE DEF I, complete, cursor
    <3>1. Listing(c, p).items = L /\ Listing(c, p).cursor = p
      BY <1>1, <2>1
    <3>2. Listing(c, p).complete = TRUE
      BY <1>1, <3>a
    <3> QED BY <1>2, <1>3, <1>4, <3>1, <3>2 DEF Covers
  <2>3. Listing(c, p) \in Page
    <3>1. I \in SUBSET Promise!Positions /\ p \in Cursors
      <4> HIDE DEF I, complete, cursor
      <4> QED BY <1>2, <1>3, <2>1 DEF Promise!Positions, Cursors
    <3> QED BY <1>1, <1>10, <2>1, <3>1 DEF Page
  <2> QED BY <2>2, <2>3
<1>11. CASE ~complete
  <2>1. PICK x \in L : ~(Rank(x, L) <= PageSize)
    BY <1>3, <1>11
  <2>2. PageSize \in 1 .. Cardinality(L)
    BY <1>2, <1>6, <2>1
  <2>3. \E i \in I : Rank(i, I) = PageSize
    <3>1. PICK i \in L : Rank(i, L) = PageSize
      BY <1>2, <1>3, <2>2, RankExists
    <3>2. i \in I
      BY <1>2, <3>1
    <3> QED BY <1>9, <3>1, <3>2
  <2>4. cursor \in I /\ Rank(cursor, I) = PageSize
    BY <1>11, <2>3
  <2> HIDE DEF complete, cursor
  <2>5. cursor \in I /\ cursor \in L /\ Rank(cursor, L) = PageSize
    BY <1>3, <1>9, <2>4
  <2>6. cursor \in c + 1 .. p
    BY <1>3, <2>5
  <2>7. ASSUME NEW i \in I PROVE i \in c + 1 .. cursor
    <3>1. i \in L /\ i \in c + 1 .. p /\ Rank(i, L) <= PageSize
      BY <1>3
    <3>2. ~(cursor < i)
      BY <1>2, <1>6, <1>7, <1>8, <2>5, <3>1
    <3> QED BY <1>2, <2>6, <3>1, <3>2
  <2>8. ASSUME NEW i \in c + 1 .. cursor PROVE i \in I \/ Promise!Superseded(i)
    <3>1. i \in c + 1 .. p /\ i <= cursor
      BY <1>2, <2>6
    <3>2. i \in L => Rank(i, L) <= PageSize
      BY <1>7, <2>5, <3>1
    <3> QED BY <1>4, <3>1, <3>2
  <2>9. cursor \in c .. published /\ c < cursor /\ cursor \in Cursors
    BY <1>2, <2>6 DEF Cursors
  <2>10. Covers(Listing(c, p), c)
    <3>1. I \subseteq c + 1 .. cursor
      BY <2>7
    <3> HIDE DEF I
    <3> QED BY <1>1, <2>8, <2>9, <3>1 DEF Covers
  <2>11. Listing(c, p) \in Page
    <3>1. I \in SUBSET Promise!Positions
      BY <1>2, <1>3 DEF Promise!Positions
    <3>2. complete \in BOOLEAN
      BY DEF complete
    <3> HIDE DEF I
    <3> QED BY <1>1, <2>9, <3>1, <3>2 DEF Page
  <2> QED BY <2>10, <2>11
<1> QED BY <1>10, <1>11

(* The next item of a page that has one.                                     *)
LEMMA ItemIsThere ==
  ASSUME NEW page, page.items \subseteq 1 .. MaxFeed, NEW n \in 1 .. Size(page)
  PROVE  Item(page, n) \in page.items /\ Rank(Item(page, n), page.items) = n
<1>1. \E i \in page.items : Rank(i, page.items) = n
  BY RankExists, BoundsAssumption DEF Size
<1> QED BY <1>1 DEF Item

-----------------------------------------------------------------------------
(* What the types say of one row, one turn and the page it works on.         *)
LEMMA Rows ==
  ASSUME TypeOK
  PROVE  /\ MaxFeed \in Nat /\ published \in Nat /\ published <= MaxFeed
         /\ checkpoint \in Nat /\ Cursors \subseteq Nat
         /\ \A j \in Jobs : Live(j) => jobs[j] \in Job
         /\ \A w \in Workers : worker[w] # Idle => worker[w] \in Turn
         /\ \A j \in Jobs : \A c \in Cursors :
              /\ pages[j][c] # NoPage => pages[j][c] \in Page
              /\ pages[j][c].items \subseteq 1 .. MaxFeed
<1>1. MaxFeed \in Nat /\ published \in Nat /\ published <= MaxFeed /\ checkpoint \in Nat
      /\ Cursors \subseteq Nat
  BY BoundsAssumption DEF TypeOK, Cursors
<1>2. \A j \in Jobs : Live(j) => jobs[j] \in Job
  BY DEF TypeOK, Live, Absent
<1>3. \A w \in Workers : worker[w] # Idle => worker[w] \in Turn
  BY DEF TypeOK
<1>4. \A j \in Jobs : \A c \in Cursors : pages[j][c] \in {NoPage} \union Page
  BY DEF TypeOK
<1>5. NoPage.items = {}
  BY DEF NoPage
<1>6. \A page \in Page : page.items \subseteq 1 .. MaxFeed
  BY DEF Page, Promise!Positions
<1> QED BY <1>1, <1>2, <1>3, <1>4, <1>5, <1>6

(* A turn's page, and how many of its items there are.                       *)
LEMMA TurnFacts ==
  ASSUME TypeOK, NEW w \in Workers, worker[w] # Idle
  PROVE  /\ worker[w].job \in Jobs /\ worker[w].at \in Cursors
         /\ worker[w].done \in 0 .. MaxFeed /\ worker[w].from \in 0 .. MaxFeed
         /\ worker[w].imported \in 0 .. ImportLimit
         /\ TurnPage(w) = pages[worker[w].job][worker[w].at]
         /\ TurnPage(w).items \subseteq 1 .. MaxFeed
         /\ Size(TurnPage(w)) \in 0 .. MaxFeed
         /\ TurnPage(w) # NoPage => TurnPage(w) \in Page
<1>1. worker[w] \in Turn
  BY Rows
<1>2. /\ worker[w].job \in Jobs /\ worker[w].at \in Cursors
      /\ worker[w].done \in 0 .. MaxFeed /\ worker[w].from \in 0 .. MaxFeed
      /\ worker[w].imported \in 0 .. ImportLimit
  BY <1>1 DEF Turn
<1>3. TurnPage(w) = pages[worker[w].job][worker[w].at]
  BY DEF TurnPage
<1>4. /\ TurnPage(w).items \subseteq 1 .. MaxFeed
      /\ TurnPage(w) # NoPage => TurnPage(w) \in Page
  BY <1>2, <1>3, Rows
<1>5. Size(TurnPage(w)) \in 0 .. MaxFeed
  BY <1>4, RankFacts, BoundsAssumption DEF Size
<1> QED BY <1>2, <1>3, <1>4, <1>5

(* What needs no work never needs work again.                                *)
LEMMA NeedsNoWorkStays ==
  ASSUME published \in Nat, published' \in Nat, published <= published', settled \subseteq settled'
  PROVE  \A i \in Int : /\ Promise!Superseded(i) => Promise!Superseded(i)'
                        /\ NeedsNoWork(i) => NeedsNoWork(i)'
<1>1. ASSUME NEW i \in Int, Promise!Superseded(i) PROVE Promise!Superseded(i)'
  BY <1>1 DEF Promise!Superseded
<1>2. ASSUME NEW i \in Int, NeedsNoWork(i) PROVE NeedsNoWork(i)'
  BY <1>1, <1>2 DEF NeedsNoWork, Promise!NeedsNoWork
<1> QED BY <1>1, <1>2

(* A step forward leaves a page, a checkpoint, a row or a turn it does not   *)
(* touch as good as it was.                                                  *)
Forward ==
  /\ published' \in Nat /\ published <= published' /\ settled \subseteq settled'

LEMMA PagesFrame ==
  ASSUME SyncInv, Forward, UNCHANGED pages
  PROVE  PagesCover'
<1> USE Rows DEF SyncInv
<1>1. \A i \in Int : Promise!Superseded(i) => Promise!Superseded(i)'
  BY NeedsNoWorkStays DEF Forward
<1>2. ASSUME NEW j \in Jobs, NEW c \in Cursors, pages[j][c] # NoPage
      PROVE  Covers(pages[j][c], c)'
  <2> DEFINE page == pages[j][c]
  <2>1. /\ page.cursor \in c .. published
        /\ page.items \subseteq c + 1 .. page.cursor
        /\ \A i \in c + 1 .. page.cursor : i \in page.items \/ Promise!Superseded(i)
        /\ ~page.complete => c < page.cursor
    BY <1>2 DEF PagesCover, Covers
  <2>2. page' = page
    OBVIOUS
  <2>3. page.cursor \in c .. published'
    BY <2>1 DEF Forward
  <2>4. \A i \in c + 1 .. page.cursor : i \in Int
    BY <2>1
  <2> QED BY <1>1, <2>1, <2>3, <2>4 DEF Covers
<1> QED BY <1>2 DEF PagesCover, Cursors

LEMMA CheckpointFrame ==
  ASSUME SyncInv, Forward, UNCHANGED checkpoint
  PROVE  CheckpointCovers'
<1>1. \A i \in Int : NeedsNoWork(i) => NeedsNoWork(i)'
  BY NeedsNoWorkStays, Rows DEF Forward, SyncInv
<1>2. checkpoint \in Nat /\ published \in Nat
  BY Rows DEF SyncInv
<1> QED BY <1>1, <1>2 DEF SyncInv, CheckpointCovers, Forward

LEMMA JobFrame ==
  ASSUME SyncInv, Forward, UNCHANGED <<pages, checkpoint>>,
         NEW j \in Jobs, Live(j), jobs'[j].at = jobs[j].at, jobs'[j].offset = jobs[j].offset
  PROVE  Resumes(j)'
<1>1. \A i \in Int : NeedsNoWork(i) => NeedsNoWork(i)'
  BY NeedsNoWorkStays, Rows DEF Forward, SyncInv
<1>2. jobs[j] \in Job /\ published \in Nat /\ Cursors \subseteq Nat /\ MaxFeed \in Nat
  BY Rows DEF SyncInv
<1>3. jobs[j].at \in Nat /\ jobs[j].at \in Cursors
  BY <1>2 DEF Job
<1>4. pages[j][jobs[j].at].items \subseteq 1 .. MaxFeed
  BY <1>3, Rows DEF SyncInv
<1>5. Resumes(j)
  BY DEF SyncInv, JobsResume
<1>6. \A i \in pages[j][jobs[j].at].items : i \in Int
  BY <1>2, <1>4
<1> QED BY <1>1, <1>2, <1>3, <1>5, <1>6 DEF Resumes, Forward, Size

LEMMA TurnFrame ==
  ASSUME SyncInv, Forward,
         NEW w \in Workers, worker[w] # Idle, worker'[w] = worker[w], TurnPage(w)' = TurnPage(w)
  PROVE  TurnIsSafe(w)'
<1>1. \A i \in Int : NeedsNoWork(i) => NeedsNoWork(i)'
  BY NeedsNoWorkStays, Rows DEF Forward, SyncInv
<1>2. /\ worker[w].at \in Nat /\ TurnPage(w).items \subseteq 1 .. MaxFeed /\ MaxFeed \in Nat
      /\ published \in Nat
  BY TurnFacts, Rows DEF SyncInv
<1>3. TurnIsSafe(w)
  BY DEF SyncInv, TurnsLoseNothing
<1>4. \A i \in TurnPage(w).items : i \in Int
  BY <1>2
<1> QED BY <1>1, <1>2, <1>3, <1>4 DEF TurnIsSafe, Forward, Size

-----------------------------------------------------------------------------
(* Steps of the queue.                                                       *)
LEMMA EnqueueKeeps ==
  ASSUME SyncInv, NEW j \in Jobs, Enqueue(j)
  PROVE  SyncInv'
<1>1. /\ jobs[j] = Absent /\ ~\E k \in Jobs : Live(k)
      /\ jobs' = [jobs EXCEPT ![j] =
           [state |-> "queued", attempt |-> 0, at |-> checkpoint, offset |-> 0,
            holder |-> NoWorker, unexpired |-> FALSE]]
      /\ UNCHANGED <<published, settled, checkpoint, connection, pages, worker, faults>>
  BY DEF Enqueue
<1>2. jobs \in [Jobs -> {Absent} \union Job] /\ checkpoint \in Cursors /\ MaxFeed \in Nat
  BY Rows DEF SyncInv, TypeOK
<1>3. /\ jobs'[j] = [state |-> "queued", attempt |-> 0, at |-> checkpoint, offset |-> 0,
                     holder |-> NoWorker, unexpired |-> FALSE]
      /\ \A k \in Jobs : k # j => jobs'[k] = jobs[k]
  BY <1>1, <1>2
<1>4. jobs'[j] \in Job
  BY <1>2, <1>3 DEF Job
<1>5. TypeOK'
  BY <1>1, <1>2, <1>4 DEF SyncInv, TypeOK
<1>6. Forward
  BY <1>1, Rows DEF Forward, SyncInv
<1>7. PagesCover' /\ CheckpointCovers'
  BY <1>1, <1>6, PagesFrame, CheckpointFrame
<1>8. \A k \in Jobs : Live(k)' => k = j
  BY <1>1, <1>3 DEF Live
<1>9. JobsResume'
  <2>1. CheckpointCovers'
    BY <1>7
  <2>2. \A i \in pages[j][checkpoint].items : ~(Rank(i, pages[j][checkpoint].items) <= 0)
    <3>1. pages[j][checkpoint].items \subseteq 1 .. MaxFeed
      BY <1>2, Rows DEF SyncInv
    <3>2. /\ Cardinality(pages[j][checkpoint].items) \in 0 .. MaxFeed
          /\ \A i : Rank(i, pages[j][checkpoint].items)
                    \in 0 .. Cardinality(pages[j][checkpoint].items)
          /\ \A i \in pages[j][checkpoint].items : 1 <= Rank(i, pages[j][checkpoint].items)
      BY <1>2, <3>1, RankFacts
    <3> QED BY <1>2, <3>2
  <2>3. jobs'[j].at = checkpoint /\ jobs'[j].offset = 0
    BY <1>3
  <2>4. checkpoint \in Nat
    BY Rows DEF SyncInv
  <2>5. Resumes(j)'
    BY <1>1, <2>1, <2>2, <2>3, <2>4 DEF Resumes, CheckpointCovers
  <2> QED BY <1>8, <2>5 DEF JobsResume
<1>10. OneLiveJob'
  BY <1>8 DEF OneLiveJob
<1>11. \A w \in Workers : worker[w] # Idle => (Holds(w)' => Holds(w) /\ worker[w].job # j)
  BY <1>1, <1>3, TurnFacts DEF Holds, SyncInv
<1>12. HoldersAreCurrent'
  BY <1>1, <1>3, <1>11, TurnFacts DEF HoldersAreCurrent, SyncInv
<1>13. TurnsLoseNothing'
  BY <1>1, <1>6, TurnFrame DEF TurnsLoseNothing, TurnPage
<1> QED BY <1>5, <1>7, <1>9, <1>10, <1>12, <1>13 DEF SyncInv

LEMMA LeaseExpiresKeeps ==
  ASSUME SyncInv, NEW j \in Jobs, LeaseExpires(j)
  PROVE  SyncInv'
<1>1. /\ jobs[j].state = "leased" /\ Live(j)
      /\ jobs' = [jobs EXCEPT ![j].unexpired = FALSE]
      /\ UNCHANGED <<published, settled, checkpoint, connection, pages, worker>>
  BY DEF LeaseExpires, Live
<1>2. jobs \in [Jobs -> {Absent} \union Job] /\ jobs[j] \in Job
  BY <1>1, Rows DEF SyncInv, TypeOK
<1>3. /\ jobs'[j] = [jobs[j] EXCEPT !.unexpired = FALSE]
      /\ \A k \in Jobs : k # j => jobs'[k] = jobs[k]
  BY <1>1, <1>2
<1>4. /\ jobs'[j] \in Job /\ jobs'[j].state = jobs[j].state /\ jobs'[j].holder = jobs[j].holder
      /\ jobs'[j].at = jobs[j].at /\ jobs'[j].offset = jobs[j].offset
  BY <1>2, <1>3 DEF Job
<1>5. \A k \in Jobs : /\ jobs'[k].state = jobs[k].state /\ jobs'[k].holder = jobs[k].holder
                      /\ jobs'[k].at = jobs[k].at /\ jobs'[k].offset = jobs[k].offset
  BY <1>3, <1>4
<1>6. faults' \in 0 .. MaxFaults
  BY BoundsAssumption DEF LeaseExpires, SyncInv, TypeOK
<1>7. TypeOK'
  BY <1>1, <1>2, <1>4, <1>6 DEF SyncInv, TypeOK
<1>8. Forward
  BY <1>1, Rows DEF Forward, SyncInv
<1>9. PagesCover' /\ CheckpointCovers'
  BY <1>1, <1>8, PagesFrame, CheckpointFrame
<1>10. \A k \in Jobs : Live(k)' => Live(k)
  BY <1>5 DEF Live
<1>11. JobsResume'
  BY <1>1, <1>5, <1>8, <1>10, JobFrame DEF JobsResume
<1>12. OneLiveJob'
  BY <1>10 DEF OneLiveJob, SyncInv
<1>13. HoldersAreCurrent'
  BY <1>1, <1>5, TurnFacts DEF HoldersAreCurrent, Holds, SyncInv
<1>14. TurnsLoseNothing'
  BY <1>1, <1>8, TurnFrame DEF TurnsLoseNothing, TurnPage
<1> QED BY <1>7, <1>9, <1>11, <1>12, <1>13, <1>14 DEF SyncInv

LEMMA ClaimKeeps ==
  ASSUME SyncInv, NEW w \in Workers, NEW j \in Jobs, Claim(w, j)
  PROVE  SyncInv'
<1> DEFINE turn == [phase |-> "claimed", job |-> j, at |-> jobs[j].at, done |-> jobs[j].offset,
                    from |-> jobs[j].offset, imported |-> 0]
<1>1. /\ worker[w] = Idle /\ Live(j)
      /\ jobs' = [jobs EXCEPT ![j].state = "leased", ![j].holder = w,
                              ![j].unexpired = TRUE, ![j].attempt = @ + 1]
      /\ worker' = [worker EXCEPT ![w] = turn]
      /\ UNCHANGED <<published, settled, checkpoint, connection, pages, faults>>
  BY DEF Claim, Claimable, Live
<1>2. /\ jobs \in [Jobs -> {Absent} \union Job] /\ jobs[j] \in Job
      /\ worker \in [Workers -> {Idle} \union Turn] /\ ImportLimit \in Nat
  BY <1>1, Rows, BoundsAssumption DEF SyncInv, TypeOK
<1>3. /\ jobs'[j] = [jobs[j] EXCEPT !.state = "leased", !.holder = w, !.unexpired = TRUE,
                                    !.attempt = @ + 1]
      /\ \A k \in Jobs : k # j => jobs'[k] = jobs[k]
      /\ worker'[w] = turn /\ \A v \in Workers : v # w => worker'[v] = worker[v]
  BY <1>1, <1>2
<1>4. /\ jobs'[j] \in Job /\ jobs'[j].holder = w
      /\ jobs'[j].at = jobs[j].at /\ jobs'[j].offset = jobs[j].offset
  <2>1. jobs[j].attempt \in Nat /\ jobs[j].attempt + 1 \in Nat
    BY <1>2 DEF Job
  <2>2. PICK n \in Nat : n = jobs[j].attempt + 1
    BY <2>1
  <2>3. jobs'[j] = [jobs[j] EXCEPT !.state = "leased", !.holder = w, !.unexpired = TRUE,
                                   !.attempt = n]
    BY <1>3, <2>2
  <2> QED BY <1>2, <2>3 DEF Job
<1>5. turn \in Turn
  BY <1>2 DEF Turn, Job
<1>6. TypeOK'
  BY <1>1, <1>2, <1>4, <1>5 DEF SyncInv, TypeOK
<1>7. Forward
  BY <1>1, Rows DEF Forward, SyncInv
<1>8. PagesCover' /\ CheckpointCovers'
  BY <1>1, <1>7, PagesFrame, CheckpointFrame
<1>9. \A k \in Jobs : Live(k)' => Live(k) /\ jobs'[k].at = jobs[k].at
                                          /\ jobs'[k].offset = jobs[k].offset
  BY <1>1, <1>3, <1>4 DEF Live
<1>10. JobsResume'
  BY <1>1, <1>7, <1>9, JobFrame DEF JobsResume
<1>11. OneLiveJob'
  BY <1>9 DEF OneLiveJob, SyncInv
<1>12. HoldersAreCurrent'
  <2>1. worker'[w].at = jobs'[j].at /\ worker'[w].from = jobs'[j].offset /\ worker'[w].job = j
    BY <1>3, <1>4
  <2>2. ASSUME NEW v \in Workers, v # w, worker[v] # Idle, Holds(v)'
        PROVE  worker[v].job # j /\ Holds(v)
    <3>1. worker'[v] = worker[v] /\ worker[v].job \in Jobs
      BY <1>3, <2>2, TurnFacts DEF SyncInv
    <3>2. jobs'[worker[v].job].state = "leased" /\ jobs'[worker[v].job].holder = v
      BY <2>2, <3>1 DEF Holds
    <3>3. worker[v].job # j
      BY <1>4, <2>2, <3>2
    <3> QED BY <1>3, <3>1, <3>2, <3>3 DEF Holds
  <2>3. ASSUME NEW v \in Workers, v # w, worker[v] # Idle, Holds(v)'
        PROVE  worker'[v].at = jobs'[worker'[v].job].at /\ worker'[v].from = jobs'[worker'[v].job].offset
    BY <1>3, <2>2, <2>3, TurnFacts DEF HoldersAreCurrent, SyncInv
  <2> QED BY <1>3, <2>1, <2>3 DEF HoldersAreCurrent
<1>13. TurnsLoseNothing'
  <2>1. ASSUME NEW v \in Workers, v # w, worker[v] # Idle PROVE TurnIsSafe(v)'
    BY <1>1, <1>3, <1>7, <2>1, TurnFrame DEF TurnPage
  <2>2. Resumes(j)'
    BY <1>1, <1>4, <1>7, JobFrame
  <2>3. /\ worker'[w].at = jobs'[j].at /\ worker'[w].done = jobs'[j].offset
        /\ worker'[w].from = jobs'[j].offset /\ worker'[w].phase = "claimed"
        /\ TurnPage(w)' = pages'[j][jobs'[j].at]
    BY <1>3, <1>4 DEF TurnPage
  <2>4. jobs'[j].offset \in Nat /\ Size(TurnPage(w)') \in Nat
    <3>1. jobs[j].at \in Cursors /\ jobs[j].offset \in 0 .. MaxFeed /\ MaxFeed \in Nat
      BY <1>2, Rows DEF Job, SyncInv
    <3>2. pages[j][jobs[j].at].items \subseteq 1 .. MaxFeed
      BY <3>1, Rows DEF SyncInv
    <3>3. Size(pages[j][jobs[j].at]) \in Nat
      BY <3>1, <3>2, RankFacts DEF Size
    <3> QED BY <1>1, <1>4, <2>3, <3>1, <3>3
  <2>5. jobs'[j].offset <= Size(TurnPage(w)')
    BY <2>2, <2>3, <2>4 DEF Resumes
  <2>6. TurnIsSafe(w)'
    BY <2>2, <2>3, <2>4, <2>5 DEF Resumes, TurnIsSafe
  <2> QED BY <1>3, <2>1, <2>6 DEF TurnsLoseNothing
<1> QED BY <1>6, <1>8, <1>10, <1>11, <1>12, <1>13 DEF SyncInv

-----------------------------------------------------------------------------
(* Ends of a turn.                                                           *)
LEMMA EndKeeps ==
  ASSUME SyncInv, NEW w \in Workers, worker' = [worker EXCEPT ![w] = Idle],
         UNCHANGED <<published, settled, checkpoint, jobs, pages>>,
         connection' \in {"active", "reauthorization_required", "revoked"},
         faults' \in 0 .. MaxFaults
  PROVE  SyncInv'
<1>1. worker \in [Workers -> {Idle} \union Turn]
  BY DEF SyncInv, TypeOK
<1>2. worker'[w] = Idle /\ \A v \in Workers : v # w => worker'[v] = worker[v]
  BY <1>1
<1>3. TypeOK'
  BY <1>1 DEF SyncInv, TypeOK
<1>4. Forward
  BY Rows DEF Forward, SyncInv
<1>5. PagesCover' /\ CheckpointCovers'
  BY <1>4, PagesFrame, CheckpointFrame
<1>6. OneLiveJob'
  BY DEF OneLiveJob, Live, SyncInv
<1>7. \A k \in Jobs : Live(k)' => Live(k)
  BY DEF Live
<1>8. JobsResume'
  BY <1>4, <1>7, JobFrame DEF JobsResume
<1>9. HoldersAreCurrent'
  BY <1>2 DEF HoldersAreCurrent, Holds, SyncInv
<1>10. TurnsLoseNothing'
  BY <1>2, <1>4, TurnFrame DEF TurnsLoseNothing, TurnPage
<1> QED BY <1>3, <1>5, <1>6, <1>8, <1>9, <1>10 DEF SyncInv

LEMMA HandBackKeeps ==
  ASSUME SyncInv, NEW w \in Workers, worker[w] # Idle,
         NEW state \in {"queued", "succeeded", "failed", "dead"},
         NEW attempt \in Nat, NEW at \in Cursors, NEW offset \in 0 .. MaxFeed,
         HandBack(w, state, attempt, at, offset),
         NEW rest \in {Idle, [worker[w] EXCEPT !.phase = "flagging"]},
         worker' = [worker EXCEPT ![w] = rest],
         UNCHANGED <<published, settled, pages>>,
         connection' \in {"active", "reauthorization_required", "revoked"},
         faults' \in 0 .. MaxFaults,
         checkpoint' \in Cursors, CheckpointCovers',
         checkpoint' # checkpoint => state = "succeeded",
         state = "queued" =>
           /\ checkpoint <= at /\ at <= published
           /\ \A i \in 1 .. at : NeedsNoWork(i)
           /\ \A i \in pages[worker[w].job][at].items :
                Rank(i, pages[worker[w].job][at].items) <= offset => NeedsNoWork(i)
           /\ offset > 0 => offset < Size(pages[worker[w].job][at])
  PROVE  SyncInv'
<1> DEFINE j == worker[w].job
           row == [state |-> state, attempt |-> attempt, at |-> at, offset |-> offset,
                   holder |-> NoWorker, unexpired |-> FALSE]
<1>1. /\ jobs[j].state = "leased" /\ Live(j) /\ j \in Jobs
      /\ jobs' = [jobs EXCEPT ![j] = row]
  BY TurnFacts DEF HandBack, Holds, Live, SyncInv
<1>2. jobs \in [Jobs -> {Absent} \union Job] /\ worker \in [Workers -> {Idle} \union Turn]
  BY DEF SyncInv, TypeOK
<1>a. rest # Idle => /\ rest \in Turn /\ rest.job = worker[w].job /\ rest.at = worker[w].at
                     /\ rest.done = worker[w].done /\ rest.from = worker[w].from
                     /\ rest.phase = "flagging"
  BY <1>2 DEF Turn
<1>3. /\ jobs'[j] = row /\ \A k \in Jobs : k # j => jobs'[k] = jobs[k]
      /\ worker'[w] = rest /\ \A v \in Workers : v # w => worker'[v] = worker[v]
  BY <1>1, <1>2
<1>4. row \in Job
  BY DEF Job
<1>5. PICK n \in Jobs : n = j
  BY <1>1
<1> HIDE DEF row, j
<1>6. TypeOK'
  <2>1. rest \in {Idle} \union Turn
    BY <1>a
  <2>2. worker' \in [Workers -> {Idle} \union Turn]
    BY <1>2, <2>1
  <2>3. jobs' \in [Jobs -> {Absent} \union Job]
    BY <1>1, <1>2, <1>4
  <2> QED BY <2>2, <2>3 DEF SyncInv, TypeOK
<1>7. Forward
  BY Rows DEF Forward, SyncInv
<1>8. PagesCover'
  BY <1>7, PagesFrame
<1>9. \A k \in Jobs : Live(k)' => k = j
  BY <1>1, <1>3 DEF Live, OneLiveJob, SyncInv
<1>10. OneLiveJob'
  BY <1>9 DEF OneLiveJob
<1>11. row.state = state /\ row.at = at /\ row.offset = offset
  BY DEF row
<1>12. JobsResume'
  <2> SUFFICES ASSUME Live(n)' PROVE Resumes(n)'
    BY <1>5, <1>9 DEF JobsResume
  <2>1. state = "queued" /\ jobs'[n].at = at /\ jobs'[n].offset = offset
    BY <1>3, <1>5, <1>11 DEF Live
  <2>2. checkpoint' = checkpoint
    BY <2>1
  <2>3. \A i \in Int : NeedsNoWork(i) => NeedsNoWork(i)'
    BY <1>7, NeedsNoWorkStays, Rows DEF Forward, SyncInv
  <2>4. /\ checkpoint <= at /\ at <= published
        /\ \A i \in 1 .. at : NeedsNoWork(i)
        /\ \A i \in pages[n][at].items : Rank(i, pages[n][at].items) <= offset => NeedsNoWork(i)
        /\ offset > 0 => offset < Size(pages[n][at])
    BY <1>5, <2>1 DEF j
  <2>5. /\ \A i \in pages[n][at].items : i \in Int
        /\ \A i \in 1 .. at : i \in Int
    BY Rows DEF SyncInv
  <2> QED BY <2>1, <2>2, <2>3, <2>4, <2>5 DEF Resumes, Size
<1>13. HoldersAreCurrent'
  <2>1. ASSUME NEW v \in Workers, worker'[v] # Idle, Holds(v)'
        PROVE  v # w /\ worker'[v] = worker[v] /\ worker[v].job \in Jobs /\ worker[v].job # j
    <3>1. worker[v] # Idle /\ worker'[v].job = worker[v].job /\ worker[v].job \in Jobs
      BY <1>3, <1>a, <2>1, TurnFacts DEF SyncInv
    <3>2. jobs'[worker[v].job].state = "leased"
      BY <2>1, <3>1 DEF Holds
    <3>3. worker[v].job # j
      BY <1>3, <1>11, <3>2
    <3>4. v # w
      BY <3>3 DEF j
    <3> QED BY <1>3, <3>1, <3>3, <3>4
  <2>2. ASSUME NEW v \in Workers, worker'[v] # Idle, Holds(v)'
        PROVE  worker'[v].at = jobs'[worker'[v].job].at /\ worker'[v].from = jobs'[worker'[v].job].offset
    <3>1. v # w /\ worker'[v] = worker[v] /\ jobs'[worker[v].job] = jobs[worker[v].job]
      BY <1>3, <2>1, <2>2
    <3>2. Holds(v) /\ worker[v] # Idle
      BY <2>2, <3>1 DEF Holds
    <3> QED BY <3>1, <3>2 DEF HoldersAreCurrent, SyncInv
  <2> QED BY <2>2 DEF HoldersAreCurrent
<1>14. TurnsLoseNothing'
  <2>1. ASSUME NEW v \in Workers, v # w, worker'[v] # Idle PROVE TurnIsSafe(v)'
    BY <1>3, <1>7, <2>1, TurnFrame DEF TurnPage
  <2>2. ASSUME rest # Idle PROVE TurnIsSafe(w)'
    <3>1. TurnPage(w)' = TurnPage(w)
      BY <1>3, <1>a, <2>2 DEF TurnPage
    <3>2. \A i \in Int : NeedsNoWork(i) => NeedsNoWork(i)'
      BY <1>7, NeedsNoWorkStays, Rows DEF Forward, SyncInv
    <3>3. /\ worker[w].at \in Nat /\ TurnPage(w).items \subseteq 1 .. MaxFeed /\ published \in Nat
      BY TurnFacts, Rows DEF SyncInv
    <3>4. TurnIsSafe(w) /\ \A i \in TurnPage(w).items : i \in Int
      BY <3>3 DEF SyncInv, TurnsLoseNothing
    <3>5. /\ worker'[w].at = worker[w].at /\ worker'[w].done = worker[w].done
          /\ worker'[w].from = worker[w].from /\ worker'[w].phase = "flagging"
      BY <1>3, <1>a, <2>2
    <3> QED BY <1>7, <3>1, <3>2, <3>3, <3>4, <3>5 DEF TurnIsSafe, Size
  <2> QED BY <1>3, <2>1, <2>2 DEF TurnsLoseNothing
<1> QED BY <1>6, <1>8, <1>10, <1>12, <1>13, <1>14 DEF SyncInv

LEMMA CompleteKeeps ==
  ASSUME SyncInv, NEW w \in Workers, worker[w] # Idle,
         NEW state \in {"queued", "succeeded", "failed", "dead"},
         NEW attempt \in Nat, NEW at \in Cursors, NEW offset \in 0 .. MaxFeed,
         Complete(w, state, attempt, at, offset),
         UNCHANGED <<published, settled, pages>>,
         connection' \in {"active", "reauthorization_required", "revoked"},
         faults' \in 0 .. MaxFaults,
         checkpoint' \in Cursors, CheckpointCovers',
         checkpoint' # checkpoint => state = "succeeded",
         state = "queued" =>
           /\ checkpoint <= at /\ at <= published
           /\ \A i \in 1 .. at : NeedsNoWork(i)
           /\ \A i \in pages[worker[w].job][at].items :
                Rank(i, pages[worker[w].job][at].items) <= offset => NeedsNoWork(i)
           /\ offset > 0 => offset < Size(pages[worker[w].job][at])
  PROVE  SyncInv'
BY HandBackKeeps DEF Complete

(* The attempt that dies of its token goes on to flag the connection.        *)
LEMMA DyingKeeps ==
  ASSUME SyncInv, NEW w \in Workers, worker[w] # Idle, NEW j \in Jobs, j = worker[w].job,
         HandBack(w, "dead", jobs[j].attempt, jobs[j].at, jobs[j].offset),
         worker' = [worker EXCEPT ![w].phase = "flagging"],
         UNCHANGED <<published, settled, checkpoint, connection, pages, faults>>
  PROVE  SyncInv'
<1>1. Live(j)
  BY DEF HandBack, Holds, Live
<1>2. jobs[j].attempt \in Nat /\ jobs[j].at \in Cursors /\ jobs[j].offset \in 0 .. MaxFeed
  BY <1>1, Rows DEF SyncInv, Job
<1>3. CheckpointCovers' /\ checkpoint' \in Cursors
  BY CheckpointFrame, Rows DEF SyncInv, Forward, TypeOK
<1>4. PICK rest : rest = [worker[w] EXCEPT !.phase = "flagging"]
  OBVIOUS
<1>5. worker' = [worker EXCEPT ![w] = rest]
  BY <1>4 DEF SyncInv, TypeOK
<1>6. /\ connection' \in {"active", "reauthorization_required", "revoked"}
      /\ faults' \in 0 .. MaxFaults
  BY DEF SyncInv, TypeOK
<1> QED BY <1>2, <1>3, <1>4, <1>5, <1>6, HandBackKeeps

(* A job handed back where it stood.                                         *)
LEMMA CompleteInPlaceKeeps ==
  ASSUME SyncInv, NEW w \in Workers, worker[w] # Idle,
         NEW state \in {"queued", "succeeded", "failed", "dead"}, NEW attempt \in Nat,
         CompleteInPlace(w, state, attempt),
         UNCHANGED <<published, settled, pages, checkpoint>>,
         connection' \in {"active", "reauthorization_required", "revoked"},
         faults' \in 0 .. MaxFaults
  PROVE  SyncInv'
<1>1. PICK j \in Jobs : j = worker[w].job
  BY TurnFacts DEF SyncInv
<1>2. Complete(w, state, attempt, jobs[j].at, jobs[j].offset) /\ Live(j)
  BY <1>1 DEF CompleteInPlace, Complete, HandBack, Holds, Live
<1>3. jobs[j].at \in Cursors /\ jobs[j].offset \in 0 .. MaxFeed
  BY <1>2, Rows DEF SyncInv, Job
<1>4. /\ checkpoint <= jobs[j].at /\ jobs[j].at <= published
      /\ \A i \in 1 .. jobs[j].at : NeedsNoWork(i)
      /\ \A i \in pages[worker[w].job][jobs[j].at].items :
           Rank(i, pages[worker[w].job][jobs[j].at].items) <= jobs[j].offset => NeedsNoWork(i)
      /\ jobs[j].offset > 0 => jobs[j].offset < Size(pages[worker[w].job][jobs[j].at])
  BY <1>1, <1>2 DEF SyncInv, JobsResume, Resumes
<1>5. CheckpointCovers' /\ checkpoint' \in Cursors
  BY CheckpointFrame, Rows DEF SyncInv, Forward, TypeOK
<1> QED BY <1>2, <1>3, <1>4, <1>5, CompleteKeeps

LEMMA Awake ==
  ASSUME NEW w \in Workers, worker[w].phase \in {"claimed", "working", "flagging"}
  PROVE  worker[w] # Idle
BY DEF Idle

LEMMA InPlaceOutcomes ==
  ASSUME SyncInv, NEW w \in Workers, FailRevoked(w) \/ FailRefresh(w) \/ Retry(w) \/ Defer(w)
  PROVE  SyncInv'
<1>1. worker[w] # Idle
  BY Awake DEF FailRevoked, FailRefresh, Retry, Defer, Admissible, Importing
<1>2. CASE Holds(w)
  <2>1. PICK j \in Jobs : j = worker[w].job
    BY <1>1, TurnFacts DEF SyncInv
  <2>2. jobs[j].attempt \in Nat
    BY <1>2, <2>1, Rows DEF Holds, Live, Job, SyncInv
  <2>3. AfterRetry(j) \in {"dead", "queued"}
    BY DEF AfterRetry
  <2>4. /\ connection \in {"active", "reauthorization_required", "revoked"}
        /\ faults \in 0 .. MaxFaults /\ MaxFaults \in Nat
    BY BoundsAssumption DEF SyncInv, TypeOK
  <2>5. CASE FailRevoked(w)
    <3>1. CompleteInPlace(w, "failed", jobs[j].attempt)
      BY <2>1, <2>5 DEF FailRevoked
    <3> QED BY <1>1, <2>2, <2>4, <2>5, <3>1, CompleteInPlaceKeeps DEF FailRevoked
  <2>6. CASE FailRefresh(w)
    <3>1. CASE CompleteInPlace(w, "queued", jobs[j].attempt)
      BY <1>1, <2>2, <2>4, <2>6, <3>1, CompleteInPlaceKeeps DEF FailRefresh
    <3>2. CASE /\ HandBack(w, "dead", jobs[j].attempt, jobs[j].at, jobs[j].offset)
               /\ worker' = [worker EXCEPT ![w].phase = "flagging"]
      BY <1>1, <2>1, <2>6, <3>2, DyingKeeps DEF FailRefresh
    <3> QED BY <2>1, <2>6, <3>1, <3>2 DEF FailRefresh
  <2>7. CASE Retry(w)
    <3>1. CompleteInPlace(w, AfterRetry(j), jobs[j].attempt)
      BY <2>1, <2>7 DEF Retry
    <3> QED BY <1>1, <2>2, <2>3, <2>4, <2>7, <3>1, CompleteInPlaceKeeps DEF Retry
  <2>8. CASE Defer(w)
    <3>1. CompleteInPlace(w, "queued", 0) /\ faults' \in 0 .. MaxFaults
      BY <2>4, <2>8 DEF Defer
    <3> QED BY <1>1, <2>4, <2>8, <3>1, CompleteInPlaceKeeps DEF Defer
  <2> QED BY <2>5, <2>6, <2>7, <2>8
<1>3. CASE ~Holds(w)
  BY <1>3 DEF FailRevoked, FailRefresh, Retry, Defer, CompleteInPlace, Complete, HandBack
<1> QED BY <1>2, <1>3

(* What a worker that reports has behind it.                                 *)
LEMMA ReportFacts ==
  ASSUME SyncInv, NEW w \in Workers, Reporting(w)
  PROVE  /\ worker[w] # Idle /\ TurnPage(w) \in Page /\ Covers(TurnPage(w), worker[w].at)
         /\ WholePage(w) => \A i \in 1 .. TurnPage(w).cursor : NeedsNoWork(i)
<1>1. worker[w] # Idle /\ worker[w].phase = "working"
  BY Awake DEF Reporting
<1>2. TurnIsSafe(w) /\ TurnPage(w) # NoPage
  BY <1>1 DEF SyncInv, TurnsLoseNothing, TurnIsSafe
<1>3. TurnPage(w) \in Page /\ worker[w].job \in Jobs /\ worker[w].at \in Cursors
      /\ TurnPage(w) = pages[worker[w].job][worker[w].at]
      /\ TurnPage(w).items \subseteq 1 .. MaxFeed
  BY <1>1, <1>2, TurnFacts DEF SyncInv
<1>4. Covers(TurnPage(w), worker[w].at)
  BY <1>2, <1>3 DEF SyncInv, PagesCover
<1>5. ASSUME WholePage(w), NEW i \in 1 .. TurnPage(w).cursor
      PROVE  NeedsNoWork(i)
  <2>0. worker[w].at \in Nat /\ TurnPage(w).cursor \in Nat
    BY <1>3, Rows DEF SyncInv, Page
  <2>1. CASE i <= worker[w].at
    BY <1>2, <2>0, <2>1 DEF TurnIsSafe
  <2>2. CASE i \in TurnPage(w).items
    <3>1. /\ Size(TurnPage(w)) \in 0 .. MaxFeed
          /\ Rank(i, TurnPage(w).items) \in 0 .. Size(TurnPage(w))
      BY <1>3, RankFacts, BoundsAssumption DEF Size
    <3>2. Rank(i, TurnPage(w).items) <= worker[w].done
      BY <1>5, <3>1 DEF WholePage
    <3> QED BY <1>2, <2>2, <3>2 DEF TurnIsSafe
  <2>3. CASE i \in worker[w].at + 1 .. TurnPage(w).cursor /\ i \notin TurnPage(w).items
    <3>1. Promise!Superseded(i)
      BY <1>4, <2>3 DEF Covers
    <3> QED BY <3>1 DEF NeedsNoWork, Promise!NeedsNoWork
  <2> QED BY <2>0, <2>1, <2>2, <2>3
<1> QED BY <1>1, <1>3, <1>4, <1>5

(* A page of which an offset counts nothing.                                 *)
LEMMA NothingBefore ==
  ASSUME TypeOK, NEW j \in Jobs, NEW c \in Cursors
  PROVE  \A i \in pages[j][c].items : ~(Rank(i, pages[j][c].items) <= 0)
<1>1. pages[j][c].items \subseteq 1 .. MaxFeed /\ MaxFeed \in Nat
  BY Rows
<1>2. /\ Cardinality(pages[j][c].items) \in 0 .. MaxFeed
      /\ \A i : Rank(i, pages[j][c].items) \in 0 .. Cardinality(pages[j][c].items)
      /\ \A i \in pages[j][c].items : 1 <= Rank(i, pages[j][c].items)
  BY <1>1, RankFacts
<1> QED BY <1>1, <1>2

LEMMA ReportProgressKeeps ==
  ASSUME SyncInv, NEW w \in Workers, ReportProgress(w)
  PROVE  SyncInv'
<1>1. /\ Reporting(w) /\ ~FeedComplete(w)
      /\ UNCHANGED <<published, settled, checkpoint, connection, pages, faults>>
  BY DEF ReportProgress
<1>2. /\ worker[w] # Idle /\ TurnPage(w) \in Page /\ Covers(TurnPage(w), worker[w].at)
      /\ WholePage(w) => \A i \in 1 .. TurnPage(w).cursor : NeedsNoWork(i)
  BY <1>1, ReportFacts
<1>3. PICK j \in Jobs : j = worker[w].job
  BY <1>2, TurnFacts DEF SyncInv
<1>4. /\ worker[w].at \in Cursors /\ worker[w].at \in Nat /\ worker[w].done \in 0 .. MaxFeed
      /\ worker[w].from \in 0 .. MaxFeed /\ TurnPage(w) = pages[j][worker[w].at]
      /\ Size(TurnPage(w)) \in 0 .. MaxFeed
      /\ MaxFeed \in Nat /\ published \in Nat /\ checkpoint \in Nat
  BY <1>2, <1>3, TurnFacts, Rows DEF SyncInv
<1>5. TurnIsSafe(w)
  BY <1>2 DEF SyncInv, TurnsLoseNothing
<1>6. /\ connection' \in {"active", "reauthorization_required", "revoked"}
      /\ faults' \in 0 .. MaxFaults /\ checkpoint' \in Cursors
  BY <1>1 DEF SyncInv, TypeOK
<1>7. CheckpointCovers'
  BY <1>1, <1>4, CheckpointFrame DEF Forward
<1>8. ASSUME Holds(w) PROVE checkpoint <= worker[w].at
  <2>1. Live(j)
    BY <1>3, <1>8 DEF Holds, Live
  <2>2. worker[w].at = jobs[j].at
    BY <1>2, <1>3, <1>8 DEF SyncInv, HoldersAreCurrent
  <2> QED BY <2>1, <2>2 DEF SyncInv, JobsResume, Resumes
<1>9. CASE WholePage(w)
  <2>1. Complete(w, "queued", 0, TurnPage(w).cursor, 0) /\ Holds(w)
    BY <1>9 DEF ReportProgress, Complete, HandBack
  <2>2. PICK at \in Cursors : at = TurnPage(w).cursor
    BY <1>2 DEF Page
  <2>3. checkpoint <= at /\ at <= published
    BY <1>2, <1>4, <1>8, <2>1, <2>2 DEF Covers
  <2>4. \A i \in pages[j][at].items : ~(Rank(i, pages[j][at].items) <= 0)
    BY NothingBefore DEF SyncInv
  <2>5. Complete(w, "queued", 0, at, 0) /\ \A i \in 1 .. at : NeedsNoWork(i)
    BY <1>2, <1>9, <2>1, <2>2
  <2>6. 0 \in 0 .. MaxFeed /\ 0 \in Nat
    BY <1>4
  <2> HIDE DEF Reporting
  <2> QED BY <1>1, <1>2, <1>3, <1>6, <1>7, <2>3, <2>4, <2>5, <2>6, CompleteKeeps
<1>10. CASE ~WholePage(w)
  <2>1. Complete(w, "queued", 0, worker[w].at, worker[w].done) /\ Holds(w)
    BY <1>10 DEF ReportProgress, Complete, HandBack
  <2>2. worker[w].done < Size(TurnPage(w))
    BY <1>4, <1>5, <1>10 DEF WholePage, TurnIsSafe
  <2>3. /\ checkpoint <= worker[w].at /\ worker[w].at <= published
        /\ \A i \in 1 .. worker[w].at : NeedsNoWork(i)
        /\ \A i \in pages[worker[w].job][worker[w].at].items :
             Rank(i, pages[worker[w].job][worker[w].at].items) <= worker[w].done => NeedsNoWork(i)
        /\ worker[w].done < Size(pages[worker[w].job][worker[w].at])
    BY <1>3, <1>4, <1>5, <1>8, <2>1, <2>2 DEF TurnIsSafe
  <2> QED BY <1>1, <1>2, <1>4, <1>6, <1>7, <2>1, <2>3, CompleteKeeps
<1> QED BY <1>9, <1>10

LEMMA ReportSuccessKeeps ==
  ASSUME SyncInv, NEW w \in Workers, ReportSuccess(w)
  PROVE  SyncInv'
<1>1. /\ Reporting(w) /\ WholePage(w) /\ checkpoint' = TurnPage(w).cursor
      /\ Complete(w, "succeeded", jobs[worker[w].job].attempt, TurnPage(w).cursor, 0)
      /\ UNCHANGED <<published, settled, connection, pages, faults>>
  BY DEF ReportSuccess, FeedComplete
<1>2. /\ worker[w] # Idle /\ TurnPage(w) \in Page /\ Covers(TurnPage(w), worker[w].at)
      /\ \A i \in 1 .. TurnPage(w).cursor : NeedsNoWork(i)
  BY <1>1, ReportFacts
<1>3. PICK j \in Jobs : j = worker[w].job
  BY <1>2, TurnFacts DEF SyncInv
<1>4. PICK at \in Cursors : at = TurnPage(w).cursor
  BY <1>2 DEF Page
<1>5. jobs[j].attempt \in Nat
  <2>1. Live(j)
    BY <1>1, <1>3 DEF Complete, HandBack, Holds, Live
  <2> QED BY <2>1, Rows DEF SyncInv, Job
<1>6. /\ connection' \in {"active", "reauthorization_required", "revoked"}
      /\ faults' \in 0 .. MaxFaults
  BY <1>1 DEF SyncInv, TypeOK
<1>7. MaxFeed \in Nat /\ published \in Nat /\ worker[w].at \in Nat
  BY <1>2, Rows, TurnFacts DEF SyncInv
<1>8. CheckpointCovers'
  <2>1. at <= published
    BY <1>2, <1>4, <1>7 DEF Covers
  <2>2. \A i \in Int : NeedsNoWork(i) => NeedsNoWork(i)'
    BY <1>1, <1>7, NeedsNoWorkStays
  <2>3. checkpoint' = at /\ published' = published /\ \A i \in 1 .. at : NeedsNoWork(i)
    BY <1>1, <1>2, <1>4
  <2>4. \A i \in 1 .. at : i \in Int
    OBVIOUS
  <2> QED BY <2>1, <2>2, <2>3, <2>4 DEF CheckpointCovers
<1>9. Complete(w, "succeeded", jobs[j].attempt, at, 0) /\ checkpoint' \in Cursors /\ 0 \in 0 .. MaxFeed
  BY <1>1, <1>3, <1>4, <1>7
<1> QED BY <1>1, <1>2, <1>5, <1>6, <1>8, <1>9, CompleteKeeps

-----------------------------------------------------------------------------
(* Steps of a turn.                                                          *)
LEMMA LoadPageKeeps ==
  ASSUME SyncInv, NEW w \in Workers, LoadPage(w)
  PROVE  SyncInv'
<1>1. /\ worker[w].phase = "claimed" /\ worker[w] # Idle
      /\ worker' = [worker EXCEPT ![w].phase = "working"]
      /\ UNCHANGED <<published, settled, checkpoint, connection, jobs, faults>>
  BY Awake DEF LoadPage
<1>2. PICK j \in Jobs, c \in Cursors : j = worker[w].job /\ c = worker[w].at
  BY <1>1, TurnFacts DEF SyncInv
<1>3. /\ worker \in [Workers -> {Idle} \union Turn] /\ worker[w] \in Turn
      /\ pages \in [Jobs -> [Cursors -> {NoPage} \union Page]]
      /\ published \in 0 .. MaxFeed
  BY <1>1, Rows DEF SyncInv, TypeOK
<1>4. TurnIsSafe(w) /\ c <= published
  BY <1>1, <1>2 DEF SyncInv, TurnsLoseNothing, TurnIsSafe
(* The page the turn goes on with. *)
<1>5. PICK page \in Page : /\ Covers(page, c) /\ page # NoPage
                           /\ pages' = [pages EXCEPT ![j][c] = page]
                           /\ pages[j][c] # NoPage => pages[j][c] = page
  <2>1. CASE pages[j][c] # NoPage
    <3>1. pages' = pages
      BY <1>2, <2>1 DEF LoadPage
    <3>2. pages[j][c] \in Page /\ Covers(pages[j][c], c)
      BY <1>3, <2>1 DEF SyncInv, PagesCover
    <3>3. pages = [pages EXCEPT ![j][c] = pages[j][c]]
      BY <1>3
    <3> QED BY <2>1, <3>1, <3>2, <3>3
  <2>2. CASE pages[j][c] = NoPage
    <3>1. PICK p \in c .. published : pages' = [pages EXCEPT ![j][c] = Listing(c, p)]
      BY <1>2, <2>2 DEF LoadPage
    <3>2. Listing(c, p) \in Page /\ Covers(Listing(c, p), c)
      BY <1>3, ListingCovers
    <3>3. ~(-1 \in Cursors)
      BY BoundsAssumption DEF Cursors
    <3>4. Listing(c, p).cursor \in Cursors /\ NoPage.cursor = -1
      BY <3>2 DEF Page, NoPage
    <3>5. Listing(c, p) # NoPage
      BY <3>3, <3>4
    <3> QED BY <2>2, <3>1, <3>2, <3>5
  <2> QED BY <2>1, <2>2
<1>6. /\ pages'[j][c] = page
      /\ \A k \in Jobs : \A d \in Cursors : pages[k][d] # NoPage => pages'[k][d] = pages[k][d]
      /\ \A k \in Jobs : \A d \in Cursors : ~(k = j /\ d = c) => pages'[k][d] = pages[k][d]
  BY <1>3, <1>5
<1>7. /\ worker'[w] = [worker[w] EXCEPT !.phase = "working"]
      /\ \A v \in Workers : v # w => worker'[v] = worker[v]
  BY <1>1, <1>3
<1>8. /\ worker'[w].job = j /\ worker'[w].at = c /\ worker'[w].done = worker[w].done
      /\ worker'[w].from = worker[w].from /\ worker'[w] \in Turn
  BY <1>2, <1>3, <1>7 DEF Turn
<1>9. TypeOK'
  <2>1. pages' \in [Jobs -> [Cursors -> {NoPage} \union Page]]
    BY <1>3, <1>5
  <2>2. worker' \in [Workers -> {Idle} \union Turn]
    BY <1>1, <1>3, <1>7, <1>8
  <2> QED BY <1>1, <2>1, <2>2 DEF SyncInv, TypeOK
<1>10. Forward
  BY <1>1, Rows DEF Forward, SyncInv
<1>11. PagesCover'
  <2>1. \A k \in Jobs : \A d \in Cursors : pages'[k][d] # NoPage => Covers(pages'[k][d], d)
    BY <1>5, <1>6 DEF SyncInv, PagesCover
  <2>2. ASSUME NEW k \in Jobs, NEW d \in Cursors, pages'[k][d] # NoPage
        PROVE  Covers(pages[k][d], d)'
    <3>1. Covers(pages'[k][d], d)
      BY <2>1, <2>2
    <3> QED BY <1>1, <3>1 DEF Covers, Promise!Superseded
  <2> QED BY <2>2 DEF PagesCover, Cursors
<1>12. CheckpointCovers'
  BY <1>1, <1>10, CheckpointFrame
<1>13. OneLiveJob'
  BY <1>1 DEF OneLiveJob, Live, SyncInv
(* A page nobody had read has no item behind an offset. *)
<1>14. ASSUME NEW k \in Jobs, NEW d \in Cursors, NEW n \in Nat, n <= Size(pages[k][d])
       PROVE  \/ pages'[k][d] = pages[k][d]
              \/ n = 0
  <2>1. Size(NoPage) = 0
    BY FS_EmptySet DEF Size, NoPage
  <2> QED BY <1>6, <1>14, <2>1
<1>15. \A i \in Int : NeedsNoWork(i) => NeedsNoWork(i)'
  BY <1>10, NeedsNoWorkStays, Rows DEF Forward, SyncInv
<1>16. \A k \in Jobs : \A d \in Cursors :
          \A i \in pages'[k][d].items : ~(Rank(i, pages'[k][d].items) <= 0)
  <2>1. \A k \in Jobs : \A d \in Cursors :
           pages'[k][d].items \subseteq 1 .. MaxFeed /\ MaxFeed \in Nat
    BY <1>5, <1>6, Rows DEF SyncInv, Page, Promise!Positions
  <2>2. ASSUME NEW k \in Jobs, NEW d \in Cursors, NEW i \in pages'[k][d].items
        PROVE  ~(Rank(i, pages'[k][d].items) <= 0)
    <3>1. PICK S : S = pages'[k][d].items
      OBVIOUS
    <3>2. S \subseteq 1 .. MaxFeed /\ MaxFeed \in Nat /\ i \in S
      BY <2>1, <3>1
    <3>3. Cardinality(S) \in 0 .. MaxFeed /\ Rank(i, S) \in 0 .. Cardinality(S) /\ 1 <= Rank(i, S)
      BY <3>2, RankFacts
    <3> QED BY <3>1, <3>2, <3>3
  <2> QED BY <2>2
<1>17. JobsResume'
  <2> SUFFICES ASSUME NEW k \in Jobs, Live(k)' PROVE Resumes(k)'
    BY DEF JobsResume
  <2>1. Live(k) /\ Resumes(k) /\ jobs'[k] = jobs[k]
    BY <1>1 DEF SyncInv, JobsResume, Live
  <2>2. /\ jobs[k].at \in Cursors /\ jobs[k].offset \in Nat /\ Cursors \subseteq Nat
        /\ Size(pages[k][jobs[k].at]) \in Nat
    <3>1. jobs[k] \in Job /\ MaxFeed \in Nat /\ Cursors \subseteq Nat
      BY <2>1, Rows DEF SyncInv
    <3>2. jobs[k].at \in Cursors /\ jobs[k].offset \in Nat
      BY <3>1 DEF Job
    <3>3. pages[k][jobs[k].at].items \subseteq 1 .. MaxFeed
      BY <3>2, Rows DEF SyncInv
    <3> QED BY <3>1, <3>2, <3>3, RankFacts DEF Size
  <2>3. CASE jobs[k].offset = 0
    <3>1. \A i \in pages'[k][jobs[k].at].items : ~(Rank(i, pages'[k][jobs[k].at].items) <= 0)
      BY <1>16, <2>2
    <3> QED BY <1>1, <1>15, <2>1, <2>2, <2>3, <3>1 DEF Resumes, Size
  <2>4. CASE jobs[k].offset # 0
    <3>1. jobs[k].offset <= Size(pages[k][jobs[k].at])
      BY <2>1, <2>2, <2>4 DEF Resumes
    <3>2. pages'[k][jobs[k].at] = pages[k][jobs[k].at]
      BY <1>14, <2>2, <2>4, <3>1
    <3>3. \A i \in pages[k][jobs[k].at].items : i \in Int
      <4>1. pages[k][jobs[k].at].items \subseteq 1 .. MaxFeed
        BY <2>2, Rows DEF SyncInv
      <4> QED BY <4>1
    <3> QED BY <1>1, <1>15, <2>1, <2>2, <3>2, <3>3 DEF Resumes, Size
  <2> QED BY <2>3, <2>4
<1>18. HoldersAreCurrent'
  <2>1. \A v \in Workers : worker[v] # Idle \/ v = w =>
          /\ worker'[v].job = worker[v].job /\ worker'[v].at = worker[v].at
          /\ worker'[v].from = worker[v].from
    BY <1>2, <1>7, <1>8
  <2>2. \A v \in Workers : worker'[v] # Idle => worker[v] # Idle
    BY <1>1, <1>7
  <2> QED BY <1>1, <2>1, <2>2 DEF SyncInv, HoldersAreCurrent, Holds
<1>19. TurnsLoseNothing'
  <2>1. ASSUME NEW v \in Workers, worker[v] # Idle,
               worker'[v].job = worker[v].job, worker'[v].at = worker[v].at,
               worker'[v].done = worker[v].done, worker'[v].from = worker[v].from
        PROVE  /\ worker'[v].at <= published'
               /\ \A i \in 1 .. worker'[v].at : NeedsNoWork(i)'
               /\ \A i \in TurnPage(v)'.items :
                    Rank(i, TurnPage(v)'.items) <= worker'[v].done => NeedsNoWork(i)'
               /\ worker'[v].from <= worker'[v].done
               /\ worker'[v].done <= Size(TurnPage(v)')
               /\ TurnPage(v) # NoPage => TurnPage(v)' = TurnPage(v)
    <3>1. PICK k \in Jobs, d \in Cursors : k = worker[v].job /\ d = worker[v].at
      BY <2>1, TurnFacts DEF SyncInv
    <3>2. /\ worker[v].done \in Nat /\ TurnPage(v) = pages[k][d] /\ TurnPage(v)' = pages'[k][d]
          /\ Size(TurnPage(v)) \in Nat /\ d \in Nat
      BY <2>1, <3>1, TurnFacts, Rows DEF SyncInv, TurnPage
    <3>3. TurnIsSafe(v)
      BY <2>1 DEF SyncInv, TurnsLoseNothing
    <3>4. \A i \in 1 .. worker[v].at : i \in Int
      BY <3>1, <3>2
    <3>5. /\ worker'[v].at <= published' /\ \A i \in 1 .. worker'[v].at : NeedsNoWork(i)'
          /\ worker'[v].from <= worker'[v].done
      BY <1>1, <1>15, <2>1, <3>3, <3>4 DEF TurnIsSafe
    <3>6. pages'[k][d] = pages[k][d] \/ worker[v].done = 0
      BY <1>14, <3>2, <3>3 DEF TurnIsSafe
    <3>7. CASE pages'[k][d] = pages[k][d]
      <4>1. \A i \in TurnPage(v).items : i \in Int
        BY <3>2, Rows DEF SyncInv
      <4> QED BY <1>15, <2>1, <3>2, <3>3, <3>5, <3>7, <4>1 DEF TurnIsSafe
    <3>8. CASE worker[v].done = 0
      <4>1. \A i \in TurnPage(v)'.items : ~(Rank(i, TurnPage(v)'.items) <= 0)
        BY <1>16, <3>2
      <4>2. 0 <= Size(TurnPage(v)')
        <5>1. pages'[k][d].items \subseteq 1 .. MaxFeed /\ MaxFeed \in Nat
          BY <1>5, <1>6, Rows DEF SyncInv, Page, Promise!Positions
        <5>2. Cardinality(pages'[k][d].items) \in 0 .. MaxFeed
          BY <5>1, RankFacts
        <5> QED BY <3>2, <5>1, <5>2 DEF Size
      <4>3. TurnPage(v) # NoPage => TurnPage(v)' = TurnPage(v)
        BY <1>6, <3>2
      <4> QED BY <2>1, <3>5, <3>8, <4>1, <4>2, <4>3
    <3> QED BY <3>6, <3>7, <3>8
  <2>2. TurnIsSafe(w)'
    <3>1. TurnPage(w)' = page
      BY <1>6, <1>8 DEF TurnPage
    <3> QED BY <1>1, <1>2, <1>5, <1>8, <2>1, <3>1 DEF TurnIsSafe
  <2>3. ASSUME NEW v \in Workers, v # w, worker'[v] # Idle PROVE TurnIsSafe(v)'
    <3>1. worker[v] # Idle /\ worker'[v] = worker[v]
      BY <1>7, <2>3
    <3>2. worker[v].phase = "working" => TurnPage(v) # NoPage
      BY <3>1 DEF SyncInv, TurnsLoseNothing, TurnIsSafe
    <3> QED BY <2>1, <3>1, <3>2 DEF TurnIsSafe
  <2> QED BY <2>2, <2>3 DEF TurnsLoseNothing
<1> QED BY <1>9, <1>11, <1>12, <1>13, <1>17, <1>18, <1>19 DEF SyncInv

LEMMA RecordRemovalKeeps ==
  ASSUME SyncInv, NEW w \in Workers, RecordRemoval(w)
  PROVE  SyncInv'
<1>1. /\ worker[w].phase = "working" /\ worker[w] # Idle
      /\ UNCHANGED <<published, checkpoint, connection, jobs, pages, worker, faults>>
  BY Awake DEF RecordRemoval
<1>2. PICK i \in TurnPage(w).items : settled' = settled \union {i}
  BY DEF RecordRemoval, PendingRemovals
<1>3. i \in 1 .. published
  <2>1. TurnPage(w) # NoPage
    BY <1>1 DEF SyncInv, TurnsLoseNothing, TurnIsSafe
  <2>2. /\ worker[w].job \in Jobs /\ worker[w].at \in Cursors /\ Cursors \subseteq Nat
        /\ TurnPage(w) = pages[worker[w].job][worker[w].at] /\ published \in Nat
    BY <1>1, TurnFacts, Rows DEF SyncInv
  <2>3. Covers(TurnPage(w), worker[w].at)
    BY <2>1, <2>2 DEF SyncInv, PagesCover
  <2>4. /\ i \in worker[w].at + 1 .. TurnPage(w).cursor
        /\ TurnPage(w).cursor \in worker[w].at .. published
    BY <1>2, <2>3 DEF Covers
  <2>5. worker[w].at \in Nat
    BY <2>2
  <2>6. PICK d \in worker[w].at .. published : i \in worker[w].at + 1 .. d
    BY <2>4
  <2> QED BY <2>2, <2>5, <2>6
<1>4. TypeOK'
  BY <1>1, <1>2, <1>3 DEF SyncInv, TypeOK
<1>5. Forward
  BY <1>1, <1>2, Rows DEF Forward, SyncInv
<1>6. PagesCover' /\ CheckpointCovers'
  BY <1>1, <1>5, PagesFrame, CheckpointFrame
<1>7. \A k \in Jobs : Live(k)' => Live(k)
  BY <1>1 DEF Live
<1>8. JobsResume'
  BY <1>1, <1>5, <1>7, JobFrame DEF JobsResume
<1>9. OneLiveJob'
  BY <1>7 DEF OneLiveJob, SyncInv
<1>10. HoldersAreCurrent'
  BY <1>1 DEF HoldersAreCurrent, Holds, SyncInv
<1>11. TurnsLoseNothing'
  BY <1>1, <1>5, TurnFrame DEF TurnsLoseNothing, TurnPage
<1> QED BY <1>4, <1>6, <1>8, <1>9, <1>10, <1>11 DEF SyncInv

(* The item an importing turn comes to, one behind which is then done.       *)
LEMMA NextItem ==
  ASSUME SyncInv, NEW w \in Workers, Importing(w)
  PROVE  /\ worker[w] # Idle /\ worker[w].done + 1 \in 0 .. MaxFeed
         /\ worker[w].imported + 1 \in 0 .. ImportLimit
         /\ worker[w].done + 1 <= Size(TurnPage(w))
         /\ Upcoming(w) \in TurnPage(w).items /\ Upcoming(w) \in 1 .. published
         /\ worker[w].from < Rank(Upcoming(w), TurnPage(w).items)
         /\ \A i \in TurnPage(w).items :
              Rank(i, TurnPage(w).items) <= worker[w].done + 1 =>
                Rank(i, TurnPage(w).items) <= worker[w].done \/ i = Upcoming(w)
<1>1. worker[w] # Idle /\ worker[w].phase = "working"
  BY Awake DEF Importing
<1>2. /\ worker[w].job \in Jobs /\ worker[w].at \in Cursors /\ Cursors \subseteq Nat
      /\ TurnPage(w) = pages[worker[w].job][worker[w].at] /\ published \in Nat
      /\ MaxFeed \in Nat /\ ImportLimit \in Nat
      /\ worker[w].done \in 0 .. MaxFeed /\ worker[w].imported \in 0 .. ImportLimit
      /\ Size(TurnPage(w)) \in 0 .. MaxFeed /\ TurnPage(w).items \subseteq 1 .. MaxFeed
  BY <1>1, TurnFacts, Rows, BoundsAssumption DEF SyncInv
<1>3. TurnIsSafe(w)
  BY <1>1 DEF SyncInv, TurnsLoseNothing
<1>4. worker[w].done # Size(TurnPage(w)) /\ worker[w].imported # ImportLimit
  BY DEF Importing, BatchDone
<1>5. worker[w].done + 1 \in 1 .. Size(TurnPage(w)) /\ worker[w].imported + 1 \in 0 .. ImportLimit
  BY <1>2, <1>3, <1>4 DEF TurnIsSafe
<1>6. /\ Upcoming(w) \in TurnPage(w).items
      /\ Rank(Upcoming(w), TurnPage(w).items) = worker[w].done + 1
  BY <1>2, <1>5, ItemIsThere DEF Upcoming
<1>7. Upcoming(w) \in 1 .. published
  <2>1. Covers(TurnPage(w), worker[w].at)
    BY <1>1, <1>2, <1>3 DEF SyncInv, PagesCover, TurnIsSafe
  <2>2. /\ Upcoming(w) \in worker[w].at + 1 .. TurnPage(w).cursor
        /\ TurnPage(w).cursor \in worker[w].at .. published
    BY <1>6, <2>1 DEF Covers
  <2>3. worker[w].at \in Nat
    BY <1>2
  <2>4. PICK d \in worker[w].at .. published : Upcoming(w) \in worker[w].at + 1 .. d
    BY <2>2
  <2> QED BY <1>2, <2>3, <2>4
<1>8. ASSUME NEW i \in TurnPage(w).items, Rank(i, TurnPage(w).items) <= worker[w].done + 1
      PROVE  Rank(i, TurnPage(w).items) <= worker[w].done \/ i = Upcoming(w)
  <2>1. /\ Rank(i, TurnPage(w).items) \in 0 .. Size(TurnPage(w)) /\ i \in Int
        /\ Upcoming(w) \in Int
    BY <1>2, <1>6, RankFacts DEF Size
  <2>2. CASE i < Upcoming(w)
    <3>1. Rank(i, TurnPage(w).items) < Rank(Upcoming(w), TurnPage(w).items)
      BY <1>2, <1>6, <2>1, <2>2, RankFacts
    <3> QED BY <1>2, <1>6, <2>1, <3>1
  <2>3. CASE Upcoming(w) < i
    <3>1. Rank(Upcoming(w), TurnPage(w).items) < Rank(i, TurnPage(w).items)
      BY <1>2, <1>6, <2>1, <2>3, RankFacts
    <3> QED BY <1>2, <1>6, <1>8, <2>1, <3>1
  <2> QED BY <2>1, <2>2, <2>3
<1>9. worker[w].from < Rank(Upcoming(w), TurnPage(w).items)
  <2>1. worker[w].from \in Nat /\ worker[w].from <= worker[w].done
    BY <1>1, <1>3, TurnFacts, Rows DEF SyncInv, TurnIsSafe
  <2> QED BY <1>2, <1>6, <2>1
<1>10. worker[w].done + 1 \in 0 .. MaxFeed /\ worker[w].done + 1 <= Size(TurnPage(w))
  BY <1>2, <1>5
<1> QED BY <1>1, <1>5, <1>6, <1>7, <1>8, <1>9, <1>10

(* A turn moves on by one item that needs no work.                           *)
LEMMA AdvanceKeeps ==
  ASSUME SyncInv, NEW w \in Workers, Importing(w), NEW imported \in 0 .. ImportLimit,
         worker' = [worker EXCEPT ![w].done = @ + 1, ![w].imported = imported],
         UNCHANGED <<published, checkpoint, connection, jobs, pages, faults>>,
         settled \subseteq settled', settled' \subseteq 1 .. published,
         NeedsNoWork(Upcoming(w)) \/ Upcoming(w) \in settled'
  PROVE  SyncInv'
<1>1. /\ worker[w] # Idle /\ worker[w].done + 1 \in 0 .. MaxFeed
      /\ worker[w].done + 1 <= Size(TurnPage(w))
      /\ Upcoming(w) \in TurnPage(w).items
      /\ \A i \in TurnPage(w).items :
           Rank(i, TurnPage(w).items) <= worker[w].done + 1 =>
             Rank(i, TurnPage(w).items) <= worker[w].done \/ i = Upcoming(w)
  BY NextItem
<1>2. /\ worker \in [Workers -> {Idle} \union Turn] /\ worker[w] \in Turn
  BY <1>1, Rows DEF SyncInv, TypeOK
<1>3. PICK n \in 0 .. MaxFeed : n = worker[w].done + 1
  BY <1>1
<1>4. /\ worker'[w] = [worker[w] EXCEPT !.done = n, !.imported = imported]
      /\ \A v \in Workers : v # w => worker'[v] = worker[v]
  BY <1>2, <1>3
<1>5. /\ worker'[w] \in Turn /\ worker'[w].done = n /\ worker'[w].job = worker[w].job
      /\ worker'[w].at = worker[w].at /\ worker'[w].from = worker[w].from
      /\ worker'[w].phase = worker[w].phase
  BY <1>2, <1>4 DEF Turn
<1>6. TypeOK'
  <2>1. worker' \in [Workers -> {Idle} \union Turn]
    BY <1>2, <1>4, <1>5
  <2> QED BY <2>1 DEF SyncInv, TypeOK
<1>7. Forward
  BY Rows DEF Forward, SyncInv
<1>8. PagesCover' /\ CheckpointCovers'
  BY <1>7, PagesFrame, CheckpointFrame
<1>9. \A k \in Jobs : Live(k)' => Live(k)
  BY DEF Live
<1>10. JobsResume'
  BY <1>7, <1>9, JobFrame DEF JobsResume
<1>11. OneLiveJob'
  BY <1>9 DEF OneLiveJob, SyncInv
<1>12. HoldersAreCurrent'
  <2>1. \A v \in Workers : worker'[v] # Idle =>
          /\ worker[v] # Idle /\ worker'[v].job = worker[v].job
          /\ worker'[v].at = worker[v].at /\ worker'[v].from = worker[v].from
    BY <1>1, <1>4, <1>5
  <2> QED BY <2>1 DEF SyncInv, HoldersAreCurrent, Holds
<1>13. TurnsLoseNothing'
  <2>1. \A i \in Int : NeedsNoWork(i) => NeedsNoWork(i)'
    BY <1>7, NeedsNoWorkStays, Rows DEF Forward, SyncInv
  <2>2. TurnPage(w)' = TurnPage(w) /\ TurnIsSafe(w)
    BY <1>1, <1>5 DEF TurnPage, SyncInv, TurnsLoseNothing
  <2>3. /\ worker[w].at \in Nat /\ TurnPage(w).items \subseteq 1 .. MaxFeed
        /\ worker[w].from \in Nat /\ worker[w].done \in Nat
    BY <1>1, TurnFacts, Rows DEF SyncInv
  <2>4. \A i \in TurnPage(w).items : i \in Int
    BY <2>3
  <2>5. NeedsNoWork(Upcoming(w)) => \A i : i = Upcoming(w) => NeedsNoWork(i)'
    BY <1>1, <2>1, <2>4
  <2>6. Upcoming(w) \in settled' => \A i : i = Upcoming(w) => NeedsNoWork(i)'
    BY DEF NeedsNoWork, Promise!NeedsNoWork
  <2>7. \A i \in TurnPage(w).items : Rank(i, TurnPage(w).items) <= n => NeedsNoWork(i)'
    BY <1>1, <1>3, <2>1, <2>2, <2>4, <2>5, <2>6 DEF TurnIsSafe
  <2>8. TurnIsSafe(w)'
    <3>1. worker'[w].at <= published' /\ \A i \in 1 .. worker'[w].at : NeedsNoWork(i)'
      <4>1. worker[w].at <= published /\ \A i \in 1 .. worker[w].at : NeedsNoWork(i)
        BY <2>2 DEF TurnIsSafe
      <4>2. \A i \in 1 .. worker[w].at : NeedsNoWork(i)'
        BY <2>1, <2>3, <4>1
      <4> QED BY <1>5, <4>1, <4>2
    <3>2. worker'[w].from <= worker'[w].done
      BY <1>3, <1>5, <2>2, <2>3 DEF TurnIsSafe
    <3>3. worker'[w].done <= Size(TurnPage(w)')
      BY <1>1, <1>3, <1>5, <2>2
    <3>4. worker'[w].phase = "working" => TurnPage(w)' # NoPage
      BY <1>5, <2>2 DEF TurnIsSafe
    <3> QED BY <1>5, <2>2, <2>7, <3>1, <3>2, <3>3, <3>4 DEF TurnIsSafe, Size
  <2>9. ASSUME NEW v \in Workers, v # w, worker'[v] # Idle PROVE TurnIsSafe(v)'
    BY <1>4, <1>7, <2>9, TurnFrame DEF TurnPage
  <2> QED BY <2>8, <2>9 DEF TurnsLoseNothing
<1> QED BY <1>6, <1>8, <1>10, <1>11, <1>12, <1>13 DEF SyncInv

LEMMA PassItemKeeps ==
  ASSUME SyncInv, NEW w \in Workers, PassItem(w)
  PROVE  SyncInv'
<1>1. Importing(w) /\ (Feed[Upcoming(w)].kind # "file" \/ Promise!Superseded(Upcoming(w)))
      /\ worker' = [worker EXCEPT ![w].done = @ + 1]
      /\ UNCHANGED <<published, settled, checkpoint, connection, jobs, pages, faults>>
  BY DEF PassItem
<1>2. /\ worker[w] # Idle /\ Upcoming(w) \in TurnPage(w).items /\ Upcoming(w) \in 1 .. published
      /\ worker[w].from < Rank(Upcoming(w), TurnPage(w).items)
  BY <1>1, NextItem
<1>3. worker \in [Workers -> {Idle} \union Turn] /\ worker[w] \in Turn
  BY <1>2, Rows DEF SyncInv, TypeOK
<1>4. /\ worker[w].imported \in 0 .. ImportLimit
      /\ worker' = [worker EXCEPT ![w].done = @ + 1, ![w].imported = worker[w].imported]
  <2>1. worker[w].imported \in 0 .. ImportLimit
    BY <1>3 DEF Turn
  <2>2. PICK n : n = worker[w].done + 1
    OBVIOUS
  <2>3. [worker[w] EXCEPT !.done = n] = [worker[w] EXCEPT !.done = n, !.imported = worker[w].imported]
    BY <1>3 DEF Turn
  <2>4. worker' = [worker EXCEPT ![w] = [worker[w] EXCEPT !.done = n]]
    BY <1>1, <1>3, <2>2
  <2>5. worker' = [worker EXCEPT ![w] = [worker[w] EXCEPT !.done = n, !.imported = worker[w].imported]]
    BY <2>3, <2>4
  <2> QED BY <1>3, <2>1, <2>2, <2>5
<1>5. NeedsNoWork(Upcoming(w))
  <2>1. Feed[Upcoming(w)].kind \in {"file", "removal", "unsupported"}
    <3>1. published \in 0 .. MaxFeed /\ MaxFeed \in Nat
      BY BoundsAssumption DEF SyncInv, TypeOK
    <3>2. Upcoming(w) \in 1 .. MaxFeed
      BY <1>2, <3>1
    <3> QED BY <3>2, BoundsAssumption
  <2>2. CASE Feed[Upcoming(w)].kind = "removal"
    <3>1. PendingRemovals(w) = {}
      BY <1>1 DEF Importing
    <3>2. Rank(Upcoming(w), TurnPage(w).items) > worker[w].from
      BY <1>2
    <3>3. Upcoming(w) \in settled
      BY <1>2, <2>2, <3>1, <3>2 DEF PendingRemovals
    <3> QED BY <3>3 DEF NeedsNoWork, Promise!NeedsNoWork
  <2> QED BY <1>1, <2>1, <2>2 DEF NeedsNoWork, Promise!NeedsNoWork
<1>6. settled \subseteq settled' /\ settled' \subseteq 1 .. published
  BY <1>1 DEF SyncInv, TypeOK
<1> QED BY <1>1, <1>4, <1>5, <1>6, AdvanceKeeps

LEMMA AdmitFileKeeps ==
  ASSUME SyncInv, NEW w \in Workers, AdmitFile(w)
  PROVE  SyncInv'
<1>1. /\ Importing(w) /\ settled' = settled \union {Upcoming(w)}
      /\ worker' = [worker EXCEPT ![w].done = @ + 1, ![w].imported = @ + 1]
      /\ UNCHANGED <<published, checkpoint, connection, jobs, pages, faults>>
  BY DEF AdmitFile, Admissible
<1>2. /\ worker[w].imported + 1 \in 0 .. ImportLimit /\ Upcoming(w) \in 1 .. published
  BY <1>1, NextItem
<1>3. PICK n \in 0 .. ImportLimit : n = worker[w].imported + 1
  BY <1>2
<1>4. worker' = [worker EXCEPT ![w].done = @ + 1, ![w].imported = n]
  <2>1. worker \in [Workers -> {Idle} \union Turn]
    BY DEF SyncInv, TypeOK
  <2>2. worker[w] \in Turn
    BY <1>1, NextItem, Rows DEF SyncInv
  <2>3. PICK d : d = worker[w].done + 1
    OBVIOUS
  <2>4. worker' = [worker EXCEPT ![w] = [worker[w] EXCEPT !.done = d, !.imported = n]]
    BY <1>1, <1>3, <2>1, <2>2, <2>3
  <2> QED BY <2>1, <2>3, <2>4
<1>5. settled \subseteq settled' /\ settled' \subseteq 1 .. published /\ Upcoming(w) \in settled'
  BY <1>1, <1>2 DEF SyncInv, TypeOK
<1> QED BY <1>1, <1>3, <1>4, <1>5, AdvanceKeeps

-----------------------------------------------------------------------------
(* Steps of the provider and of the connection's owner.                      *)
LEMMA OutsideKeeps ==
  ASSUME SyncInv, Publish \/ ChangeConnection
  PROVE  SyncInv'
<1>1. UNCHANGED <<settled, checkpoint, jobs, pages, worker, faults>>
  BY DEF Publish, ChangeConnection
<1>2. published' \in 0 .. MaxFeed /\ published <= published' /\ published' \in Nat
  BY Rows DEF SyncInv, TypeOK, Publish, ChangeConnection
<1>3. connection' \in {"active", "reauthorization_required", "revoked"}
  BY DEF SyncInv, TypeOK, Publish, ChangeConnection
<1>4. settled' \subseteq 1 .. published'
  BY <1>1, <1>2, Rows DEF SyncInv, TypeOK
<1>5. TypeOK'
  BY <1>1, <1>2, <1>3, <1>4 DEF SyncInv, TypeOK
<1>6. Forward
  BY <1>1, <1>2 DEF Forward
<1>7. PagesCover' /\ CheckpointCovers'
  BY <1>1, <1>6, PagesFrame, CheckpointFrame
<1>8. \A k \in Jobs : Live(k)' => Live(k)
  BY <1>1 DEF Live
<1>9. JobsResume'
  BY <1>1, <1>6, <1>8, JobFrame DEF JobsResume
<1>10. OneLiveJob'
  BY <1>8 DEF OneLiveJob, SyncInv
<1>11. HoldersAreCurrent'
  BY <1>1 DEF HoldersAreCurrent, Holds, SyncInv
<1>12. TurnsLoseNothing'
  BY <1>1, <1>6, TurnFrame DEF TurnsLoseNothing, TurnPage
<1> QED BY <1>5, <1>7, <1>9, <1>10, <1>11, <1>12 DEF SyncInv

LEMMA InitIsSafe ==
  ASSUME Init
  PROVE  SyncInv
<1>1. TypeOK
  BY BoundsAssumption DEF Init, TypeOK, Cursors
<1>2. \A j \in Jobs : ~Live(j)
  BY DEF Init, Live, Absent
<1>3. \A w \in Workers : worker[w] = Idle
  BY DEF Init
<1>4. \A j \in Jobs : \A c \in Cursors : pages[j][c] = NoPage
  BY DEF Init
<1>5. checkpoint = 0 /\ published \in 0 .. MaxFeed /\ MaxFeed \in Nat
  BY BoundsAssumption DEF Init
<1> QED BY <1>1, <1>2, <1>3, <1>4, <1>5
        DEF SyncInv, PagesCover, OneLiveJob, CheckpointCovers, JobsResume, HoldersAreCurrent,
            TurnsLoseNothing

LEMMA StutterKeeps ==
  ASSUME SyncInv, UNCHANGED vars
  PROVE  SyncInv'
<1>1. UNCHANGED <<published, settled, checkpoint, connection, jobs, pages, worker, faults>>
  BY DEF vars
<1>2. TypeOK'
  BY <1>1 DEF SyncInv, TypeOK
<1>3. Forward
  BY <1>1, Rows DEF Forward, SyncInv
<1>4. PagesCover' /\ CheckpointCovers'
  BY <1>1, <1>3, PagesFrame, CheckpointFrame
<1>5. \A k \in Jobs : Live(k)' => Live(k)
  BY <1>1 DEF Live
<1>6. JobsResume' /\ OneLiveJob'
  BY <1>1, <1>3, <1>5, JobFrame DEF JobsResume, OneLiveJob, SyncInv
<1>7. HoldersAreCurrent'
  BY <1>1 DEF HoldersAreCurrent, Holds, SyncInv
<1>8. TurnsLoseNothing'
  BY <1>1, <1>3, TurnFrame DEF TurnsLoseNothing, TurnPage
<1> QED BY <1>2, <1>4, <1>6, <1>7, <1>8 DEF SyncInv

LEMMA NextKeeps ==
  ASSUME SyncInv, [Next]_vars
  PROVE  SyncInv'
<1>1. ASSUME NEW j \in Jobs, Enqueue(j) \/ LeaseExpires(j) PROVE SyncInv'
  BY <1>1, EnqueueKeeps, LeaseExpiresKeeps
<1>2. ASSUME ClaimStep PROVE SyncInv'
  BY <1>2, ClaimKeeps DEF ClaimStep
<1>3. ASSUME NEW w \in Workers, TurnStep(w) PROVE SyncInv'
  <2>1. CASE FailRevoked(w) \/ FailRefresh(w) \/ Retry(w) \/ Defer(w)
    BY <2>1, InPlaceOutcomes
  <2>2. CASE ReportRefused(w) \/ Flag(w)
    <3>1. /\ faults' \in 0 .. MaxFaults
          /\ connection' \in {"active", "reauthorization_required", "revoked"}
      BY <2>2 DEF ReportRefused, Flag, SyncInv, TypeOK
    <3> QED BY <2>2, <3>1, EndKeeps DEF ReportRefused, Flag
  <2> QED BY <1>3, <2>1, <2>2, LoadPageKeeps, RecordRemovalKeeps, PassItemKeeps, AdmitFileKeeps,
             ReportProgressKeeps, ReportSuccessKeeps DEF TurnStep
<1>4. ASSUME NEW w \in Workers, Crash(w) PROVE SyncInv'
  <2>1. /\ faults' \in 0 .. MaxFaults
        /\ connection' \in {"active", "reauthorization_required", "revoked"}
    BY <1>4, BoundsAssumption DEF Crash, SyncInv, TypeOK
  <2> QED BY <1>4, <2>1, EndKeeps DEF Crash
<1> QED BY <1>1, <1>2, <1>3, <1>4, OutsideKeeps, StutterKeeps DEF Next

-----------------------------------------------------------------------------
(* Whatever crashes, outlives its lease or reports late, the queue's cursors *)
(* and pages account for every change behind them.                           *)
THEOREM SyncInvariance == Spec => []SyncInv
<1>1. Init => SyncInv
  BY InitIsSafe
<1>2. SyncInv /\ [Next]_vars => SyncInv'
  BY NextKeeps
<1> QED BY <1>1, <1>2, PTL DEF Spec

(* Every variable keeps its type: no offset outgrows its page, no turn       *)
(* imports past its limit.                                                   *)
THEOREM SyncTypes == Spec => []TypeOK
<1>1. SyncInv => TypeOK
  BY DEF SyncInv
<1> QED BY <1>1, SyncInvariance, PTL

(* Nothing behind the cursor of a live job needs work.                       *)
THEOREM CursorsNeverLose == Spec => []CursorsLoseNothing
<1>1. SyncInv => CursorsLoseNothing
  BY DEF SyncInv, JobsResume, Resumes, CursorsLoseNothing, Behind, NeedsNoWork
<1> QED BY <1>1, SyncInvariance, PTL

(* A stored offset finds the page it counts, with items left on it.          *)
THEOREM OffsetsAlwaysResume == Spec => []OffsetsResume
<1>1. SyncInv => OffsetsResume
  BY DEF SyncInv, JobsResume, Resumes, OffsetsResume
<1> QED BY <1>1, SyncInvariance, PTL

(* The cursor of a live job is never behind the connection's checkpoint.     *)
THEOREM CursorsStayAhead == Spec => []CursorsAheadOfCheckpoint
<1>1. SyncInv => CursorsAheadOfCheckpoint
  <2> SUFFICES ASSUME SyncInv, NEW j \in Jobs, Live(j) PROVE jobs[j].at >= checkpoint
    BY DEF CursorsAheadOfCheckpoint
  <2>1. checkpoint <= jobs[j].at /\ checkpoint \in Nat /\ jobs[j].at \in Nat
    BY Rows DEF SyncInv, JobsResume, Resumes, Job
  <2> QED BY <2>1
<1> QED BY <1>1, SyncInvariance, PTL

(* A report puts the cursor at the report's place.                           *)
LEMMA HandedRow ==
  ASSUME SyncInv, NEW w \in Workers, worker[w] # Idle, NEW state, NEW attempt, NEW at, NEW offset,
         HandBack(w, state, attempt, at, offset)
  PROVE  /\ Live(worker[w].job) /\ worker[w].job \in Jobs
         /\ worker[w].at = jobs[worker[w].job].at /\ worker[w].from = jobs[worker[w].job].offset
         /\ jobs'[worker[w].job].at = at /\ jobs'[worker[w].job].offset = offset
         /\ jobs'[worker[w].job].state = state
         /\ \A k \in Jobs : k # worker[w].job => jobs'[k] = jobs[k]
<1>1. Holds(w) /\ worker[w].job \in Jobs
  BY TurnFacts DEF HandBack, SyncInv
<1>2. Live(worker[w].job)
  BY <1>1 DEF Holds, Live
<1>3. worker[w].at = jobs[worker[w].job].at /\ worker[w].from = jobs[worker[w].job].offset
  BY <1>1 DEF SyncInv, HoldersAreCurrent
<1>4. jobs' = [jobs EXCEPT ![worker[w].job] =
        [state |-> state, attempt |-> attempt, at |-> at, offset |-> offset,
         holder |-> NoWorker, unexpired |-> FALSE]]
  BY DEF HandBack
<1>5. jobs \in [Jobs -> {Absent} \union Job]
  BY DEF SyncInv, TypeOK
<1> QED BY <1>1, <1>2, <1>3, <1>4, <1>5

LEMMA CompletedRow ==
  ASSUME SyncInv, NEW w \in Workers, worker[w] # Idle, NEW state, NEW attempt, NEW at, NEW offset,
         Complete(w, state, attempt, at, offset)
  PROVE  /\ Live(worker[w].job) /\ worker[w].job \in Jobs
         /\ worker[w].at = jobs[worker[w].job].at /\ worker[w].from = jobs[worker[w].job].offset
         /\ jobs'[worker[w].job].at = at /\ jobs'[worker[w].job].offset = offset
         /\ jobs'[worker[w].job].state = state
         /\ \A k \in Jobs : k # worker[w].job => jobs'[k] = jobs[k]
BY HandedRow DEF Complete

Advances(j) ==
  \/ jobs'[j].at > jobs[j].at
  \/ jobs'[j].at = jobs[j].at /\ jobs'[j].offset >= jobs[j].offset

(* A row whose cursor a step leaves alone has not moved back.                *)
LEMMA StandingStill ==
  ASSUME SyncInv, NEW j \in Jobs, Live(j), jobs'[j].at = jobs[j].at,
         jobs'[j].offset = jobs[j].offset
  PROVE  Advances(j)
<1>1. jobs[j].offset \in Nat
  BY Rows DEF SyncInv, Job
<1> QED BY <1>1 DEF Advances

LEMMA InPlaceStandsStill ==
  ASSUME SyncInv, NEW w \in Workers, worker[w] # Idle, NEW state, NEW attempt,
         HandBack(w, state, attempt, jobs[worker[w].job].at, jobs[worker[w].job].offset), NEW j \in Jobs
  PROVE  jobs'[j].at = jobs[j].at /\ jobs'[j].offset = jobs[j].offset
BY HandedRow

LEMMA ProgressAdvances ==
  ASSUME SyncInv, NEW w \in Workers, ReportProgress(w), NEW j \in Jobs, Live(j)
  PROVE  Advances(j)
<1>1. /\ worker[w] # Idle /\ Covers(TurnPage(w), worker[w].at) /\ TurnPage(w) \in Page
  BY ReportFacts DEF ReportProgress
<1>2. /\ worker[w].at \in Nat /\ worker[w].from \in Nat /\ worker[w].done \in Nat
      /\ TurnPage(w).cursor \in Nat
  BY <1>1, TurnFacts, Rows DEF SyncInv, Page
<1>3. worker[w].from <= worker[w].done
  BY <1>1 DEF SyncInv, TurnsLoseNothing, TurnIsSafe
<1>4. CASE WholePage(w)
  <2>1. Complete(w, "queued", 0, TurnPage(w).cursor, 0) /\ ~TurnPage(w).complete
    BY <1>4 DEF ReportProgress, FeedComplete
  <2>2. worker[w].at < TurnPage(w).cursor
    BY <1>1, <2>1 DEF Covers
  <2>3. CASE j = worker[w].job
    <3>1. jobs'[j].at = TurnPage(w).cursor /\ jobs[j].at = worker[w].at
      BY <1>1, <2>1, <2>3, CompletedRow
    <3> QED BY <1>2, <2>2, <3>1 DEF Advances
  <2>4. CASE j # worker[w].job
    BY <1>1, <2>1, <2>4, CompletedRow, StandingStill
  <2> QED BY <2>3, <2>4
<1>5. CASE ~WholePage(w)
  <2>1. Complete(w, "queued", 0, worker[w].at, worker[w].done)
    BY <1>5 DEF ReportProgress
  <2>2. CASE j = worker[w].job
    <3>1. /\ jobs'[j].at = worker[w].at /\ jobs[j].at = worker[w].at
          /\ jobs'[j].offset = worker[w].done /\ jobs[j].offset = worker[w].from
      BY <1>1, <2>1, <2>2, CompletedRow
    <3> QED BY <1>2, <1>3, <3>1 DEF Advances
  <2>3. CASE j # worker[w].job
    BY <1>1, <2>1, <2>3, CompletedRow, StandingStill
  <2> QED BY <2>2, <2>3
<1> QED BY <1>4, <1>5

LEMMA StepsAdvance ==
  ASSUME SyncInv, [Next]_vars, NEW j \in Jobs, Live(j), Live(j)'
  PROVE  Advances(j)
<1>1. ASSUME jobs' = jobs PROVE Advances(j)
  BY <1>1, StandingStill
<1>2. ASSUME NEW k \in Jobs, Enqueue(k) PROVE Advances(j)
  <2>1. j # k
    BY <1>2 DEF Enqueue, Live, Absent
  <2>2. jobs'[j] = jobs[j]
    BY <1>2, <2>1 DEF Enqueue, SyncInv, TypeOK
  <2> QED BY <2>2, StandingStill
<1>3. ASSUME NEW k \in Jobs, LeaseExpires(k) PROVE Advances(j)
  <2>1. jobs \in [Jobs -> {Absent} \union Job] /\ jobs[j] \in Job
    BY Rows DEF SyncInv, TypeOK
  <2>2. jobs' = [jobs EXCEPT ![k].unexpired = FALSE]
    BY <1>3 DEF LeaseExpires
  <2>3. jobs'[j] = jobs[j] \/ jobs'[j] = [jobs[j] EXCEPT !.unexpired = FALSE]
    BY <2>1, <2>2
  <2>4. jobs'[j].at = jobs[j].at /\ jobs'[j].offset = jobs[j].offset
    BY <2>1, <2>3 DEF Job
  <2> QED BY <2>4, StandingStill
<1>4. ASSUME NEW w \in Workers, NEW k \in Jobs, Claim(w, k) PROVE Advances(j)
  <2>1. jobs \in [Jobs -> {Absent} \union Job] /\ jobs[j] \in Job
    BY Rows DEF SyncInv, TypeOK
  <2>2. jobs' = [jobs EXCEPT ![k].state = "leased", ![k].holder = w,
                             ![k].unexpired = TRUE, ![k].attempt = @ + 1]
    BY <1>4 DEF Claim
  <2>3. PICK n : n = jobs[j].attempt + 1
    OBVIOUS
  <2>4. \/ jobs'[j] = jobs[j]
        \/ jobs'[j] = [jobs[j] EXCEPT !.state = "leased", !.holder = w, !.unexpired = TRUE,
                                      !.attempt = n]
    BY <2>1, <2>2, <2>3
  <2>5. jobs'[j].at = jobs[j].at /\ jobs'[j].offset = jobs[j].offset
    BY <2>1, <2>4 DEF Job
  <2> QED BY <2>5, StandingStill
<1>5. ASSUME NEW w \in Workers, FailRevoked(w) \/ FailRefresh(w) \/ Retry(w) \/ Defer(w)
      PROVE  Advances(j)
  <2>1. worker[w] # Idle
    BY <1>5, Awake DEF FailRevoked, FailRefresh, Retry, Defer, Admissible, Importing
  <2>2. \E state, attempt :
          HandBack(w, state, attempt, jobs[worker[w].job].at, jobs[worker[w].job].offset)
    BY <1>5 DEF FailRevoked, FailRefresh, Retry, Defer, CompleteInPlace, Complete
  <2>3. jobs'[j].at = jobs[j].at /\ jobs'[j].offset = jobs[j].offset
    BY <2>1, <2>2, InPlaceStandsStill
  <2> QED BY <2>3, StandingStill
<1>6. ASSUME NEW w \in Workers, ReportSuccess(w) PROVE Advances(j)
  <2>1. worker[w] # Idle
    BY <1>6, ReportFacts DEF ReportSuccess
  <2>2. Complete(w, "succeeded", jobs[worker[w].job].attempt, TurnPage(w).cursor, 0)
    BY <1>6 DEF ReportSuccess
  <2>3. jobs'[worker[w].job].state = "succeeded"
        /\ \A k \in Jobs : k # worker[w].job => jobs'[k] = jobs[k]
    BY <2>1, <2>2, CompletedRow
  <2>4. j # worker[w].job
    BY <2>3 DEF Live
  <2> QED BY <2>3, <2>4, StandingStill
<1>7. ASSUME NEW w \in Workers, TurnStep(w) \/ Crash(w) PROVE Advances(j)
  <2>1. CASE LoadPage(w) \/ RecordRemoval(w) \/ PassItem(w) \/ AdmitFile(w) \/ ReportRefused(w)
             \/ Flag(w) \/ Crash(w)
    BY <1>1, <2>1 DEF LoadPage, RecordRemoval, PassItem, AdmitFile, ReportRefused, Flag, Crash
  <2> QED BY <1>5, <1>6, <1>7, <2>1, ProgressAdvances DEF TurnStep
<1>8. ASSUME Publish \/ ChangeConnection \/ UNCHANGED vars PROVE Advances(j)
  BY <1>1, <1>8 DEF Publish, ChangeConnection, vars
<1> QED BY <1>2, <1>3, <1>4, <1>7, <1>8 DEF Next, ClaimStep

(* The cursor of a job never moves back, whoever reports.                    *)
THEOREM CursorsAlwaysAdvance == Spec => CursorsOnlyAdvance
<1>1. SyncInv /\ [Next]_vars =>
        [\A j \in Jobs : Live(j) /\ Live(j)' =>
           \/ jobs'[j].at > jobs[j].at
           \/ jobs'[j].at = jobs[j].at /\ jobs'[j].offset >= jobs[j].offset]_vars
  BY StepsAdvance DEF Advances
<1> QED BY <1>1, SyncInvariance, PTL DEF Spec, CursorsOnlyAdvance

-----------------------------------------------------------------------------
(* Implementing the feed's promise.                                          *)
LEMMA StepsKeepThePromise ==
  ASSUME SyncInv, [Next]_vars
  PROVE  [Promise!FeedNext]_<<published, settled, checkpoint>>
<1>1. CASE UNCHANGED <<published, settled, checkpoint>>
  BY <1>1
<1>2. ASSUME Publish PROVE Promise!FeedNext
  BY <1>2 DEF Publish, Promise!FeedNext, Promise!Publish
<1>3. ASSUME NEW w \in Workers, RecordRemoval(w) PROVE Promise!FeedNext
  <2>1. SyncInv'
    BY <1>3, RecordRemovalKeeps
  <2>2. PICK i \in PendingRemovals(w) : settled' = settled \union {i}
    BY <1>3 DEF RecordRemoval
  <2>3. UNCHANGED <<published, checkpoint>>
    BY <1>3 DEF RecordRemoval
  <2>4. i \in 1 .. published
    BY <2>1, <2>2, <2>3 DEF SyncInv, TypeOK
  <2>5. Feed[i].kind = "removal"
    BY <2>2 DEF PendingRemovals
  <2>6. Promise!Settle(i)
    BY <2>2, <2>3, <2>5 DEF Promise!Settle
  <2> QED BY <2>4, <2>6 DEF Promise!FeedNext
<1>4. ASSUME NEW w \in Workers, AdmitFile(w) PROVE Promise!FeedNext
  <2>1. Upcoming(w) \in 1 .. published
    BY <1>4, NextItem DEF AdmitFile, Admissible
  <2>2. Promise!Settle(Upcoming(w))
    BY <1>4 DEF AdmitFile, Admissible, Promise!Settle
  <2> QED BY <2>1, <2>2 DEF Promise!FeedNext
<1>5. ASSUME NEW w \in Workers, ReportSuccess(w), checkpoint' # checkpoint PROVE Promise!FeedNext
  <2>1. /\ Reporting(w) /\ WholePage(w) /\ checkpoint' = TurnPage(w).cursor
        /\ Complete(w, "succeeded", jobs[worker[w].job].attempt, TurnPage(w).cursor, 0)
        /\ UNCHANGED <<published, settled>>
    BY <1>5 DEF ReportSuccess, FeedComplete
  <2>2. /\ worker[w] # Idle /\ TurnPage(w) \in Page /\ Covers(TurnPage(w), worker[w].at)
        /\ \A i \in 1 .. TurnPage(w).cursor : NeedsNoWork(i)
    BY <2>1, ReportFacts
  <2>3. checkpoint <= worker[w].at
    <3>1. Live(worker[w].job) /\ worker[w].job \in Jobs /\ worker[w].at = jobs[worker[w].job].at
      BY <2>1, <2>2, CompletedRow
    <3> QED BY <3>1 DEF SyncInv, JobsResume, Resumes
  <2>4. /\ worker[w].at \in Nat /\ checkpoint \in Nat /\ published \in Nat
        /\ TurnPage(w).cursor \in Nat
    BY <2>2, TurnFacts, Rows DEF SyncInv, Page
  <2>5. PICK c \in Nat : c = TurnPage(w).cursor
    BY <2>4
  <2>6. c \in 1 .. published /\ checkpoint <= c
    <3>1. worker[w].at <= c /\ c <= published
      BY <2>2, <2>4, <2>5 DEF Covers
    <3> QED BY <1>5, <2>1, <2>3, <2>4, <2>5, <3>1
  <2>7. Promise!Cover(c)
    BY <2>1, <2>2, <2>5, <2>6 DEF Promise!Cover, NeedsNoWork
  <2> QED BY <2>6, <2>7 DEF Promise!FeedNext
<1>6. ASSUME NEW w \in Workers, TurnStep(w) \/ Crash(w)
      PROVE  Promise!FeedNext \/ UNCHANGED <<published, settled, checkpoint>>
  <2>1. CASE FailRevoked(w) \/ FailRefresh(w) \/ Flag(w) \/ LoadPage(w) \/ PassItem(w) \/ Retry(w)
             \/ Defer(w) \/ ReportProgress(w) \/ ReportRefused(w) \/ Crash(w)
    BY <2>1 DEF FailRevoked, FailRefresh, Flag, LoadPage, PassItem, Retry, Defer, ReportProgress,
                ReportRefused, Crash
  <2>2. CASE ReportSuccess(w)
    BY <1>5, <2>2 DEF ReportSuccess
  <2> QED BY <1>3, <1>4, <1>6, <2>1, <2>2 DEF TurnStep
<1>7. ASSUME (\E j \in Jobs : Enqueue(j) \/ LeaseExpires(j)) \/ ClaimStep \/ ChangeConnection
             \/ UNCHANGED vars
      PROVE  UNCHANGED <<published, settled, checkpoint>>
  BY <1>7 DEF Enqueue, LeaseExpires, ClaimStep, Claim, ChangeConnection, vars
<1> QED BY <1>2, <1>6, <1>7 DEF Next

(* However its workers crash, stall or overlap, a sync's checkpoint only     *)
(* moves forward, and only over changes that need no more work.              *)
THEOREM SyncKeepsItsPromise == Spec => KeepsItsPromise
<1>1. Init => Promise!FeedInit
  BY DEF Init, Promise!FeedInit
<1>2. SyncInv /\ [Next]_vars => [Promise!FeedNext]_(Promise!feedVars)
  BY StepsKeepThePromise DEF Promise!feedVars
<1> QED BY <1>1, <1>2, SyncInvariance, PTL DEF Spec, KeepsItsPromise, Promise!FeedSpec

-----------------------------------------------------------------------------
(* The attempt budget, and how far a job is from its end.                    *)

(* The holder of j runs it under a lease that has not run out.               *)
Attended(j) ==
  /\ jobs[j].state = "leased" /\ jobs[j].unexpired
  /\ jobs[j].holder \in Workers /\ Running(jobs[j].holder, j)

GivenUp(j) == jobs[j].state = "leased" /\ ~Attended(j)

(* A success that is going to be refused unless the connection comes back.   *)
Doomed(j) ==
  connection # "active" /\ Attended(j) /\ worker[jobs[j].holder].phase = "working"

(* A claim is paid for when the attempt before it is given up.               *)
Pays(j) ==
  /\ jobs[j] # Absent => jobs[j].attempt <= MaxAttempts + Spent
  /\ jobs[j].state = "queued" => jobs[j].attempt < MaxAttempts
  /\ GivenUp(j) \/ Doomed(j) => jobs[j].attempt < MaxAttempts + Spent

TurnCounts(w) == worker[w] # Idle => worker[w].from + worker[w].imported <= worker[w].done

FlagsFor(w, j) == Flagging(w) /\ worker[w].job = j
Dead(j) == jobs[j].state = "dead"

(* Whoever flags the connection does so for a job that died in its own hands.*)
FlagsAreOwn ==
  \A w \in Workers, j \in Jobs : FlagsFor(w, j) =>
    Dead(j) /\ \A v \in Workers : FlagsFor(v, j) => v = w

RetryInv ==
  /\ \A j \in Jobs : Pays(j)
  /\ \A w \in Workers : TurnCounts(w)
  /\ FlagsAreOwn
  /\ IsFiniteSet(Buried)

LEMMA RowsCount ==
  ASSUME TypeOK
  PROVE  /\ MaxAttempts \in Nat \ {0} /\ faults \in Nat /\ MaxFaults \in Nat
         /\ \A j \in Jobs : jobs[j] # Absent => jobs[j] \in Job /\ jobs[j].attempt \in Nat
<1>1. \A j \in Jobs : jobs[j] # Absent => jobs[j] \in Job
  BY DEF TypeOK
<1> QED BY <1>1, BoundsAssumption DEF TypeOK, Job

LEMMA SpendsMore ==
  ASSUME NEW m \in Nat, NEW f \in 0 .. m, NEW g \in 0 .. m,
         NEW b \in Nat, NEW c \in Nat, NEW r \in Nat, NEW q \in Nat, g <= f, b <= c, r <= q
  PROVE  /\ (m - f) + b + r \in Nat /\ (m - g) + c + q \in Nat
         /\ (m - f) + b + r <= (m - g) + c + q
         /\ g < f \/ b < c \/ r < q => (m - f) + b + r < (m - g) + c + q
OBVIOUS

(* What a step does that touches only the grave of k: nothing already spent  *)
(* is taken back.                                                            *)
LEMMA Graves ==
  ASSUME TypeOK, TypeOK', RetryInv, NEW k,
         \A j \in Jobs : j # k => (Dead(j)' <=> Dead(j)),
         \A v \in Workers, j \in Jobs : j # k => (FlagsFor(v, j)' <=> FlagsFor(v, j)),
         k \in Jobs /\ Dead(k) =>
           Dead(k)' /\ \A v \in Workers : FlagsFor(v, k)' => FlagsFor(v, k),
         k \in Jobs => \A v \in Workers : FlagsFor(v, k)' =>
           Dead(k)' /\ \A u \in Workers : FlagsFor(u, k)' => u = v,
         faults' <= faults, connection = "revoked" => connection' = "revoked"
  PROVE  /\ FlagsAreOwn' /\ IsFiniteSet(Buried')
         /\ Spent \in Nat /\ Spent' \in Nat /\ Spent <= Spent'
         /\ \/ faults' < faults
            \/ k \in Buried' \ Buried
            \/ connection # "revoked" /\ connection' = "revoked"
            => Spent < Spent'
<1>1. FlagsAreOwn'
  <2> SUFFICES ASSUME NEW w \in Workers, NEW j \in Jobs, FlagsFor(w, j)'
               PROVE  Dead(j)' /\ \A v \in Workers : FlagsFor(v, j)' => v = w
    BY DEF FlagsAreOwn
  <2>1. CASE j = k
    BY <2>1
  <2>2. CASE j # k
    BY <2>2 DEF RetryInv, FlagsAreOwn
  <2> QED BY <2>1, <2>2
<1>2. /\ Buried = {j \in Jobs : Dead(j) /\ ~\E v \in Workers : FlagsFor(v, j)}
      /\ Buried' = {j \in Jobs : Dead(j)' /\ ~\E v \in Workers : FlagsFor(v, j)'}
  BY DEF Buried, Dead, FlagsFor
<1>3. Buried \subseteq Buried' /\ Buried' \subseteq Buried \union {k}
  BY <1>2
<1>4. /\ IsFiniteSet(Buried) /\ IsFiniteSet(Buried')
      /\ Cardinality(Buried) <= Cardinality(Buried')
      /\ k \in Buried' \ Buried => Cardinality(Buried) < Cardinality(Buried')
      /\ Cardinality(Buried) \in Nat /\ Cardinality(Buried') \in Nat
  <2>1. IsFiniteSet(Buried)
    BY DEF RetryInv
  <2>2. IsFiniteSet(Buried \union {k})
    BY <2>1, FS_AddElement
  <2>3. IsFiniteSet(Buried')
    BY <1>3, <2>2, FS_Subset
  <2>4. /\ Cardinality(Buried) <= Cardinality(Buried')
        /\ Cardinality(Buried) = Cardinality(Buried') => Buried = Buried'
    BY <1>3, <2>3, FS_Subset
  <2>5. Cardinality(Buried) \in Nat /\ Cardinality(Buried') \in Nat
    BY <2>1, <2>3, FS_CardinalityType
  <2> QED BY <2>1, <2>3, <2>4, <2>5
<1>5. PICK b \in Nat, c \in Nat : b = Cardinality(Buried) /\ c = Cardinality(Buried')
  BY <1>4
<1>6. PICK r \in Nat : r = IF connection = "revoked" THEN 1 ELSE 0
  OBVIOUS
<1>7. PICK q \in Nat : q = IF connection' = "revoked" THEN 1 ELSE 0
  OBVIOUS
<1>8. r <= q /\ (connection # "revoked" /\ connection' = "revoked" => r < q)
  BY <1>6, <1>7
<1>9. PICK f \in 0 .. MaxFaults, g \in 0 .. MaxFaults : f = faults /\ g = faults'
  BY DEF TypeOK
<1>10. Spent = (MaxFaults - f) + b + r /\ Spent' = (MaxFaults - g) + c + q
  BY <1>5, <1>6, <1>7, <1>9 DEF Spent
<1>11. /\ Spent \in Nat /\ Spent' \in Nat /\ Spent <= Spent'
       /\ g < f \/ b < c \/ r < q => Spent < Spent'
  <2>1. MaxFaults \in Nat /\ g <= f /\ b <= c
    BY <1>4, <1>5, <1>9, BoundsAssumption
  <2> QED BY <1>8, <1>10, <2>1, SpendsMore
<1> QED BY <1>1, <1>4, <1>5, <1>8, <1>9, <1>11

(* A step that buries nobody.                                                *)
LEMMA QuietGraves ==
  ASSUME TypeOK, TypeOK', RetryInv,
         \A j \in Jobs : Dead(j)' <=> Dead(j),
         \A v \in Workers, j \in Jobs : FlagsFor(v, j)' <=> FlagsFor(v, j),
         faults' <= faults, connection = "revoked" => connection' = "revoked"
  PROVE  /\ FlagsAreOwn' /\ IsFiniteSet(Buried')
         /\ Spent \in Nat /\ Spent' \in Nat /\ Spent <= Spent'
         /\ \/ faults' < faults
            \/ connection # "revoked" /\ connection' = "revoked"
            => Spent < Spent'
<1>1. PICK k : k = NoWorker
  OBVIOUS
<1>2. k \in Jobs => \A v \in Workers : FlagsFor(v, k)' =>
        Dead(k)' /\ \A u \in Workers : FlagsFor(u, k)' => u = v
  BY DEF RetryInv, FlagsAreOwn
<1> QED BY <1>2, Graves


(* A step that leaves the row of j alone and takes nothing back.             *)
LEMMA PaysStill ==
  ASSUME TypeOK, NEW j \in Jobs, Pays(j), jobs'[j] = jobs[j],
         Spent \in Nat, Spent' \in Nat, Spent <= Spent',
         GivenUp(j)' \/ Doomed(j)' => GivenUp(j) \/ Doomed(j) \/ Spent < Spent'
  PROVE  Pays(j)'
<1>1. CASE jobs[j] = Absent
  BY <1>1 DEF Pays, Absent, GivenUp, Doomed, Attended
<1>2. CASE jobs[j] # Absent
  <2>1. MaxAttempts \in Nat /\ jobs[j].attempt \in Nat
    BY <1>2, RowsCount
  <2> QED BY <1>2, <2>1 DEF Pays
<1> QED BY <1>1, <1>2

(* A job that ended stays paid for, whatever happens to another.             *)
LEMMA EndedPays ==
  ASSUME TypeOK, NEW j \in Jobs, Pays(j), jobs'[j] = jobs[j], ~Live(j),
         Spent \in Nat, Spent' \in Nat, Spent <= Spent'
  PROVE  Pays(j)'
BY PaysStill DEF Live, GivenUp, Doomed, Attended

LEMMA EnqueuePays ==
  ASSUME SyncInv, RetryInv, SyncInv', NEW k \in Jobs, Enqueue(k)
  PROVE  RetryInv'
<1>1. /\ TypeOK /\ TypeOK' /\ UNCHANGED <<worker, faults, connection>>
      /\ \A j \in Jobs : j # k => jobs'[j] = jobs[j]
      /\ jobs[k] = Absent
      /\ jobs'[k] = [state |-> "queued", attempt |-> 0, at |-> checkpoint, offset |-> 0,
                     holder |-> NoWorker, unexpired |-> FALSE]
  BY DEF SyncInv, Enqueue, TypeOK
<1>2. /\ FlagsAreOwn' /\ IsFiniteSet(Buried')
      /\ Spent \in Nat /\ Spent' \in Nat /\ Spent <= Spent' /\ MaxAttempts \in Nat \ {0}
  <2>1. \A j \in Jobs : Dead(j)' <=> Dead(j)
    BY <1>1 DEF Dead, Absent
  <2>2. \A v \in Workers, j \in Jobs : FlagsFor(v, j)' <=> FlagsFor(v, j)
    BY <1>1 DEF FlagsFor, Flagging
  <2>3. faults' <= faults
    BY <1>1, RowsCount
  <2> QED BY <1>1, <2>1, <2>2, <2>3, QuietGraves, RowsCount
<1>3. ASSUME NEW j \in Jobs PROVE Pays(j)'
  <2>1. CASE j = k
    BY <1>1, <1>2, <2>1 DEF Pays, GivenUp, Doomed, Attended
  <2>2. CASE j # k
    <3>1. jobs'[j] = jobs[j] /\ ~Live(j)
      BY <1>1, <2>2 DEF Enqueue
    <3> QED BY <1>1, <1>2, <3>1, EndedPays DEF RetryInv
  <2> QED BY <2>1, <2>2
<1>4. \A w \in Workers : TurnCounts(w)'
  BY <1>1 DEF RetryInv, TurnCounts
<1> QED BY <1>2, <1>3, <1>4 DEF RetryInv

LEMMA LeaseExpiresPays ==
  ASSUME SyncInv, RetryInv, SyncInv', NEW k \in Jobs, LeaseExpires(k)
  PROVE  RetryInv'
<1>1. TypeOK /\ TypeOK' /\ Live(k) /\ jobs[k] \in Job /\ jobs[k] # Absent
  BY Rows DEF SyncInv, LeaseExpires, Live, Absent
<1>2. /\ jobs' = [jobs EXCEPT ![k].unexpired = FALSE] /\ jobs[k].state = "leased"
      /\ jobs[k].unexpired /\ UNCHANGED <<worker, connection>>
  BY DEF LeaseExpires
<1>3. /\ jobs'[k].state = "leased" /\ jobs'[k].attempt = jobs[k].attempt
      /\ \A j \in Jobs : j # k => jobs'[j] = jobs[j]
  <2>1. jobs'[k] = [jobs[k] EXCEPT !.unexpired = FALSE]
        /\ \A j \in Jobs : j # k => jobs'[j] = jobs[j]
    BY <1>1, <1>2 DEF TypeOK
  <2> QED BY <1>1, <1>2, <2>1 DEF Job
<1>4. faults' = IF Attended(k) THEN faults - 1 ELSE faults
  <2>1. (\E w \in Workers : Running(w, k) /\ jobs[k].holder = w) <=> Attended(k)
    BY <1>2 DEF Attended
  <2> QED BY <2>1 DEF LeaseExpires
<1>5. MaxAttempts \in Nat \ {0} /\ faults \in Nat /\ jobs[k].attempt \in Nat
  BY <1>1, RowsCount
<1>6. /\ FlagsAreOwn' /\ IsFiniteSet(Buried')
      /\ Spent \in Nat /\ Spent' \in Nat /\ Spent <= Spent' /\ (Attended(k) => Spent < Spent')
  <2>1. \A j \in Jobs : Dead(j)' <=> Dead(j)
    BY <1>2, <1>3 DEF Dead
  <2>2. \A v \in Workers, j \in Jobs : FlagsFor(v, j)' <=> FlagsFor(v, j)
    BY <1>2 DEF FlagsFor, Flagging
  <2>3. faults' <= faults /\ (Attended(k) => faults' < faults)
    <3>1. CASE Attended(k)
      BY <1>4, <1>5, <3>1
    <3>2. CASE ~Attended(k)
      BY <1>4, <1>5, <3>2
    <3> QED BY <3>1, <3>2
  <2>4. /\ FlagsAreOwn' /\ IsFiniteSet(Buried')
        /\ Spent \in Nat /\ Spent' \in Nat /\ Spent <= Spent' /\ (faults' < faults => Spent < Spent')
    BY <1>1, <1>2, <2>1, <2>2, <2>3, QuietGraves
  <2> QED BY <2>3, <2>4
<1>7. ASSUME NEW j \in Jobs PROVE Pays(j)'
  <2>1. CASE j = k
    <3>1. Pays(k)
      BY DEF RetryInv
    <3>2. jobs[k].attempt < MaxAttempts + Spent'
      <4>1. CASE Attended(k)
        BY <1>1, <1>5, <1>6, <3>1, <4>1 DEF Pays
      <4>2. CASE ~Attended(k)
        BY <1>2, <1>5, <1>6, <3>1, <4>2 DEF Pays, GivenUp
      <4> QED BY <4>1, <4>2
    <3> QED BY <1>3, <1>5, <1>6, <2>1, <3>2 DEF Pays
  <2>2. CASE j # k
    <3>1. jobs'[j] = jobs[j] /\ ~Live(j)
      BY <1>1, <1>3, <2>2 DEF SyncInv, OneLiveJob
    <3> QED BY <1>1, <1>6, <3>1, EndedPays DEF RetryInv
  <2> QED BY <2>1, <2>2
<1>8. \A w \in Workers : TurnCounts(w)'
  BY <1>2 DEF RetryInv, TurnCounts
<1> QED BY <1>6, <1>7, <1>8 DEF RetryInv

LEMMA ClaimPays ==
  ASSUME SyncInv, RetryInv, SyncInv', NEW w \in Workers, NEW k \in Jobs, Claim(w, k)
  PROVE  RetryInv'
<1>1. TypeOK /\ TypeOK' /\ Live(k) /\ jobs[k] \in Job /\ jobs[k] # Absent
  BY Rows DEF SyncInv, Claim, Claimable, Live, Absent
<1>2. MaxAttempts \in Nat \ {0} /\ faults \in Nat /\ jobs[k].attempt \in Nat
  BY <1>1, RowsCount
<1>3. /\ jobs' = [jobs EXCEPT ![k].state = "leased", ![k].holder = w,
                             ![k].unexpired = TRUE, ![k].attempt = @ + 1]
      /\ worker[w] = Idle /\ UNCHANGED <<connection, faults>>
  BY DEF Claim
<1>4. /\ jobs'[k].state = "leased" /\ jobs'[k].attempt = jobs[k].attempt + 1
      /\ jobs'[k].unexpired /\ jobs'[k].holder = w
      /\ \A j \in Jobs : j # k => jobs'[j] = jobs[j]
  <2>1. PICK n : n = jobs[k].attempt + 1
    OBVIOUS
  <2>2. jobs'[k] = [jobs[k] EXCEPT !.state = "leased", !.holder = w, !.unexpired = TRUE,
                                   !.attempt = n]
    BY <1>1, <1>3, <2>1 DEF TypeOK
  <2>3. \A j \in Jobs : j # k => jobs'[j] = jobs[j]
    BY <1>1, <1>3 DEF TypeOK
  <2> QED BY <1>1, <2>1, <2>2, <2>3 DEF Job
<1>5. /\ worker'[w].phase = "claimed" /\ worker'[w].job = k /\ worker'[w] # Idle
      /\ worker'[w].done = worker'[w].from + worker'[w].imported
      /\ \A v \in Workers : v # w => worker'[v] = worker[v]
  <2>1. jobs[k].offset \in Nat
    BY <1>1 DEF Job
  <2>2. worker' = [worker EXCEPT ![w] =
          [phase |-> "claimed", job |-> k, at |-> jobs[k].at, done |-> jobs[k].offset,
           from |-> jobs[k].offset, imported |-> 0]]
    BY DEF Claim
  <2>3. worker'[w] = [phase |-> "claimed", job |-> k, at |-> jobs[k].at, done |-> jobs[k].offset,
                      from |-> jobs[k].offset, imported |-> 0]
        /\ \A v \in Workers : v # w => worker'[v] = worker[v]
    BY <1>1, <2>2 DEF TypeOK
  <2> QED BY <2>1, <2>3 DEF Idle
<1>6. /\ FlagsAreOwn' /\ IsFiniteSet(Buried')
      /\ Spent \in Nat /\ Spent' \in Nat /\ Spent <= Spent'
  <2>1. \A j \in Jobs : Dead(j)' <=> Dead(j)
    <3>1. ~Dead(k) /\ ~Dead(k)'
      BY <1>1, <1>4 DEF Dead, Live
    <3> QED BY <1>4, <3>1 DEF Dead
  <2>2. \A v \in Workers, j \in Jobs : FlagsFor(v, j)' <=> FlagsFor(v, j)
    <3>1. \A j \in Jobs : ~FlagsFor(w, j) /\ ~FlagsFor(w, j)'
      BY <1>3, <1>5 DEF FlagsFor, Flagging
    <3> QED BY <1>5, <3>1 DEF FlagsFor, Flagging
  <2>3. faults' <= faults
    BY <1>2, <1>3
  <2> QED BY <1>1, <1>3, <2>1, <2>2, <2>3, QuietGraves
<1>7. ASSUME NEW j \in Jobs PROVE Pays(j)'
  <2>1. CASE j = k
    <3>1. Pays(k)
      BY DEF RetryInv
    <3>2. jobs[k].attempt < MaxAttempts + Spent
      <4>1. CASE jobs[k].state = "queued"
        BY <1>2, <1>6, <3>1, <4>1 DEF Pays
      <4>2. CASE jobs[k].state = "leased" /\ ~jobs[k].unexpired
        BY <3>1, <4>2 DEF Pays, GivenUp, Attended
      <4> QED BY <4>1, <4>2 DEF Claim, Claimable
    <3>3. Attended(k)' /\ ~Doomed(k)'
      BY <1>4, <1>5 DEF Attended, Doomed, Running
    <3> QED BY <1>2, <1>4, <1>6, <2>1, <3>2, <3>3 DEF Pays, GivenUp
  <2>2. CASE j # k
    <3>1. jobs'[j] = jobs[j] /\ ~Live(j)
      BY <1>1, <1>4, <2>2 DEF SyncInv, OneLiveJob
    <3> QED BY <1>1, <1>6, <3>1, EndedPays DEF RetryInv
  <2> QED BY <2>1, <2>2
<1>8. ASSUME NEW v \in Workers PROVE TurnCounts(v)'
  <2>1. CASE v = w
    <3>1. worker'[w] \in Turn
      BY <1>1, <1>5 DEF TypeOK
    <3> QED BY <1>5, <2>1, <3>1 DEF TurnCounts, Turn
  <2>2. CASE v # w
    BY <1>5, <2>2 DEF RetryInv, TurnCounts
  <2> QED BY <2>1, <2>2
<1> QED BY <1>6, <1>7, <1>8 DEF RetryInv


LEMMA StaysWithin ==
  ASSUME NEW a \in Nat, NEW n \in Nat, NEW m \in Nat, NEW s \in Nat, NEW t \in Nat,
         a <= n, n <= m + s, s <= t
  PROVE  a <= m + t
OBVIOUS

(* A report gives the job up; only one that found budget left puts it back   *)
(* in the queue, and the one that found none may have the connection to flag.*)
LEMMA HandBackPays ==
  ASSUME SyncInv, RetryInv, SyncInv', NEW w \in Workers, worker[w] # Idle,
         NEW state \in {"queued", "succeeded", "failed", "dead"}, NEW attempt \in Nat, NEW at, NEW offset,
         HandBack(w, state, attempt, at, offset),
         \A v \in Workers : v # w => worker'[v] = worker[v],
         \/ worker'[w] = Idle
         \/ state = "dead" /\ Flagging(w)' /\ worker'[w].job = worker[w].job /\ TurnCounts(w)',
         attempt <= jobs[worker[w].job].attempt,
         state = "queued" => attempt < MaxAttempts,
         connection' = connection, faults' <= faults
  PROVE  RetryInv'
<1>0. PICK k \in Jobs : k = worker[w].job
  BY TurnFacts DEF SyncInv
<1>1. /\ TypeOK /\ TypeOK' /\ Live(k) /\ jobs[k].state = "leased"
      /\ \A j \in Jobs : j # k => jobs'[j] = jobs[j]
  BY <1>0, HandedRow DEF SyncInv, HandBack, Holds
<1>2. /\ jobs[k] # Absent /\ jobs[k].attempt \in Nat /\ MaxAttempts \in Nat \ {0}
      /\ jobs'[k].attempt = attempt /\ jobs'[k].state = state
  <2>1. jobs[k] # Absent
    BY <1>1 DEF Absent
  <2>2. jobs' = [jobs EXCEPT ![k] =
          [state |-> state, attempt |-> attempt, at |-> at, offset |-> offset,
           holder |-> NoWorker, unexpired |-> FALSE]]
    BY <1>0 DEF HandBack
  <2>3. jobs'[k] = [state |-> state, attempt |-> attempt, at |-> at, offset |-> offset,
                    holder |-> NoWorker, unexpired |-> FALSE]
    BY <1>1, <2>2 DEF TypeOK
  <2> QED BY <1>1, <2>1, <2>3, RowsCount
<1>3. /\ FlagsAreOwn' /\ IsFiniteSet(Buried')
      /\ Spent \in Nat /\ Spent' \in Nat /\ Spent <= Spent'
  <2>1. \A j \in Jobs : j # k => (Dead(j)' <=> Dead(j))
    BY <1>1 DEF Dead
  <2>2. ~Dead(k) /\ \A v \in Workers : ~FlagsFor(v, k)
    BY <1>1 DEF Dead, RetryInv, FlagsAreOwn
  <2>3. \A v \in Workers, j \in Jobs : j # k => (FlagsFor(v, j)' <=> FlagsFor(v, j))
    <3>1. \A j \in Jobs : j # k => ~FlagsFor(w, j) /\ ~FlagsFor(w, j)'
      BY <1>0 DEF FlagsFor, Flagging
    <3> QED BY <3>1 DEF FlagsFor, Flagging
  <2>4. \A v \in Workers : FlagsFor(v, k)' => v = w /\ Dead(k)'
    <3>1. \A v \in Workers : v # w => ~FlagsFor(v, k)'
      BY <2>2 DEF FlagsFor, Flagging
    <3>2. FlagsFor(w, k)' => Dead(k)'
      BY <1>2 DEF FlagsFor, Flagging, Dead
    <3> QED BY <3>1, <3>2
  <2> QED BY <1>1, <2>1, <2>2, <2>3, <2>4, Graves
<1>5. ASSUME NEW j \in Jobs PROVE Pays(j)'
  <2>1. CASE j = k
    <3>1. PICK n \in Nat : n = jobs[k].attempt
      BY <1>2
    <3>a. Pays(k) /\ attempt <= n
      BY <1>0, <3>1 DEF RetryInv
    <3>2. n <= MaxAttempts + Spent /\ attempt <= n
      BY <1>2, <3>1, <3>a DEF Pays
    <3>3. attempt <= MaxAttempts + Spent'
      BY <1>2, <1>3, <3>2, StaysWithin
    <3> QED BY <1>2, <2>1, <3>3 DEF Pays, GivenUp, Doomed, Attended
  <2>2. CASE j # k
    <3>1. jobs'[j] = jobs[j] /\ ~Live(j)
      BY <1>1, <2>2 DEF SyncInv, OneLiveJob
    <3> QED BY <1>1, <1>3, <3>1, EndedPays DEF RetryInv
  <2> QED BY <2>1, <2>2
<1>6. ASSUME NEW v \in Workers PROVE TurnCounts(v)'
  <2>1. worker'[v] = Idle => TurnCounts(v)'
    BY DEF TurnCounts
  <2>2. v # w => TurnCounts(v)'
    BY DEF RetryInv, TurnCounts
  <2> QED BY <2>1, <2>2
<1> QED BY <1>3, <1>5, <1>6 DEF RetryInv

LEMMA CompletePays ==
  ASSUME SyncInv, RetryInv, SyncInv', NEW w \in Workers, worker[w] # Idle,
         NEW state \in {"queued", "succeeded", "failed", "dead"}, NEW attempt \in Nat, NEW at, NEW offset,
         Complete(w, state, attempt, at, offset),
         attempt <= jobs[worker[w].job].attempt,
         state = "queued" => attempt < MaxAttempts,
         connection' = connection, faults' <= faults
  PROVE  RetryInv'
<1>1. worker' = [worker EXCEPT ![w] = Idle] /\ HandBack(w, state, attempt, at, offset)
  BY DEF Complete
<1>2. worker'[w] = Idle /\ \A v \in Workers : v # w => worker'[v] = worker[v]
  BY <1>1 DEF SyncInv, TypeOK
<1> QED BY <1>1, <1>2, HandBackPays

(* What the holder of a job knows of its budget.                             *)
LEMMA HolderBudget ==
  ASSUME SyncInv, NEW w \in Workers, worker[w] # Idle, Holds(w)
  PROVE  \E k \in Jobs : /\ k = worker[w].job /\ jobs[k].attempt \in Nat
                         /\ AfterRetry(k) \in {"queued", "dead"}
                         /\ AfterRetry(k) = "queued" => jobs[k].attempt < MaxAttempts
<1>1. PICK k \in Jobs : k = worker[w].job
  BY TurnFacts DEF SyncInv
<1>2. jobs[k] # Absent
  BY <1>1 DEF Holds, Absent
<1>3. jobs[k].attempt \in Nat /\ MaxAttempts \in Nat
  BY <1>2, RowsCount DEF SyncInv
<1>4. /\ AfterRetry(k) \in {"queued", "dead"}
      /\ AfterRetry(k) = "queued" => jobs[k].attempt < MaxAttempts
  BY <1>3 DEF AfterRetry
<1> QED BY <1>1, <1>3, <1>4

LEMMA OutcomesPay ==
  ASSUME SyncInv, RetryInv, SyncInv', NEW w \in Workers,
         \/ FailRevoked(w) \/ FailRefresh(w) \/ Retry(w) \/ Defer(w)
         \/ ReportProgress(w) \/ ReportSuccess(w)
  PROVE  RetryInv'
<1>1. worker[w] # Idle
  BY Awake, ReportFacts DEF FailRevoked, FailRefresh, Retry, Defer, Admissible, Importing,
                            ReportProgress, ReportSuccess
<1>2. Holds(w)
  BY DEF FailRevoked, FailRefresh, Retry, Defer, ReportProgress, ReportSuccess, CompleteInPlace,
         Complete, HandBack
<1>3. PICK k \in Jobs :
        /\ k = worker[w].job /\ jobs[k].attempt \in Nat
        /\ AfterRetry(k) \in {"queued", "dead"}
        /\ AfterRetry(k) = "queued" => jobs[k].attempt < MaxAttempts
  BY <1>1, <1>2, HolderBudget
<1>4. PICK n \in Nat : n = jobs[k].attempt
  BY <1>3
<1>5. faults \in Nat /\ 0 < MaxAttempts /\ 0 <= n /\ n <= n
  BY RowsCount DEF SyncInv
<1>6. CASE FailRevoked(w)
  <2>1. \E at, offset : Complete(w, "failed", n, at, offset)
    BY <1>3, <1>4, <1>6 DEF FailRevoked, CompleteInPlace
  <2>2. connection' = connection /\ faults' <= faults
    BY <1>5, <1>6 DEF FailRevoked
  <2> QED BY <1>1, <1>3, <1>4, <1>5, <2>1, <2>2, CompletePays
<1>7. CASE FailRefresh(w)
  <2>1. connection' = connection /\ faults' <= faults
    BY <1>5, <1>7 DEF FailRefresh
  <2>2. CASE AfterRetry(k) = "queued" /\ CompleteInPlace(w, "queued", n)
    <3>1. \E at, offset : Complete(w, "queued", n, at, offset)
      BY <2>2 DEF CompleteInPlace
    <3> QED BY <1>1, <1>3, <1>4, <1>5, <2>1, <2>2, <3>1, CompletePays
  <2>3. CASE /\ HandBack(w, "dead", n, jobs[k].at, jobs[k].offset)
             /\ worker' = [worker EXCEPT ![w].phase = "flagging"]
    <3>1. worker[w] \in Turn /\ TurnCounts(w) /\ worker \in [Workers -> {Idle} \union Turn]
      BY <1>1, Rows DEF SyncInv, RetryInv, TypeOK
    <3>2. worker'[w] = [worker[w] EXCEPT !.phase = "flagging"]
          /\ \A v \in Workers : v # w => worker'[v] = worker[v]
      BY <2>3, <3>1
    <3>3. /\ worker'[w].phase = "flagging" /\ worker'[w].job = worker[w].job
          /\ worker'[w].done = worker[w].done /\ worker'[w].from = worker[w].from
          /\ worker'[w].imported = worker[w].imported
      BY <3>1, <3>2 DEF Turn
    <3>4. worker'[w] # Idle
      BY <3>3 DEF Idle
    <3>5. Flagging(w)' /\ TurnCounts(w)'
      BY <1>1, <3>1, <3>3, <3>4 DEF Flagging, TurnCounts
    <3> QED BY <1>1, <1>3, <1>4, <1>5, <2>1, <2>3, <3>2, <3>3, <3>5, HandBackPays
  <2> QED BY <1>3, <1>4, <1>7, <2>2, <2>3 DEF FailRefresh
<1>8. CASE Retry(w)
  <2>1. \E at, offset : Complete(w, AfterRetry(k), n, at, offset)
    BY <1>3, <1>4, <1>8 DEF Retry, CompleteInPlace
  <2>2. connection' = connection /\ faults' <= faults
    BY <1>5, <1>8 DEF Retry
  <2> QED BY <1>1, <1>3, <1>4, <1>5, <2>1, <2>2, CompletePays
<1>9. CASE Defer(w)
  <2>1. \E at, offset : Complete(w, "queued", 0, at, offset)
    BY <1>9 DEF Defer, CompleteInPlace
  <2>2. connection' = connection /\ faults' <= faults
    BY <1>5, <1>9 DEF Defer
  <2> QED BY <1>1, <1>3, <1>4, <1>5, <2>1, <2>2, CompletePays
<1>10. CASE ReportProgress(w)
  <2>1. \E at, offset : Complete(w, "queued", 0, at, offset)
    BY <1>10 DEF ReportProgress
  <2>2. connection' = connection /\ faults' <= faults
    BY <1>5, <1>10 DEF ReportProgress
  <2> QED BY <1>1, <1>3, <1>4, <1>5, <2>1, <2>2, CompletePays
<1>11. CASE ReportSuccess(w)
  <2>1. \E at, offset : Complete(w, "succeeded", n, at, offset)
    BY <1>3, <1>4, <1>11 DEF ReportSuccess
  <2>2. connection' = connection /\ faults' <= faults
    BY <1>5, <1>11 DEF ReportSuccess
  <2> QED BY <1>1, <1>3, <1>4, <1>5, <2>1, <2>2, CompletePays
<1> QED BY <1>6, <1>7, <1>8, <1>9, <1>10, <1>11


(* A turn that goes on still attends to its job.                             *)
LEMMA TurnGoesOnPays ==
  ASSUME SyncInv, RetryInv, SyncInv', NEW w \in Workers, worker[w] # Idle, worker'[w] # Idle,
         UNCHANGED <<jobs, connection, faults>>,
         worker'[w].job = worker[w].job,
         worker[w].phase # "flagging", worker'[w].phase # "flagging",
         worker'[w].phase = worker[w].phase \/ connection = "active",
         \A v \in Workers : v # w => worker'[v] = worker[v],
         TurnCounts(w)'
  PROVE  RetryInv'
<1>1. TypeOK /\ TypeOK' /\ faults \in Nat
  BY RowsCount DEF SyncInv
<1>2. \A v \in Workers, j \in Jobs : Running(v, j)' <=> Running(v, j)
  BY DEF Running
<1>3. /\ FlagsAreOwn' /\ IsFiniteSet(Buried')
      /\ Spent \in Nat /\ Spent' \in Nat /\ Spent <= Spent'
  <2>1. \A j \in Jobs : Dead(j)' <=> Dead(j)
    BY DEF Dead
  <2>2. \A v \in Workers, j \in Jobs : FlagsFor(v, j)' <=> FlagsFor(v, j)
    <3>1. \A j \in Jobs : ~FlagsFor(w, j) /\ ~FlagsFor(w, j)'
      BY DEF FlagsFor, Flagging
    <3> QED BY <3>1 DEF FlagsFor, Flagging
  <2> QED BY <1>1, <2>1, <2>2, QuietGraves
<1>4. ASSUME NEW j \in Jobs PROVE Pays(j)'
  <2>1. Attended(j)' <=> Attended(j)
    BY <1>2 DEF Attended, Running
  <2>2. GivenUp(j)' <=> GivenUp(j)
    BY <2>1 DEF GivenUp
  <2>3. Doomed(j)' => Doomed(j)
    <3>1. ASSUME Doomed(j)' PROVE jobs[j].holder \in Workers /\ connection # "active"
      BY <3>1 DEF Doomed, Attended
    <3>2. ASSUME Doomed(j)'
          PROVE  worker[jobs[j].holder].phase = worker'[jobs[j].holder].phase
      BY <3>1, <3>2
    <3> QED BY <2>1, <3>2 DEF Doomed
  <2> QED BY <1>1, <1>3, <2>2, <2>3, PaysStill DEF RetryInv
<1>5. \A v \in Workers : TurnCounts(v)'
  BY DEF RetryInv, TurnCounts
<1> QED BY <1>3, <1>4, <1>5 DEF RetryInv

LEMMA TurnStepsPay ==
  ASSUME SyncInv, RetryInv, SyncInv', NEW w \in Workers,
         LoadPage(w) \/ RecordRemoval(w) \/ PassItem(w) \/ AdmitFile(w)
  PROVE  RetryInv'
<1>1. /\ worker[w] # Idle /\ worker[w] \in Turn /\ TurnCounts(w) /\ ImportLimit \in Nat /\ MaxFeed \in Nat
      /\ worker \in [Workers -> {Idle} \union Turn]
      /\ UNCHANGED <<jobs, connection, faults>> /\ worker[w].phase # "flagging"
  <2>1. worker[w] # Idle /\ worker[w].phase # "flagging"
    BY Awake DEF LoadPage, RecordRemoval, PassItem, AdmitFile, Admissible, Importing
  <2>2. UNCHANGED <<jobs, connection, faults>>
    BY DEF LoadPage, RecordRemoval, PassItem, AdmitFile
  <2> QED BY <2>1, <2>2, Rows, BoundsAssumption DEF SyncInv, RetryInv, TypeOK
<1>2. PICK d \in Nat, f \in Nat, i \in Nat :
        d = worker[w].done /\ f = worker[w].from /\ i = worker[w].imported
  BY <1>1 DEF Turn
<1>3. f + i <= d /\ f + i <= d + 1 /\ f + (i + 1) <= d + 1
  BY <1>1, <1>2 DEF TurnCounts
<1>4. CASE LoadPage(w)
  <2>1. worker'[w] = [worker[w] EXCEPT !.phase = "working"]
        /\ \A v \in Workers : v # w => worker'[v] = worker[v]
    BY <1>1, <1>4 DEF LoadPage
  <2>2. /\ worker'[w].phase = "working" /\ worker'[w].job = worker[w].job
        /\ worker'[w].done = d /\ worker'[w].from = f /\ worker'[w].imported = i
    BY <1>1, <1>2, <2>1 DEF Turn
  <2>3. worker'[w] # Idle /\ connection = "active"
    BY <1>4, <2>2 DEF Idle, LoadPage
  <2>4. TurnCounts(w)'
    BY <1>3, <2>2 DEF TurnCounts
  <2> QED BY <1>1, <2>1, <2>2, <2>3, <2>4, TurnGoesOnPays
<1>5. CASE RecordRemoval(w)
  <2>1. worker' = worker
    BY <1>5 DEF RecordRemoval
  <2>2. TurnCounts(w)'
    BY <1>1, <2>1 DEF TurnCounts
  <2> QED BY <1>1, <2>1, <2>2, TurnGoesOnPays
<1>6. CASE PassItem(w)
  <2>1. worker' = [worker EXCEPT ![w].done = d + 1] /\ worker[w].phase = "working"
    BY <1>2, <1>6 DEF PassItem, Importing
  <2>2. worker'[w] = [worker[w] EXCEPT !.done = d + 1]
        /\ \A v \in Workers : v # w => worker'[v] = worker[v]
    BY <1>1, <2>1
  <2>3. /\ worker'[w].phase = "working" /\ worker'[w].job = worker[w].job
        /\ worker'[w].done = d + 1 /\ worker'[w].from = f /\ worker'[w].imported = i
    BY <1>1, <1>2, <2>1, <2>2 DEF Turn
  <2>4. worker'[w] # Idle
    BY <2>3 DEF Idle
  <2>5. TurnCounts(w)'
    BY <1>3, <2>3 DEF TurnCounts
  <2> QED BY <1>1, <2>1, <2>2, <2>3, <2>4, <2>5, TurnGoesOnPays
<1>7. CASE AdmitFile(w)
  <2>1. worker' = [worker EXCEPT ![w].done = d + 1, ![w].imported = i + 1]
        /\ worker[w].phase = "working"
    BY <1>2, <1>7 DEF AdmitFile, Admissible, Importing
  <2>2. worker'[w] = [worker[w] EXCEPT !.done = d + 1, !.imported = i + 1]
        /\ \A v \in Workers : v # w => worker'[v] = worker[v]
    BY <1>1, <2>1
  <2>3. /\ worker'[w].phase = "working" /\ worker'[w].job = worker[w].job
        /\ worker'[w].done = d + 1 /\ worker'[w].from = f /\ worker'[w].imported = i + 1
    BY <1>1, <1>2, <2>1, <2>2 DEF Turn
  <2>4. worker'[w] # Idle
    BY <2>3 DEF Idle
  <2>5. TurnCounts(w)'
    BY <1>3, <2>3 DEF TurnCounts
  <2> QED BY <1>1, <2>1, <2>2, <2>3, <2>4, <2>5, TurnGoesOnPays
<1> QED BY <1>4, <1>5, <1>6, <1>7

(* A turn may end without a word only if its job is lost to it already, if   *)
(* the connection went away and so was paid for, or for a fault.             *)
LEMMA RefusedPays ==
  ASSUME SyncInv, RetryInv, SyncInv', NEW w \in Workers, ReportRefused(w)
  PROVE  RetryInv'
<1>1. /\ worker[w] # Idle /\ worker' = [worker EXCEPT ![w] = Idle]
      /\ worker \in [Workers -> {Idle} \union Turn] /\ UNCHANGED <<jobs, connection, faults>>
      /\ TypeOK /\ TypeOK' /\ worker[w].phase # "flagging" /\ faults \in Nat
  BY Awake, RowsCount DEF ReportRefused, SyncInv, TypeOK
<1>2. worker'[w] = Idle /\ \A v \in Workers : v # w => worker'[v] = worker[v]
  BY <1>1
<1>3. /\ FlagsAreOwn' /\ IsFiniteSet(Buried')
      /\ Spent \in Nat /\ Spent' \in Nat /\ Spent <= Spent'
  <2>1. \A j \in Jobs : Dead(j)' <=> Dead(j)
    BY <1>1 DEF Dead
  <2>2. \A v \in Workers, j \in Jobs : FlagsFor(v, j)' <=> FlagsFor(v, j)
    <3>1. \A j \in Jobs : ~FlagsFor(w, j) /\ ~FlagsFor(w, j)'
      BY <1>1, <1>2 DEF FlagsFor, Flagging
    <3> QED BY <1>2, <3>1 DEF FlagsFor, Flagging
  <2> QED BY <1>1, <2>1, <2>2, QuietGraves
<1>4. ASSUME NEW j \in Jobs PROVE Pays(j)'
  <2>1. Attended(j)' => Attended(j) /\ jobs[j].holder # w
    BY <1>1, <1>2 DEF Attended, Running
  <2>2. Doomed(j)' => Doomed(j)
    BY <1>1, <1>2, <2>1 DEF Doomed, Attended
  <2>3. ASSUME Attended(j), ~Attended(j)' PROVE Doomed(j)
    <3>1. HoldsLive(w) /\ worker[w].job = j /\ jobs[j].holder = w
      BY <1>1, <1>2, <2>3 DEF Attended, Running, HoldsLive, Holds
    <3>2. Reporting(w) /\ connection # "active"
      BY <3>1 DEF ReportRefused
    <3> QED BY <2>3, <3>1, <3>2 DEF Doomed, Reporting
  <2>4. GivenUp(j)' => GivenUp(j) \/ Doomed(j)
    BY <1>1, <2>3 DEF GivenUp
  <2> QED BY <1>1, <1>3, <2>2, <2>4, PaysStill DEF RetryInv
<1>5. \A v \in Workers : TurnCounts(v)'
  BY <1>2 DEF RetryInv, TurnCounts
<1> QED BY <1>3, <1>4, <1>5 DEF RetryInv

(* A crash takes a fault, and a flag buries the job it was raised for.       *)
LEMMA CostlyEndPays ==
  ASSUME SyncInv, RetryInv, SyncInv', NEW w \in Workers, Crash(w) \/ Flag(w)
  PROVE  RetryInv'
<1>1. /\ worker[w] # Idle /\ worker' = [worker EXCEPT ![w] = Idle]
      /\ worker \in [Workers -> {Idle} \union Turn] /\ jobs' = jobs
      /\ TypeOK /\ TypeOK' /\ faults \in Nat
      /\ connection = "revoked" => connection' = "revoked"
  BY Awake, RowsCount DEF Crash, Flag, SyncInv, TypeOK
<1>2. worker'[w] = Idle /\ \A v \in Workers : v # w => worker'[v] = worker[v]
  BY <1>1
<1>3. PICK k \in Jobs : k = worker[w].job
  BY <1>1, TurnFacts DEF SyncInv
<1>4. /\ FlagsAreOwn' /\ IsFiniteSet(Buried')
      /\ Spent \in Nat /\ Spent' \in Nat /\ Spent <= Spent' /\ Spent < Spent'
  <2>1. \A j \in Jobs : Dead(j)' <=> Dead(j)
    BY <1>1 DEF Dead
  <2>2. \A v \in Workers, j \in Jobs : j # k => (FlagsFor(v, j)' <=> FlagsFor(v, j))
    <3>1. \A j \in Jobs : j # k => ~FlagsFor(w, j) /\ ~FlagsFor(w, j)'
      BY <1>2, <1>3 DEF FlagsFor, Flagging
    <3> QED BY <1>2, <3>1 DEF FlagsFor, Flagging
  <2>3. \A v \in Workers : FlagsFor(v, k)' => FlagsFor(v, k)
    BY <1>2 DEF FlagsFor, Flagging
  <2>4. \A v \in Workers : FlagsFor(v, k)' =>
          Dead(k)' /\ \A u \in Workers : FlagsFor(u, k)' => u = v
    BY <2>1, <2>3 DEF RetryInv, FlagsAreOwn
  <2>5. faults' <= faults
    BY <1>1 DEF Crash, Flag
  <2>6. CASE Crash(w)
    <3>1. faults' < faults
      BY <1>1, <2>6 DEF Crash
    <3> QED BY <1>1, <2>1, <2>2, <2>3, <2>4, <2>5, <3>1, Graves
  <2>7. CASE Flag(w)
    <3>1. FlagsFor(w, k) /\ Dead(k) /\ Dead(k)' /\ \A v \in Workers : FlagsFor(v, k) => v = w
      BY <1>1, <1>3, <2>1, <2>7 DEF FlagsFor, Flagging, Flag, RetryInv, FlagsAreOwn
    <3>2. \A v \in Workers : ~FlagsFor(v, k)'
      BY <1>2, <2>3, <3>1 DEF FlagsFor, Flagging
    <3>3. k \in Buried' \ Buried
      BY <3>1, <3>2 DEF Buried, Dead, FlagsFor
    <3> QED BY <1>1, <2>1, <2>2, <2>3, <2>4, <2>5, <3>3, Graves
  <2> QED BY <2>6, <2>7
<1>5. \A j \in Jobs : Pays(j)'
  BY <1>1, <1>4, PaysStill DEF RetryInv
<1>6. \A v \in Workers : TurnCounts(v)'
  BY <1>2 DEF RetryInv, TurnCounts
<1> QED BY <1>4, <1>5, <1>6 DEF RetryInv

LEMMA OutsidePays ==
  ASSUME SyncInv, RetryInv, SyncInv', Publish \/ ChangeConnection \/ UNCHANGED vars
  PROVE  RetryInv'
<1>1. /\ UNCHANGED <<jobs, worker, faults>> /\ TypeOK /\ TypeOK' /\ faults \in Nat
      /\ connection = "revoked" => connection' = "revoked"
  BY RowsCount DEF Publish, ChangeConnection, vars, SyncInv
<1>2. /\ FlagsAreOwn' /\ IsFiniteSet(Buried')
      /\ Spent \in Nat /\ Spent' \in Nat /\ Spent <= Spent'
      /\ connection # "revoked" /\ connection' = "revoked" => Spent < Spent'
  <2>1. \A j \in Jobs : Dead(j)' <=> Dead(j)
    BY <1>1 DEF Dead
  <2>2. \A v \in Workers, j \in Jobs : FlagsFor(v, j)' <=> FlagsFor(v, j)
    BY <1>1 DEF FlagsFor, Flagging
  <2>3. faults' <= faults
    BY <1>1
  <2> QED BY <1>1, <2>1, <2>2, <2>3, QuietGraves
<1>3. ASSUME NEW j \in Jobs PROVE Pays(j)'
  <2>1. Attended(j)' <=> Attended(j)
    BY <1>1 DEF Attended, Running
  <2>2. GivenUp(j)' => GivenUp(j)
    BY <1>1, <2>1 DEF GivenUp
  <2>3. \/ connection' = connection \/ connection' = "active"
        \/ connection # "revoked" /\ connection' = "revoked"
    BY DEF Publish, ChangeConnection, vars
  <2>4. Doomed(j)' => Doomed(j) \/ Spent < Spent'
    BY <1>1, <1>2, <2>1, <2>3 DEF Doomed
  <2> QED BY <1>1, <1>2, <2>2, <2>4, PaysStill DEF RetryInv
<1>4. \A v \in Workers : TurnCounts(v)'
  BY <1>1 DEF RetryInv, TurnCounts
<1> QED BY <1>2, <1>3, <1>4 DEF RetryInv

LEMMA InitPays ==
  ASSUME Init
  PROVE  RetryInv
<1>1. \A j \in Jobs : jobs[j] = Absent
  BY DEF Init
<1>2. \A j \in Jobs : ~Live(j) /\ jobs[j].state \notin {"queued", "leased", "dead"}
  BY <1>1 DEF Absent, Live
<1>3. \A j \in Jobs : Pays(j)
  BY <1>1, <1>2 DEF Pays, GivenUp, Doomed, Attended
<1>4. \A w \in Workers : TurnCounts(w) /\ ~Flagging(w)
  BY DEF Init, TurnCounts, Flagging
<1>5. FlagsAreOwn
  BY <1>4 DEF FlagsAreOwn, FlagsFor
<1>6. Buried = {}
  BY <1>2 DEF Buried
<1>7. IsFiniteSet(Buried)
  BY <1>6, FS_EmptySet
<1> QED BY <1>3, <1>4, <1>5, <1>7 DEF RetryInv

LEMMA NextPays ==
  ASSUME SyncInv, RetryInv, [Next]_vars
  PROVE  RetryInv'
<1>1. SyncInv'
  BY NextKeeps
<1>2. ASSUME NEW j \in Jobs, Enqueue(j) \/ LeaseExpires(j) PROVE RetryInv'
  BY <1>1, <1>2, EnqueuePays, LeaseExpiresPays
<1>3. ASSUME ClaimStep PROVE RetryInv'
  BY <1>1, <1>3, ClaimPays DEF ClaimStep
<1>4. ASSUME NEW w \in Workers, TurnStep(w) \/ Crash(w) PROVE RetryInv'
  BY <1>1, <1>4, OutcomesPay, TurnStepsPay, RefusedPays, CostlyEndPays DEF TurnStep
<1> QED BY <1>1, <1>2, <1>3, <1>4, OutsidePays DEF Next

THEOREM RetryInvariance == Spec => [](SyncInv /\ RetryInv)
<1>1. Init => SyncInv /\ RetryInv
  BY InitIsSafe, InitPays
<1>2. SyncInv /\ RetryInv /\ [Next]_vars => (SyncInv /\ RetryInv)'
  BY NextKeeps, NextPays
<1> QED BY <1>1, <1>2, PTL DEF Spec

(* A job is claimed no more often without progress than its attempt budget   *)
(* says, but for once for each fault, once for the owner's revocation and    *)
(* once for each earlier sync that died: no claim looks at the budget, and a *)
(* dead sync's worker may flag the connection under the next one.            *)
THEOREM AttemptsAreAlwaysPaidFor == Spec => []AttemptsArePaidFor
<1>1. RetryInv => AttemptsArePaidFor
  BY DEF RetryInv, Pays, AttemptsArePaidFor
<1> QED BY <1>1, RetryInvariance, PTL

-----------------------------------------------------------------------------

(* Why a job ends: what is left of it never grows, and every step on it      *)
(* takes some of that away.                                                  *)

(* Steps left to a turn: loading the page, the removals to record, the items *)
(* to judge and the report.                                                  *)
TurnLeft(w) ==
  IF worker[w].phase = "claimed" THEN 2 * MaxFeed + 4
  ELSE 3 + Cardinality(PendingRemovals(w)) + (Size(TurnPage(w)) - worker[w].done)

(* Steps left until the job is back in the queue, without a fault.           *)
AttemptLeft(j) ==
  CASE jobs[j].state = "queued" -> 0
    [] jobs[j].state # "queued" /\ ~jobs[j].unexpired -> 1
    [] jobs[j].state # "queued" /\ jobs[j].unexpired /\ ~Attended(j) -> 2
    [] jobs[j].state # "queued" /\ jobs[j].unexpired /\ Attended(j) -> TurnLeft(jobs[j].holder)

Flaggers == {w \in Workers : Flagging(w)}
Revoked == connection = "revoked"

SameOutside == faults' = faults /\ Flaggers' = Flaggers /\ Revoked' = Revoked
SameCursor(j) == SameOutside /\ jobs'[j].at = jobs[j].at /\ jobs'[j].offset = jobs[j].offset
SameAttempt(j) == SameCursor(j) /\ jobs'[j].attempt = jobs[j].attempt

(* One fault less, one flag less to come, the connection revoked, the cursor *)
(* further, one more attempt of the budget, or one step less of the attempt: *)
(* in this order.                                                            *)
Nearer(j) ==
  \/ faults' < faults
  \/ faults' = faults /\ Flaggers' \subseteq Flaggers /\ Flaggers' # Flaggers
  \/ faults' = faults /\ Flaggers' = Flaggers /\ ~Revoked /\ Revoked'
  \/ SameOutside /\ jobs'[j].at > jobs[j].at
  \/ SameOutside /\ jobs'[j].at = jobs[j].at /\ jobs'[j].offset > jobs[j].offset
  \/ SameCursor(j) /\ jobs'[j].attempt > jobs[j].attempt
  \/ SameAttempt(j) /\ AttemptLeft(j)' < AttemptLeft(j)

NoFarther(j) == Nearer(j) \/ (SameAttempt(j) /\ AttemptLeft(j)' = AttemptLeft(j))

InHand(w, j) == Attended(j) /\ jobs[j].holder = w

(* A step on the job j. *)
Acts(j) ==
  \/ LeaseExpires(j)
  \/ \E w \in Workers : Claim(w, j) \/ (InHand(w, j) /\ (TurnStep(w) \/ Crash(w)))

TurnsHaveEnds ==
  \A w \in Workers : worker[w] # Idle =>
    /\ TurnLeft(w) \in 3 .. 2 * MaxFeed + 4
    /\ worker[w].phase = "working" => TurnLeft(w) < 2 * MaxFeed + 4
    /\ IsFiniteSet(PendingRemovals(w)) /\ Cardinality(PendingRemovals(w)) \in Nat
    /\ worker[w].done \in Nat /\ Size(TurnPage(w)) \in Nat /\ worker[w].done <= Size(TurnPage(w))

LEMMA TurnsEnd == SyncInv => TurnsHaveEnds
<1> SUFFICES ASSUME SyncInv, NEW w \in Workers, worker[w] # Idle
             PROVE  /\ TurnLeft(w) \in 3 .. 2 * MaxFeed + 4
                    /\ worker[w].phase = "working" => TurnLeft(w) < 2 * MaxFeed + 4
                    /\ IsFiniteSet(PendingRemovals(w)) /\ Cardinality(PendingRemovals(w)) \in Nat
                    /\ worker[w].done \in Nat /\ Size(TurnPage(w)) \in Nat
                    /\ worker[w].done <= Size(TurnPage(w))
  BY DEF TurnsHaveEnds
<1>1. /\ MaxFeed \in Nat /\ worker[w].done \in Nat /\ Size(TurnPage(w)) \in 0 .. MaxFeed
      /\ TurnPage(w).items \subseteq 1 .. MaxFeed
  BY TurnFacts, Rows DEF SyncInv
<1>2. worker[w].done <= Size(TurnPage(w))
  BY DEF SyncInv, TurnsLoseNothing, TurnIsSafe
<1>3. PendingRemovals(w) \subseteq 1 .. MaxFeed
  BY <1>1 DEF PendingRemovals
<1>4. IsFiniteSet(PendingRemovals(w)) /\ Cardinality(PendingRemovals(w)) \in 0 .. MaxFeed
  BY <1>1, <1>3, RankFacts
<1>5. PICK c \in Nat, s \in Nat, d \in Nat, m \in Nat :
        /\ c = Cardinality(PendingRemovals(w)) /\ s = Size(TurnPage(w)) /\ d = worker[w].done
        /\ m = MaxFeed /\ c <= m /\ s <= m /\ d <= s
  BY <1>1, <1>2, <1>4
<1>6. CASE worker[w].phase = "claimed"
  <2>1. TurnLeft(w) = 2 * m + 4
    BY <1>5, <1>6 DEF TurnLeft
  <2> QED BY <1>2, <1>4, <1>5, <1>6, <2>1
<1>7. CASE worker[w].phase # "claimed"
  <2>1. TurnLeft(w) = 3 + c + (s - d)
    BY <1>5, <1>7 DEF TurnLeft
  <2>2. 3 + c + (s - d) \in 3 .. 2 * m + 4 /\ 3 + c + (s - d) < 2 * m + 4
    BY <1>5
  <2> QED BY <1>2, <1>4, <1>5, <2>1, <2>2
<1> QED BY <1>6, <1>7

LEMMA TurnsStillEnd == SyncInv' => TurnsHaveEnds'
BY TurnsEnd, PTL

(* The four cases of what is left of an attempt.                             *)
AttemptCases ==
  \A j \in Jobs : Live(j) =>
    /\ jobs[j].state = "queued" => AttemptLeft(j) = 0
    /\ jobs[j].state = "leased" /\ ~jobs[j].unexpired => AttemptLeft(j) = 1
    /\ jobs[j].state = "leased" /\ jobs[j].unexpired /\ ~Attended(j) => AttemptLeft(j) = 2
    /\ Attended(j) => /\ AttemptLeft(j) = TurnLeft(jobs[j].holder)
                      /\ jobs[j].state = "leased" /\ jobs[j].unexpired
    /\ jobs[j].attempt \in Nat /\ jobs[j].unexpired \in BOOLEAN

LEMMA AttemptIs == TypeOK => AttemptCases
<1> SUFFICES ASSUME TypeOK, NEW j \in Jobs, Live(j)
             PROVE  /\ jobs[j].state = "queued" => AttemptLeft(j) = 0
                    /\ jobs[j].state = "leased" /\ ~jobs[j].unexpired => AttemptLeft(j) = 1
                    /\ jobs[j].state = "leased" /\ jobs[j].unexpired /\ ~Attended(j) =>
                         AttemptLeft(j) = 2
                    /\ Attended(j) => /\ AttemptLeft(j) = TurnLeft(jobs[j].holder)
                                      /\ jobs[j].state = "leased" /\ jobs[j].unexpired
                    /\ jobs[j].attempt \in Nat /\ jobs[j].unexpired \in BOOLEAN
  BY DEF AttemptCases
<1>1. jobs[j].attempt \in Nat /\ jobs[j].unexpired \in BOOLEAN
  BY Rows DEF Job
<1> QED BY <1>1 DEF Live, AttemptLeft, Attended

LEMMA AttemptStillIs == TypeOK' => AttemptCases'
BY AttemptIs, PTL

(* Who flags next, and that most steps leave them alone.                     *)
LEMMA SameFlaggers ==
  ASSUME NEW w \in Workers, \A v \in Workers : v # w => worker'[v] = worker[v],
         ~Flagging(w), ~Flagging(w)'
  PROVE  Flaggers' = Flaggers
BY DEF Flaggers, Flagging

LEMMA EndedFlags ==
  ASSUME SyncInv, NEW w \in Workers, worker[w].phase # "flagging",
         worker' = [worker EXCEPT ![w] = Idle]
  PROVE  Flaggers' = Flaggers
<1>1. worker'[w] = Idle /\ \A v \in Workers : v # w => worker'[v] = worker[v]
  BY DEF SyncInv, TypeOK
<1>2. ~Flagging(w) /\ ~Flagging(w)'
  BY <1>1 DEF Flagging
<1> QED BY <1>1, <1>2, SameFlaggers

LEMMA ReportsFlagNothing ==
  ASSUME SyncInv, NEW w \in Workers,
         FailRevoked(w) \/ Retry(w) \/ Defer(w) \/ ReportProgress(w) \/ ReportSuccess(w)
         \/ ReportRefused(w)
  PROVE  Flaggers' = Flaggers
<1>1. worker[w].phase # "flagging"
  BY DEF FailRevoked, Retry, Defer, ReportProgress, ReportSuccess, ReportRefused, Admissible,
         Importing, Reporting
<1>2. worker' = [worker EXCEPT ![w] = Idle]
  BY DEF FailRevoked, Retry, Defer, ReportProgress, ReportSuccess, ReportRefused,
         CompleteInPlace, Complete
<1> QED BY <1>1, <1>2, EndedFlags

LEMMA TurnsFlagNothing ==
  ASSUME SyncInv, NEW w \in Workers,
         LoadPage(w) \/ RecordRemoval(w) \/ PassItem(w) \/ AdmitFile(w)
  PROVE  /\ Flaggers' = Flaggers /\ \A v \in Workers : v # w => worker'[v] = worker[v]
         /\ worker'[w] # Idle /\ worker'[w].job = worker[w].job
<1>1. /\ worker[w] # Idle /\ worker[w] \in Turn /\ worker[w].phase # "flagging"
      /\ worker \in [Workers -> {Idle} \union Turn]
  BY Awake, Rows DEF LoadPage, RecordRemoval, PassItem, AdmitFile, Admissible, Importing, SyncInv,
                     TypeOK
<1>2. PICK d, i : d = worker[w].done + 1 /\ i = worker[w].imported + 1
  OBVIOUS
<1>3. \/ worker' = [worker EXCEPT ![w] = [worker[w] EXCEPT !.phase = "working"]]
      \/ worker' = worker
      \/ worker' = [worker EXCEPT ![w] = [worker[w] EXCEPT !.done = d]]
      \/ worker' = [worker EXCEPT ![w] = [worker[w] EXCEPT !.done = d, !.imported = i]]
  <2>1. CASE LoadPage(w)
    BY <1>1, <2>1 DEF LoadPage
  <2>2. CASE RecordRemoval(w)
    BY <2>2 DEF RecordRemoval
  <2>3. CASE PassItem(w)
    BY <1>1, <1>2, <2>3 DEF PassItem
  <2>4. CASE AdmitFile(w)
    <3>1. worker' = [worker EXCEPT ![w].done = d, ![w].imported = i]
      BY <1>2, <2>4 DEF AdmitFile
    <3> QED BY <1>1, <3>1
  <2> QED BY <2>1, <2>2, <2>3, <2>4
<1>4. /\ \A v \in Workers : v # w => worker'[v] = worker[v]
      /\ \/ worker'[w] = [worker[w] EXCEPT !.phase = "working"]
         \/ worker'[w] = worker[w]
         \/ worker'[w] = [worker[w] EXCEPT !.done = d]
         \/ worker'[w] = [worker[w] EXCEPT !.done = d, !.imported = i]
  BY <1>1, <1>3
<1>5. worker'[w].job = worker[w].job /\ worker'[w].phase \in {"claimed", "working"}
  BY <1>1, <1>4 DEF Turn
<1>6. worker'[w] # Idle
  BY <1>5 DEF Idle
<1>7. ~Flagging(w) /\ ~Flagging(w)'
  BY <1>1, <1>5 DEF Flagging
<1> QED BY <1>4, <1>5, <1>6, <1>7, SameFlaggers

LEMMA ExpiryIsNearer ==
  ASSUME SyncInv, SyncInv', NEW j \in Jobs, LeaseExpires(j), Live(j), Live(j)'
  PROVE  Nearer(j)
<1>1. jobs[j].state = "leased" /\ jobs[j].unexpired /\ faults \in Nat /\ jobs[j] \in Job
  BY RowsCount, Rows DEF LeaseExpires, SyncInv
<1>2. CASE Attended(j)
  <2>1. \E w \in Workers : Running(w, j) /\ jobs[j].holder = w
    BY <1>2 DEF Attended
  <2>2. faults' = faults - 1
    BY <2>1 DEF LeaseExpires
  <2> QED BY <1>1, <2>2 DEF Nearer
<1>3. CASE ~Attended(j)
  <2>1. ~\E w \in Workers : Running(w, j) /\ jobs[j].holder = w
    BY <1>1, <1>3 DEF Attended
  <2>2. SameOutside
    BY <2>1 DEF LeaseExpires, SameOutside, Flaggers, Flagging, Revoked
  <2>3. jobs'[j] = [jobs[j] EXCEPT !.unexpired = FALSE]
    BY DEF LeaseExpires, SyncInv, TypeOK
  <2>4. /\ jobs'[j].at = jobs[j].at /\ jobs'[j].offset = jobs[j].offset
        /\ jobs'[j].attempt = jobs[j].attempt /\ jobs'[j].state = "leased" /\ ~jobs'[j].unexpired
    BY <1>1, <2>3 DEF Job
  <2>5. AttemptLeft(j) = 2
    BY <1>1, <1>3, AttemptIs DEF AttemptCases, SyncInv
  <2>6. AttemptLeft(j)' = 1
    BY <2>4, AttemptStillIs DEF AttemptCases, SyncInv
  <2>7. AttemptLeft(j)' < AttemptLeft(j)
    BY <2>5, <2>6
  <2> QED BY <2>2, <2>4, <2>7 DEF Nearer, SameAttempt, SameCursor
<1> QED BY <1>2, <1>3

LEMMA ClaimIsNearer ==
  ASSUME SyncInv, NEW w \in Workers, NEW j \in Jobs, Claim(w, j)
  PROVE  Nearer(j)
<1>1. Live(j) /\ jobs[j] \in Job /\ jobs \in [Jobs -> {Absent} \union Job]
  BY Rows DEF Claim, Claimable, Live, SyncInv, TypeOK
<1>2. PICK n \in Nat : n = jobs[j].attempt
  BY <1>1 DEF Job
<1>3. jobs' = [jobs EXCEPT ![j].state = "leased", ![j].holder = w,
                          ![j].unexpired = TRUE, ![j].attempt = n + 1]
  BY <1>2 DEF Claim
<1>4. jobs'[j] = [jobs[j] EXCEPT !.state = "leased", !.holder = w, !.unexpired = TRUE,
                                 !.attempt = n + 1]
  BY <1>1, <1>3
<1>5. /\ jobs'[j].at = jobs[j].at /\ jobs'[j].offset = jobs[j].offset
      /\ jobs'[j].attempt = n + 1
  BY <1>1, <1>4 DEF Job
<1>6. jobs'[j].attempt > jobs[j].attempt
  BY <1>2, <1>5
<1>7. Flaggers' = Flaggers
  <2>1. worker[w] = Idle /\ worker \in [Workers -> {Idle} \union Turn]
    BY DEF Claim, SyncInv, TypeOK
  <2>2. worker'[w] = [phase |-> "claimed", job |-> j, at |-> jobs[j].at, done |-> jobs[j].offset,
                      from |-> jobs[j].offset, imported |-> 0]
        /\ \A v \in Workers : v # w => worker'[v] = worker[v]
    BY <2>1 DEF Claim
  <2>3. ~Flagging(w) /\ ~Flagging(w)'
    BY <2>1, <2>2 DEF Flagging
  <2> QED BY <2>2, <2>3, SameFlaggers
<1>8. SameCursor(j)
  BY <1>5, <1>7 DEF SameCursor, SameOutside, Revoked, Claim
<1> QED BY <1>6, <1>8 DEF Nearer

(* Who hands a live job back to the queue is its attending holder.           *)
LEMMA HandsBack ==
  ASSUME SyncInv, NEW w \in Workers, worker[w] # Idle, NEW state, NEW attempt, NEW at, NEW offset,
         HandBack(w, state, attempt, at, offset), state \in {"queued", "succeeded", "failed", "dead"},
         NEW j \in Jobs, Live(j), Live(j)'
  PROVE  /\ InHand(w, j) /\ worker[w].job = j /\ state = "queued"
         /\ jobs'[j].state = "queued" /\ jobs'[j].attempt = attempt
         /\ jobs'[j].at = at /\ jobs'[j].offset = offset
         /\ jobs[j].at = worker[w].at /\ jobs[j].offset = worker[w].from
<1>1. PICK k \in Jobs : k = worker[w].job
  BY TurnFacts DEF SyncInv
<1>2. /\ Live(k) /\ k = j
      /\ jobs[k].at = worker[w].at /\ jobs[k].offset = worker[w].from
  BY <1>1, HandedRow DEF SyncInv, OneLiveJob
<1>3. jobs'[j] = [state |-> state, attempt |-> attempt, at |-> at, offset |-> offset,
                  holder |-> NoWorker, unexpired |-> FALSE]
  BY <1>1, <1>2 DEF HandBack, SyncInv, TypeOK
<1>4. state = "queued"
  BY <1>3 DEF Live
<1>5. HoldsLive(w)
  BY <1>4 DEF HandBack
<1>6. InHand(w, j)
  BY <1>1, <1>2, <1>5 DEF InHand, Attended, HoldsLive, Holds, Running
<1> QED BY <1>1, <1>2, <1>3, <1>4, <1>6

(* Back in the queue where it stood, and with the attempts it had.           *)
LEMMA HandedBackInPlace ==
  ASSUME SyncInv, SyncInv', NEW w \in Workers, worker[w] # Idle, NEW j \in Jobs, Live(j), Live(j)',
         InHand(w, j), SameOutside, jobs'[j].state = "queued",
         jobs'[j].at = jobs[j].at, jobs'[j].offset = jobs[j].offset,
         jobs'[j].attempt = jobs[j].attempt
  PROVE  Nearer(j)
<1>1. AttemptLeft(j) = TurnLeft(w) /\ TurnLeft(w) \in 3 .. 2 * MaxFeed + 4
  BY AttemptIs, TurnsEnd DEF AttemptCases, TurnsHaveEnds, SyncInv, InHand
<1>2. AttemptLeft(j)' = 0
  BY AttemptStillIs DEF AttemptCases, SyncInv
<1>3. AttemptLeft(j)' < AttemptLeft(j)
  BY <1>1, <1>2, BoundsAssumption
<1> QED BY <1>3 DEF Nearer, SameAttempt, SameCursor

LEMMA OutcomesAreNearer ==
  ASSUME SyncInv, SyncInv', NEW w \in Workers, NEW j \in Jobs, Live(j), Live(j)',
         FailRevoked(w) \/ FailRefresh(w) \/ Retry(w) \/ Defer(w)
  PROVE  Nearer(j)
<1>1. worker[w] # Idle
  BY Awake DEF FailRevoked, FailRefresh, Retry, Defer, Admissible, Importing
<1>2. PICK k \in Jobs : k = worker[w].job
  BY <1>1, TurnFacts DEF SyncInv
<1>3. AfterRetry(k) \in {"queued", "dead"} /\ faults \in Nat
  BY RowsCount DEF AfterRetry, SyncInv
<1>4. ASSUME NEW state \in {"queued", "succeeded", "failed", "dead"},
             HandBack(w, state, jobs[k].attempt, jobs[k].at, jobs[k].offset),
             state = "queued" => SameOutside
      PROVE  Nearer(j)
  <2>1. /\ InHand(w, j) /\ worker[w].job = j /\ state = "queued"
        /\ jobs'[j].state = "queued" /\ jobs'[j].attempt = jobs[k].attempt
        /\ jobs'[j].at = jobs[k].at /\ jobs'[j].offset = jobs[k].offset
    BY <1>1, <1>4, HandsBack
  <2> QED BY <1>1, <1>2, <1>4, <2>1, HandedBackInPlace
<1>5. CASE FailRevoked(w)
  BY <1>2, <1>4, <1>5 DEF FailRevoked, CompleteInPlace, Complete
<1>6. CASE FailRefresh(w)
  <2>1. CASE HandBack(w, "dead", jobs[k].attempt, jobs[k].at, jobs[k].offset)
    BY <1>4, <2>1
  <2>2. CASE CompleteInPlace(w, "queued", jobs[k].attempt)
    <3>1. /\ HandBack(w, "queued", jobs[k].attempt, jobs[k].at, jobs[k].offset)
          /\ worker' = [worker EXCEPT ![w] = Idle] /\ worker[w].phase # "flagging"
      BY <1>2, <1>6, <2>2 DEF CompleteInPlace, Complete, FailRefresh
    <3>2. SameOutside
      BY <1>6, <3>1, EndedFlags DEF FailRefresh, SameOutside, Revoked
    <3> QED BY <1>4, <3>1, <3>2
  <2> QED BY <1>2, <1>6, <2>1, <2>2 DEF FailRefresh
<1>7. CASE Retry(w)
  <2>1. SameOutside
    BY <1>7, ReportsFlagNothing DEF Retry, SameOutside, Revoked
  <2>2. HandBack(w, AfterRetry(k), jobs[k].attempt, jobs[k].at, jobs[k].offset)
    BY <1>2, <1>7 DEF Retry, CompleteInPlace, Complete
  <2> QED BY <1>3, <1>4, <2>1, <2>2
<1>8. CASE Defer(w)
  <2>1. faults' = faults - 1
    BY <1>8 DEF Defer
  <2> QED BY <1>3, <2>1 DEF Nearer
<1> QED BY <1>5, <1>6, <1>7, <1>8

LEMMA ReportIsNearer ==
  ASSUME SyncInv, RetryInv, NEW w \in Workers, NEW j \in Jobs, Live(j), Live(j)',
         ReportProgress(w) \/ ReportSuccess(w)
  PROVE  Nearer(j)
<1>1. worker[w] # Idle /\ Covers(TurnPage(w), worker[w].at) /\ TurnPage(w) \in Page
  BY ReportFacts DEF ReportProgress, ReportSuccess
<1>2. PICK a \in Nat, f \in Nat, d \in Nat, c \in Nat, i \in Nat :
        /\ a = worker[w].at /\ f = worker[w].from /\ d = worker[w].done
        /\ c = TurnPage(w).cursor /\ i = worker[w].imported
  <2>1. /\ worker[w].at \in Cursors /\ worker[w].done \in 0 .. MaxFeed
        /\ worker[w].from \in 0 .. MaxFeed /\ worker[w].imported \in 0 .. ImportLimit
    BY <1>1, TurnFacts DEF SyncInv
  <2>2. Cursors \subseteq Nat /\ TurnPage(w).cursor \in Cursors
    BY <1>1, Rows DEF SyncInv, Page
  <2>3. worker[w].at \in Nat /\ TurnPage(w).cursor \in Nat
    BY <2>1, <2>2
  <2>4. worker[w].done \in Nat /\ worker[w].from \in Nat /\ worker[w].imported \in Nat
    BY <2>1
  <2> QED BY <2>3, <2>4
<1>3. SameOutside
  BY ReportsFlagNothing DEF ReportProgress, ReportSuccess, SameOutside, Revoked
<1>4. CASE ReportProgress(w) /\ WholePage(w)
  <2>1. Complete(w, "queued", 0, c, 0) /\ ~TurnPage(w).complete
    BY <1>2, <1>4 DEF ReportProgress, FeedComplete
  <2>2. a < c
    BY <1>1, <1>2, <2>1 DEF Covers
  <2>3. jobs'[j].at = c /\ jobs[j].at = a
    BY <1>1, <1>2, <2>1, HandsBack DEF Complete
  <2> QED BY <1>3, <2>2, <2>3 DEF Nearer
<1>5. CASE ReportProgress(w) /\ ~WholePage(w)
  <2>1. Complete(w, "queued", 0, a, d)
    BY <1>2, <1>5 DEF ReportProgress
  <2>2. i = ImportLimit
    BY <1>2, <1>5 DEF ReportProgress, Reporting, BatchDone, WholePage
  <2>3. f + i <= d
    BY <1>1, <1>2 DEF RetryInv, TurnCounts
  <2>4. f < d
    BY <2>2, <2>3, BoundsAssumption
  <2>5. jobs'[j].at = a /\ jobs[j].at = a /\ jobs'[j].offset = d /\ jobs[j].offset = f
    BY <1>1, <1>2, <2>1, HandsBack DEF Complete
  <2> QED BY <1>3, <2>4, <2>5 DEF Nearer
<1>6. CASE ReportSuccess(w)
  <2>1. \E attempt, at, offset : Complete(w, "succeeded", attempt, at, offset)
    BY <1>6 DEF ReportSuccess
  <2> QED BY <1>1, <2>1, HandsBack DEF Complete
<1> QED BY <1>4, <1>5, <1>6

(* Whoever works on, what is left of an attempt does not grow.               *)
LEMMA OthersLeaveIt ==
  ASSUME SyncInv, SyncInv', NEW j \in Jobs, Live(j), jobs'[j] = jobs[j], SameOutside,
         UNCHANGED pages, settled \subseteq settled',
         Attended(j) => worker'[jobs[j].holder] = worker[jobs[j].holder],
         Attended(j)' => Attended(j)
  PROVE  NoFarther(j)
<1>1. Live(j)' /\ SameAttempt(j) /\ AttemptCases /\ AttemptCases'
  BY AttemptIs, AttemptStillIs DEF Live, SameAttempt, SameCursor, SyncInv
<1>2. CASE ~Attended(j)
  <2>1. AttemptLeft(j)' = AttemptLeft(j)
    BY <1>1, <1>2 DEF AttemptCases, Live
  <2> QED BY <1>1, <2>1 DEF NoFarther
<1>3. CASE Attended(j)
  <2>1. PICK w \in Workers : w = jobs[j].holder
    BY <1>3 DEF Attended
  <2>2. Attended(j)' /\ worker'[w] = worker[w] /\ worker[w] # Idle
    BY <1>3, <2>1 DEF Attended, Running
  <2>3. /\ AttemptLeft(j) = TurnLeft(w) /\ AttemptLeft(j)' = TurnLeft(w)'
    BY <1>1, <1>3, <2>1, <2>2 DEF AttemptCases
  <2>4. TurnPage(w)' = TurnPage(w) /\ PendingRemovals(w)' \subseteq PendingRemovals(w)
    BY <2>2 DEF PendingRemovals, TurnPage
  <2>5. /\ IsFiniteSet(PendingRemovals(w)) /\ Cardinality(PendingRemovals(w)) \in Nat
        /\ Size(TurnPage(w)) \in Nat /\ worker[w].done \in Nat
    BY <2>2, TurnsEnd DEF TurnsHaveEnds
  <2>6. IsFiniteSet(PendingRemovals(w)') /\ Cardinality(PendingRemovals(w)') \in Nat
    BY <2>2, TurnsStillEnd DEF TurnsHaveEnds
  <2>7. Cardinality(PendingRemovals(w)') <= Cardinality(PendingRemovals(w))
    BY <2>4, <2>5, FS_Subset
  <2>8. CASE worker[w].phase = "claimed"
    <3>1. TurnLeft(w)' = TurnLeft(w)
      BY <2>2, <2>8 DEF TurnLeft
    <3> QED BY <1>1, <2>3, <3>1 DEF NoFarther
  <2>9. CASE worker[w].phase # "claimed"
    <3>1. PICK c \in Nat, e \in Nat, s \in Nat, d \in Nat :
            /\ c = Cardinality(PendingRemovals(w)) /\ e = Cardinality(PendingRemovals(w)')
            /\ s = Size(TurnPage(w)) /\ d = worker[w].done
      BY <2>5, <2>6
    <3>2. TurnLeft(w) = 3 + c + (s - d) /\ TurnLeft(w)' = 3 + e + (s - d) /\ e <= c
      BY <2>2, <2>4, <2>7, <2>9, <3>1 DEF TurnLeft, Size
    <3>3. TurnLeft(w)' < TurnLeft(w) \/ TurnLeft(w)' = TurnLeft(w)
      BY <3>2
    <3>4. AttemptLeft(j)' < AttemptLeft(j) \/ AttemptLeft(j)' = AttemptLeft(j)
      BY <2>3, <3>3
    <3> QED BY <1>1, <3>4 DEF NoFarther, Nearer
  <2> QED BY <2>8, <2>9
<1> QED BY <1>2, <1>3

(* A step of the holder's turn.                                              *)
LEMMA TurnIsNearer ==
  ASSUME SyncInv, SyncInv', NEW w \in Workers, NEW j \in Jobs, Live(j), InHand(w, j),
         UNCHANGED <<jobs, connection, faults>>, worker'[w] # Idle, Flaggers' = Flaggers,
         worker'[w].job = worker[w].job,
         TurnLeft(w)' < TurnLeft(w)
  PROVE  Nearer(j)
<1>1. Live(j)' /\ AttemptCases /\ AttemptCases'
  BY AttemptIs, AttemptStillIs DEF Live, SyncInv
<1>2. Attended(j) /\ jobs[j].holder = w /\ Attended(j)' /\ jobs'[j].holder = w
  BY DEF InHand, Attended, Running
<1>3. AttemptLeft(j) = TurnLeft(w) /\ AttemptLeft(j)' = TurnLeft(w)'
  BY <1>1, <1>2 DEF AttemptCases
<1> QED BY <1>3 DEF Nearer, SameAttempt, SameCursor, SameOutside, Revoked

LEMMA LoadIsNearer ==
  ASSUME SyncInv, SyncInv', NEW w \in Workers, NEW j \in Jobs, Live(j), InHand(w, j), LoadPage(w)
  PROVE  Nearer(j)
<1>1. /\ worker[w] # Idle /\ worker[w] \in Turn /\ worker[w].phase = "claimed"
      /\ worker' = [worker EXCEPT ![w].phase = "working"]
      /\ worker \in [Workers -> {Idle} \union Turn] /\ UNCHANGED <<jobs, connection, faults>>
  BY Awake, Rows DEF LoadPage, SyncInv, TypeOK
<1>2. worker'[w] = [worker[w] EXCEPT !.phase = "working"]
  BY <1>1
<1>3. worker'[w].phase = "working" /\ worker'[w].job = worker[w].job /\ worker'[w] # Idle
  BY <1>1, <1>2 DEF Turn, Idle
<1>4. TurnLeft(w)' < 2 * MaxFeed + 4 /\ TurnLeft(w) = 2 * MaxFeed + 4
  BY <1>1, <1>3, TurnsStillEnd DEF TurnsHaveEnds, TurnLeft
<1> QED BY <1>1, <1>3, <1>4, TurnsFlagNothing, TurnIsNearer

LEMMA RecordIsNearer ==
  ASSUME SyncInv, SyncInv', NEW w \in Workers, NEW j \in Jobs, Live(j), InHand(w, j), RecordRemoval(w)
  PROVE  Nearer(j)
<1>1. worker[w] # Idle /\ worker[w].phase = "working" /\ UNCHANGED <<jobs, connection, faults, worker, pages>>
  BY Awake DEF RecordRemoval
<1>2. PICK i \in PendingRemovals(w) : settled' = settled \union {i}
  BY DEF RecordRemoval
<1>3. TurnPage(w)' = TurnPage(w)
  BY <1>1 DEF TurnPage
<1>4. PendingRemovals(w)' = PendingRemovals(w) \ {i}
  BY <1>1, <1>2, <1>3 DEF PendingRemovals
<1>5. /\ IsFiniteSet(PendingRemovals(w)) /\ Cardinality(PendingRemovals(w)) \in Nat
      /\ Size(TurnPage(w)) \in Nat /\ worker[w].done \in Nat
  BY <1>1, TurnsEnd DEF TurnsHaveEnds
<1>6. Cardinality(PendingRemovals(w)') = Cardinality(PendingRemovals(w)) - 1
  BY <1>2, <1>4, <1>5, FS_RemoveElement
<1>7. PICK c \in Nat, s \in Nat, d \in Nat :
        c = Cardinality(PendingRemovals(w)) /\ s = Size(TurnPage(w)) /\ d = worker[w].done
  BY <1>5
<1>8. TurnLeft(w) = 3 + c + (s - d) /\ TurnLeft(w)' = 3 + (c - 1) + (s - d)
  BY <1>1, <1>3, <1>6, <1>7 DEF TurnLeft, Size
<1>9. TurnLeft(w)' < TurnLeft(w)
  BY <1>8
<1> QED BY <1>1, <1>9, TurnsFlagNothing, TurnIsNearer

LEMMA ItemIsNearer ==
  ASSUME SyncInv, SyncInv', NEW w \in Workers, NEW j \in Jobs, Live(j), InHand(w, j),
         PassItem(w) \/ AdmitFile(w)
  PROVE  Nearer(j)
<1>1. /\ worker[w] # Idle /\ worker[w] \in Turn /\ worker[w].phase = "working"
      /\ PendingRemovals(w) = {} /\ settled \subseteq settled'
      /\ worker \in [Workers -> {Idle} \union Turn]
      /\ UNCHANGED <<jobs, connection, faults, pages>>
  BY Awake, Rows DEF PassItem, AdmitFile, Admissible, Importing, SyncInv, TypeOK
<1>2. PICK d \in Nat, i \in Nat, s \in Nat :
        d = worker[w].done /\ i = worker[w].imported /\ s = Size(TurnPage(w))
  <2>1. worker[w].imported \in Nat
    BY <1>1, BoundsAssumption DEF Turn
  <2> QED BY <1>1, <2>1, TurnsEnd DEF TurnsHaveEnds
<1>3. /\ worker'[w].phase = "working" /\ worker'[w].job = worker[w].job
      /\ worker'[w].done = d + 1 /\ worker'[w].at = worker[w].at /\ worker'[w].from = worker[w].from
  <2>1. CASE PassItem(w)
    <3>1. worker'[w] = [worker[w] EXCEPT !.done = d + 1]
      BY <1>1, <1>2, <2>1 DEF PassItem
    <3> QED BY <1>1, <3>1 DEF Turn
  <2>2. CASE AdmitFile(w)
    <3>1. worker' = [worker EXCEPT ![w].done = d + 1, ![w].imported = i + 1]
      BY <1>2, <2>2 DEF AdmitFile
    <3>2. worker'[w] = [worker[w] EXCEPT !.done = d + 1, !.imported = i + 1]
      BY <1>1, <3>1
    <3> QED BY <1>1, <3>2 DEF Turn
  <2> QED BY <2>1, <2>2
<1>4. TurnPage(w)' = TurnPage(w) /\ worker'[w] # Idle
  BY <1>1, <1>3 DEF TurnPage, Idle
<1>5. PendingRemovals(w)' = PendingRemovals(w)
  BY <1>1, <1>3, <1>4 DEF PendingRemovals
<1>6. PICK c \in Nat : c = Cardinality(PendingRemovals(w))
  BY <1>1, TurnsEnd DEF TurnsHaveEnds
<1>7. TurnLeft(w) = 3 + c + (s - d) /\ TurnLeft(w)' = 3 + c + (s - (d + 1))
  BY <1>1, <1>2, <1>3, <1>4, <1>5, <1>6 DEF TurnLeft, Size
<1>8. TurnLeft(w)' < TurnLeft(w)
  BY <1>7
<1> QED BY <1>1, <1>3, <1>4, <1>8, TurnsFlagNothing, TurnIsNearer

(* A turn of the holder that ends without a report: a fault, or a success    *)
(* refused because the connection went away, which leaves the lease to run   *)
(* out.                                                                      *)
LEMMA EndIsNearer ==
  ASSUME SyncInv, SyncInv', NEW w \in Workers, NEW j \in Jobs, Live(j), InHand(w, j),
         ReportRefused(w) \/ Crash(w)
  PROVE  Nearer(j)
<1>1. CASE Crash(w)
  <2>1. faults' = faults - 1 /\ faults \in Nat
    BY <1>1, RowsCount DEF Crash, SyncInv
  <2> QED BY <2>1 DEF Nearer
<1>2. CASE ReportRefused(w)
  <2>1. SameAttempt(j) /\ jobs' = jobs
    BY <1>2, ReportsFlagNothing DEF ReportRefused, SameAttempt, SameCursor, SameOutside, Revoked
  <2>2. worker'[w] = Idle
    BY <1>2 DEF ReportRefused, SyncInv, TypeOK
  <2>3. ~Attended(j)' /\ Live(j)'
    BY <2>1, <2>2 DEF InHand, Attended, Running, Live
  <2>4. jobs[j].state = "leased" /\ jobs[j].unexpired
    BY DEF InHand, Attended
  <2>5. AttemptLeft(j)' = 2
    BY <2>1, <2>3, <2>4, AttemptStillIs DEF AttemptCases, SyncInv
  <2>6. AttemptLeft(j) = TurnLeft(w) /\ TurnLeft(w) \in 3 .. 2 * MaxFeed + 4
    BY AttemptIs, TurnsEnd DEF AttemptCases, TurnsHaveEnds, SyncInv, InHand, Attended, Running
  <2>7. AttemptLeft(j)' < AttemptLeft(j)
    BY <2>5, <2>6, BoundsAssumption
  <2> QED BY <2>1, <2>7 DEF Nearer
<1> QED BY <1>1, <1>2

(* A flag raised is one flag less to come.                                   *)
LEMMA FlagIsNearer ==
  ASSUME SyncInv, NEW w \in Workers, NEW j \in Jobs, Flag(w)
  PROVE  Nearer(j)
<1>1. worker[w] # Idle /\ worker[w].phase = "flagging" /\ faults' = faults
  BY Awake DEF Flag
<1>2. worker'[w] = Idle /\ \A v \in Workers : v # w => worker'[v] = worker[v]
  BY DEF Flag, SyncInv, TypeOK
<1>3. Flaggers' \subseteq Flaggers /\ w \in Flaggers /\ w \notin Flaggers'
  BY <1>1, <1>2 DEF Flaggers, Flagging
<1> QED BY <1>1, <1>3 DEF Nearer

(* A step on a live job brings it nearer to its end.                         *)
LEMMA ActsAreNearer ==
  ASSUME SyncInv, RetryInv, SyncInv', NEW j \in Jobs, Live(j), Live(j)', Acts(j)
  PROVE  Nearer(j)
<1>1. CASE LeaseExpires(j)
  BY <1>1, ExpiryIsNearer
<1>2. ASSUME NEW w \in Workers, Claim(w, j) PROVE Nearer(j)
  BY <1>2, ClaimIsNearer
<1>3. ASSUME NEW w \in Workers, InHand(w, j), TurnStep(w) \/ Crash(w) PROVE Nearer(j)
  BY <1>3, OutcomesAreNearer, ReportIsNearer, LoadIsNearer, RecordIsNearer, ItemIsNearer,
     EndIsNearer, FlagIsNearer DEF TurnStep
<1> QED BY <1>1, <1>2, <1>3 DEF Acts

(* A step of a turn that does not hold the job leaves it where it is.        *)
LEMMA StaleTurnsLeaveIt ==
  ASSUME SyncInv, SyncInv', NEW w \in Workers, NEW j \in Jobs, Live(j), ~InHand(w, j),
         \/ RecordRemoval(w) \/ PassItem(w) \/ AdmitFile(w) \/ ReportRefused(w)
  PROVE  NoFarther(j)
<1>1. /\ jobs'[j] = jobs[j] /\ UNCHANGED <<jobs, pages>> /\ settled \subseteq settled'
      /\ worker \in [Workers -> {Idle} \union Turn] /\ worker[w] # Idle
  BY Awake DEF RecordRemoval, PassItem, AdmitFile, ReportRefused, Admissible, Importing,
               SyncInv, TypeOK
<1>2. SameOutside
  BY ReportsFlagNothing, TurnsFlagNothing
     DEF RecordRemoval, PassItem, AdmitFile, ReportRefused, SameOutside, Revoked
<1>3. \A v \in Workers : v # w => worker'[v] = worker[v]
  BY <1>1 DEF RecordRemoval, PassItem, AdmitFile, ReportRefused
<1>4. Attended(j) => worker'[jobs[j].holder] = worker[jobs[j].holder]
  BY <1>3 DEF InHand, Attended
<1>5. worker'[w] = Idle \/ worker'[w].job = worker[w].job
  <2>1. CASE ReportRefused(w)
    BY <1>1, <2>1 DEF ReportRefused
  <2> QED BY <2>1, TurnsFlagNothing
<1>6. Attended(j)' => Attended(j)
  <2> SUFFICES ASSUME Attended(j)' PROVE Attended(j)
    OBVIOUS
  <2>1. PICK h \in Workers : h = jobs[j].holder /\ worker'[h] # Idle /\ worker'[h].job = j
    BY <1>1 DEF Attended, Running
  <2>2. worker[h] # Idle /\ worker[h].job = j
    BY <1>1, <1>3, <1>5, <2>1
  <2> QED BY <1>1, <2>1, <2>2 DEF Attended, Running
<1> QED BY <1>1, <1>2, <1>4, <1>6, OthersLeaveIt

LEMMA StepsComeNearer ==
  ASSUME SyncInv, RetryInv, [Next]_vars, NEW j \in Jobs, Live(j), Live(j)'
  PROVE  NoFarther(j) /\ (Acts(j) => Nearer(j))
<1>1. SyncInv'
  BY NextKeeps
<1>2. Acts(j) => Nearer(j)
  BY <1>1, ActsAreNearer
<1>3. Acts(j) => NoFarther(j)
  BY <1>2 DEF NoFarther
<1>4. ASSUME NEW k \in Jobs, LeaseExpires(k) PROVE Acts(j)
  <2>1. k = j
    BY <1>4 DEF LeaseExpires, Live, SyncInv, OneLiveJob
  <2> QED BY <1>4, <2>1 DEF Acts
<1>5. ASSUME NEW w \in Workers, NEW k \in Jobs, Claim(w, k) PROVE Acts(j)
  <2>1. k = j
    BY <1>5 DEF Claim, Claimable, Live, SyncInv, OneLiveJob
  <2> QED BY <1>5, <2>1 DEF Acts
<1>6. ASSUME NEW k \in Jobs, Enqueue(k) PROVE FALSE
  BY <1>6 DEF Enqueue
<1>7. ASSUME NEW w \in Workers, TurnStep(w) \/ Crash(w) PROVE NoFarther(j)
  <2>1. CASE InHand(w, j)
    BY <1>3, <1>7, <2>1 DEF Acts
  <2>2. CASE ~InHand(w, j) /\ (RecordRemoval(w) \/ PassItem(w) \/ AdmitFile(w) \/ ReportRefused(w))
    BY <1>1, <2>2, StaleTurnsLeaveIt
  <2>3. CASE FailRevoked(w) \/ FailRefresh(w) \/ Retry(w) \/ Defer(w)
    BY <1>1, <2>3, OutcomesAreNearer DEF NoFarther
  <2>4. CASE ReportProgress(w) \/ ReportSuccess(w)
    BY <1>1, <2>4, ReportIsNearer DEF NoFarther
  <2>5. CASE Crash(w)
    <3>1. faults' = faults - 1 /\ faults \in Nat
      BY <2>5, RowsCount DEF Crash, SyncInv
    <3> QED BY <3>1 DEF NoFarther, Nearer
  <2>6. CASE LoadPage(w)
    <3>1. worker[w] # Idle /\ HoldsLive(w) /\ worker[w].job \in Jobs
      BY <2>6, Awake, TurnFacts DEF LoadPage, SyncInv
    <3>2. worker[w].job = j
      BY <3>1 DEF HoldsLive, Holds, Live, SyncInv, OneLiveJob
    <3>3. InHand(w, j)
      BY <3>1, <3>2 DEF InHand, Attended, HoldsLive, Holds, Running
    <3> QED BY <2>1, <3>3
  <2>7. CASE Flag(w)
    BY <2>7, FlagIsNearer DEF NoFarther
  <2> QED BY <1>7, <2>1, <2>2, <2>3, <2>4, <2>5, <2>6, <2>7 DEF TurnStep
<1>8. ASSUME Publish \/ ChangeConnection \/ UNCHANGED vars PROVE NoFarther(j)
  <2>1. /\ jobs'[j] = jobs[j] /\ UNCHANGED <<pages, worker, jobs, faults, settled>>
        /\ Flaggers' = Flaggers /\ (Revoked => Revoked')
    BY <1>8 DEF Publish, ChangeConnection, vars, Flaggers, Flagging, Revoked
  <2>2. CASE Revoked' = Revoked
    <3>1. SameOutside /\ (Attended(j)' => Attended(j))
      BY <2>1, <2>2 DEF SameOutside, Attended, Running
    <3> QED BY <1>1, <2>1, <3>1, OthersLeaveIt
  <2>3. CASE ~Revoked /\ Revoked'
    BY <2>1, <2>3 DEF NoFarther, Nearer
  <2> QED BY <2>1, <2>2, <2>3 DEF Revoked
<1> QED BY <1>2, <1>3, <1>4, <1>5, <1>6, <1>7, <1>8 DEF Next, ClaimStep

(* As long as a job is live nothing takes it farther from its end, and every *)
(* step on it - a claim, a lease that runs out, a step of the turn that      *)
(* holds it - brings it nearer: by a fault spent, a late flag raised, the    *)
(* connection revoked, the cursor further, one of its attempts, or a step    *)
(* less of the attempt.                                                      *)
JobsApproachTheirEnd ==
  [][\A j \in Jobs : Live(j) /\ Live(j)' => NoFarther(j) /\ (Acts(j) => Nearer(j))]_vars

THEOREM JobsComeNearer == Spec => JobsApproachTheirEnd
<1>1. SyncInv /\ RetryInv /\ [Next]_vars =>
        [\A j \in Jobs : Live(j) /\ Live(j)' => NoFarther(j) /\ (Acts(j) => Nearer(j))]_vars
  BY StepsComeNearer
<1> QED BY <1>1, RetryInvariance, PTL DEF Spec, JobsApproachTheirEnd

(* There is only so much to take away: an attempt has at most two feeds and  *)
(* four steps left, and only so many attempts are paid for by the budget, by *)
(* the faults, by a revocation and by the syncs that died before.            *)
AttemptsHaveEnds ==
  \A j \in Jobs : Live(j) =>
    /\ AttemptLeft(j) \in 0 .. 2 * MaxFeed + 4
    /\ jobs[j].attempt \in 0 .. MaxAttempts + MaxFaults + Cardinality(Buried) + 1
    /\ jobs[j].at \in 0 .. MaxFeed /\ jobs[j].offset \in 0 .. MaxFeed

THEOREM AttemptsEnd == Spec => []AttemptsHaveEnds
<1>1. ASSUME SyncInv, RetryInv, NEW j \in Jobs, Live(j)
      PROVE  /\ AttemptLeft(j) \in 0 .. 2 * MaxFeed + 4
             /\ jobs[j].attempt \in 0 .. MaxAttempts + MaxFaults + Cardinality(Buried) + 1
             /\ jobs[j].at \in 0 .. MaxFeed /\ jobs[j].offset \in 0 .. MaxFeed
  <2>1. /\ AttemptCases /\ TurnsHaveEnds /\ MaxFeed \in Nat /\ MaxAttempts \in Nat
        /\ MaxFaults \in Nat /\ faults \in Nat /\ jobs[j] \in Job
    BY <1>1, AttemptIs, TurnsEnd, Rows, RowsCount, BoundsAssumption DEF SyncInv
  <2>2. AttemptLeft(j) \in 0 .. 2 * MaxFeed + 4
    <3>1. CASE Attended(j)
      <4>1. PICK w \in Workers : w = jobs[j].holder /\ worker[w] # Idle
        BY <3>1 DEF Attended, Running
      <4>2. AttemptLeft(j) = TurnLeft(w) /\ TurnLeft(w) \in 3 .. 2 * MaxFeed + 4
        BY <1>1, <2>1, <3>1, <4>1 DEF AttemptCases, TurnsHaveEnds
      <4> QED BY <2>1, <4>2
    <3>2. CASE ~Attended(j)
      <4>1. AttemptLeft(j) \in {0, 1, 2}
        BY <1>1, <2>1, <3>2 DEF AttemptCases, Live
      <4> QED BY <2>1, <4>1
    <3> QED BY <3>1, <3>2
  <2>3. jobs[j].attempt \in 0 .. MaxAttempts + MaxFaults + Cardinality(Buried) + 1
    <3>1. jobs[j] # Absent /\ Pays(j)
      BY <1>1 DEF Live, Absent, RetryInv
    <3>2. PICK r \in 0 .. 1 : r = IF connection = "revoked" THEN 1 ELSE 0
      OBVIOUS
    <3>3. Cardinality(Buried) \in Nat
      BY <1>1, FS_CardinalityType DEF RetryInv
    <3>4. PICK n \in Nat, f \in Nat, b \in Nat :
            n = jobs[j].attempt /\ f = faults /\ b = Cardinality(Buried)
      BY <2>1, <3>3 DEF Job
    <3>5. n <= MaxAttempts + ((MaxFaults - f) + b + r)
      BY <3>1, <3>2, <3>4 DEF Pays, Spent
    <3>6. n \in 0 .. MaxAttempts + MaxFaults + b + 1
      BY <2>1, <3>2, <3>4, <3>5
    <3> QED BY <3>4, <3>6
  <2> QED BY <2>1, <2>2, <2>3 DEF Job, Cursors
<1>2. SyncInv /\ RetryInv => AttemptsHaveEnds
  BY <1>1 DEF AttemptsHaveEnds
<1> QED BY <1>2, RetryInvariance, PTL

=============================================================================
