--------------------------- MODULE CatalogueProofs ---------------------------
(***************************************************************************)
(* Theorems about the catalogue's page: about MarketCatalogue, for any     *)
(* venue and any queries, and about SavedViews, for any requests and any   *)
(* number of operators.  The pages are cut from one listing for as long as *)
(* the venue stands still; and what a filter becomes on its way through    *)
(* texts, typed values and texts again is the filter, but for the losses   *)
(* that are named.                                                         *)
(***************************************************************************)
EXTENDS MarketCatalogue, SavedViews, FiniteSetTheorems, SequenceTheorems, TLAPS

(***************************************************************************)
(* The order of the listing.  An item's place is one more than the number  *)
(* of those ahead of it, so that every finite listing can be sorted.       *)
(***************************************************************************)
LEMMA AheadIsStrict ==
  ASSUME NEW items, DOMAIN items \subseteq Int,
         \A i \in DOMAIN items : items[i].liquidity \in Int
  PROVE  /\ \A i \in DOMAIN items : ~Ahead(items, i, i)
         /\ \A i, j \in DOMAIN items : i # j => Ahead(items, i, j) \/ Ahead(items, j, i)
         /\ \A i, j, k \in DOMAIN items :
              Ahead(items, i, j) /\ Ahead(items, j, k) => Ahead(items, i, k)
<1> USE DEF Ahead
<1>1. \A i \in DOMAIN items : ~Ahead(items, i, i)
  OBVIOUS
<1>2. \A i, j \in DOMAIN items : i # j => Ahead(items, i, j) \/ Ahead(items, j, i)
  OBVIOUS
<1>3. \A i, j, k \in DOMAIN items :
         Ahead(items, i, j) /\ Ahead(items, j, k) => Ahead(items, i, k)
  OBVIOUS
<1> QED
  BY <1>1, <1>2, <1>3

\* A part of a finite set that lacks one of its elements is smaller.
LEMMA StrictPartIsSmaller ==
  ASSUME NEW S, IsFiniteSet(S), NEW T \in SUBSET S, NEW x \in S, x \notin T
  PROVE  Cardinality(T) \in Nat /\ Cardinality(S) \in Nat /\ Cardinality(T) < Cardinality(S)
<1>1. /\ IsFiniteSet(T) /\ Cardinality(T) <= Cardinality(S)
      /\ Cardinality(S) = Cardinality(T) => S = T
  BY FS_Subset
<1>2. Cardinality(T) \in Nat /\ Cardinality(S) \in Nat
  BY <1>1, FS_CardinalityType
<1> QED
  BY <1>1, <1>2

LEMMA SortedExists ==
  ASSUME NEW items, IsFiniteSet(DOMAIN items), DOMAIN items \subseteq Int,
         \A i \in DOMAIN items : items[i].liquidity \in Int
  PROVE  \E s \in SetToSeqs(DOMAIN items) :
           \A n, m \in DOMAIN s : n < m => Ahead(items, s[n], s[m])
<1> DEFINE S == DOMAIN items
           N == Cardinality(S)
           before(i) == {j \in S : Ahead(items, j, i)}
           rank == [i \in S |-> Cardinality(before(i)) + 1]
           s == [n \in 1..N |-> CHOOSE i \in S : rank[i] = n]
<1>1. N \in Nat
  BY FS_CardinalityType
<1>2. ASSUME NEW i \in S
      PROVE  rank[i] \in 1..N
  <2>1. before(i) \in SUBSET S /\ i \notin before(i)
    BY AheadIsStrict
  <2>2. Cardinality(before(i)) \in Nat /\ Cardinality(before(i)) < N
    BY <2>1, StrictPartIsSmaller
  <2> QED
    BY <1>1, <2>2
<1>3. ASSUME NEW i \in S, NEW j \in S, Ahead(items, i, j)
      PROVE  rank[i] < rank[j]
  <2>1. before(i) \in SUBSET before(j)
    BY <1>3, AheadIsStrict
  <2>2. i \in before(j) /\ i \notin before(i)
    BY <1>3, AheadIsStrict
  <2>3. IsFiniteSet(before(j))
    BY FS_Subset
  <2>4. /\ Cardinality(before(i)) \in Nat /\ Cardinality(before(j)) \in Nat
        /\ Cardinality(before(i)) < Cardinality(before(j))
    BY <2>1, <2>2, <2>3, StrictPartIsSmaller
  <2> QED
    BY <2>4
<1>4. rank \in [S -> 1..N]
  BY <1>2
<1> HIDE DEF rank
<1>5. \A i, j \in S : rank[i] = rank[j] => i = j
  <2> SUFFICES ASSUME NEW i \in S, NEW j \in S, i # j
               PROVE  rank[i] # rank[j]
    OBVIOUS
  <2>1. Ahead(items, i, j) \/ Ahead(items, j, i)
    BY AheadIsStrict
  <2> QED
    BY <1>3, <1>4, <2>1
<1>6. \A n \in 1..N : \E i \in S : rank[i] = n
  <2>1. rank \in Injection(S, 1..N)
    BY <1>4, <1>5 DEF Injection, IsInjective
  <2>2. IsFiniteSet(1..N) /\ Cardinality(1..N) = N
    BY <1>1, FS_Interval
  <2>3. rank \in Surjection(S, 1..N)
    BY <2>1, <2>2, FS_Injection
  <2> QED
    BY <2>3 DEF Surjection
<1>7. \A n \in 1..N : s[n] \in S /\ rank[s[n]] = n
  BY <1>6
<1>8. s \in [1..N -> S] /\ DOMAIN s = 1..N
  BY <1>7
<1> HIDE DEF s, N
<1>9. \A n, m \in 1..N : n # m => s[n] # s[m]
  BY <1>7
<1>10. s \in SetToSeqs(S)
  BY <1>8, <1>9 DEF SetToSeqs, N
<1>11. ASSUME NEW n \in 1..N, NEW m \in 1..N, n < m
       PROVE  Ahead(items, s[n], s[m])
  <2>1. s[n] \in S /\ s[m] \in S /\ s[n] # s[m]
    BY <1>7, <1>9, <1>11
  <2>2. Ahead(items, s[n], s[m]) \/ Ahead(items, s[m], s[n])
    BY <2>1, AheadIsStrict
  <2>3. Ahead(items, s[m], s[n]) => m < n
    BY <1>3, <1>7, <2>1
  <2> QED
    BY <1>11, <2>2, <2>3
<1> QED
  BY <1>8, <1>10, <1>11

\* The sorted listing is a sequence that holds every item once.
LEMMA SortedIsAListing ==
  ASSUME NEW items, IsFiniteSet(DOMAIN items), DOMAIN items \subseteq Int,
         \A i \in DOMAIN items : items[i].liquidity \in Int
  PROVE  /\ Sorted(items) \in Seq(DOMAIN items)
         /\ Len(Sorted(items)) = Cardinality(DOMAIN items)
         /\ ToSet(Sorted(items)) = DOMAIN items
<1> DEFINE S == DOMAIN items
           N == Cardinality(S)
           s == Sorted(items)
<1>1. N \in Nat
  BY FS_CardinalityType
<1>2. s \in SetToSeqs(S)
  BY SortedExists DEF Sorted
<1>3. s \in [1..N -> S] /\ \A n, m \in 1..N : n # m => s[n] # s[m]
  BY <1>2 DEF SetToSeqs
<1> HIDE DEF s
<1>4. s \in Seq(S) /\ Len(s) = N
  BY <1>1, <1>3
<1>5. s \in Surjection(1..N, S)
  <2>1. s \in Injection(1..N, S)
    BY <1>3 DEF Injection, IsInjective
  <2>2. IsFiniteSet(1..N) /\ Cardinality(1..N) = N
    BY <1>1, FS_Interval
  <2> QED
    BY <2>1, <2>2, FS_Injection
<1>6. ToSet(s) = S
  <2>1. DOMAIN s = 1..N /\ \A n \in 1..N : s[n] \in S
    BY <1>3
  <2>2. \A i \in S : \E n \in 1..N : s[n] = i
    BY <1>5 DEF Surjection
  <2> QED
    BY <2>1, <2>2 DEF ToSet
<1> QED
  BY <1>4, <1>6 DEF s

(***************************************************************************)
(* The pages.  Consecutive pages put together are a prefix of the listing, *)
(* and there is a next page exactly while the prefix is not all of it.     *)
(***************************************************************************)
LEMMA ProductsGrow ==
  ASSUME NEW a \in Int, NEW b \in Int, NEW size \in Nat, a <= b
  PROVE  a * size \in Int /\ b * size \in Int /\ a * size <= b * size
<1>1. b - a \in Nat /\ (b - a) * size \in Nat
  OBVIOUS
<1>2. b * size = a * size + (b - a) * size
  OBVIOUS
<1> QED
  BY <1>1, <1>2

LEMMA NextPage ==
  ASSUME NEW page \in Nat \ {0}, NEW size \in Nat \ {0}, NEW total \in Nat
  PROVE  /\ page < total_pages(total, size) <=> page * size < total
         /\ page * size = (page - 1) * size + size
         /\ (page - 1) * size \in Nat /\ page * size \in Nat
<1> DEFINE q == (total + size - 1) \div size
<1>1. /\ page * size = (page - 1) * size + size
      /\ (page - 1) * size \in Nat /\ page * size \in Nat
  OBVIOUS
<1>2. q \in Int /\ q * size <= total + size - 1 /\ total + size - 1 < q * size + size
  OBVIOUS
<1> HIDE DEF q
<1>3. ASSUME page < q
      PROVE  page * size < total
  <2>1. (page + 1) * size <= q * size
    BY <1>2, <1>3, ProductsGrow
  <2>2. (page + 1) * size = page * size + size
    OBVIOUS
  <2> QED
    BY <1>1, <1>2, <2>1, <2>2
<1>4. ASSUME page * size < total
      PROVE  page < q
  <2>1. q <= page => q * size <= page * size
    BY <1>2, ProductsGrow
  <2> QED
    BY <1>1, <1>2, <1>4, <2>1
<1>5. CASE total = 0
  BY <1>1, <1>5 DEF total_pages
<1>6. CASE total # 0
  BY <1>1, <1>3, <1>4, <1>6 DEF total_pages, q
<1> QED
  BY <1>5, <1>6

LEMMA PageIsASequence ==
  ASSUME NEW S, NEW items \in Seq(S), NEW page \in Nat \ {0}, NEW size \in Nat \ {0}
  PROVE  PageOf(items, page, size) \in Seq(S)
<1> DEFINE k == (page - 1) * size
           e == IF page * size < Len(items) THEN page * size ELSE Len(items)
<1>1. k \in Nat /\ page * size \in Nat /\ Len(items) \in Nat
  BY NextPage
<1>2. e \in Nat /\ e <= Len(items)
  BY <1>1
<1> HIDE DEF k, e
<1>3. SubSeq(items, k + 1, e) \in Seq(S)
  BY <1>1, <1>2
<1> QED
  BY <1>3 DEF PageOf, k, e

\* A prefix and the part that follows it are a longer prefix.
LEMMA PrefixGrows ==
  ASSUME NEW S, NEW items \in Seq(S), NEW k \in Nat, NEW e \in Nat,
         k <= e, e <= Len(items)
  PROVE  SubSeq(items, 1, k) \o SubSeq(items, k + 1, e) = SubSeq(items, 1, e)
<1> DEFINE a == SubSeq(items, 1, k)
           b == SubSeq(items, k + 1, e)
           c == SubSeq(items, 1, e)
<1>1. /\ a \in Seq(S) /\ Len(a) = k
      /\ \A i \in 1..k : a[i] = items[i]
  OBVIOUS
<1>2. /\ b \in Seq(S) /\ Len(b) = e - k
      /\ \A i \in 1..(e - k) : b[i] = items[i + k]
  OBVIOUS
<1>3. /\ c \in Seq(S) /\ Len(c) = e
      /\ \A i \in 1..e : c[i] = items[i]
  OBVIOUS
<1> HIDE DEF a, b, c
<1>4. a \in Seq(S) /\ b \in Seq(S) /\ Len(a) \in Nat /\ Len(b) \in Nat /\ Len(a) + Len(b) = e
  BY <1>1, <1>2
<1>5. /\ a \o b \in Seq(S) /\ Len(a \o b) = Len(a) + Len(b)
      /\ \A i \in 1..(Len(a) + Len(b)) :
           (a \o b)[i] = IF i <= Len(a) THEN a[i] ELSE b[i - Len(a)]
  BY <1>4, ConcatProperties, Zenon
<1>6. ASSUME NEW i \in 1..e
      PROVE  (a \o b)[i] = c[i]
  <2>1. (a \o b)[i] = IF i <= k THEN a[i] ELSE b[i - k]
    BY <1>1, <1>4, <1>5
  <2>2. CASE i <= k
    <3>1. i \in 1..k
      BY <2>2
    <3> QED
      BY <1>1, <1>3, <2>1, <3>1
  <2>3. CASE i > k
    <3>1. i - k \in 1..(e - k) /\ i - k + k = i
      BY <2>3
    <3>2. (a \o b)[i] = items[i]
      BY <1>2, <2>1, <2>3, <3>1
    <3> QED
      BY <1>3, <3>2
  <2>4. i <= k \/ i > k
    OBVIOUS
  <2> QED
    BY <2>2, <2>3, <2>4, Zenon
<1>7. a \o b = c
  BY <1>3, <1>4, <1>5, <1>6, SeqEqual
<1> QED
  BY <1>7 DEF a, b, c

LEMMA PagesAddUp ==
  ASSUME NEW S, NEW items \in Seq(S), NEW page \in Nat \ {0}, NEW size \in Nat \ {0},
         (page - 1) * size <= Len(items)
  PROVE  LET e == IF page * size < Len(items) THEN page * size ELSE Len(items)
         IN  SubSeq(items, 1, (page - 1) * size) \o PageOf(items, page, size)
               = SubSeq(items, 1, e)
<1> DEFINE k == (page - 1) * size
           e == IF page * size < Len(items) THEN page * size ELSE Len(items)
<1>1. k \in Nat /\ page * size \in Nat /\ Len(items) \in Nat /\ page * size = k + size
  BY NextPage
<1>2. e \in Nat /\ e <= Len(items) /\ k <= e
  BY <1>1
<1>3. PageOf(items, page, size) = SubSeq(items, k + 1, e)
  BY DEF PageOf
<1> HIDE DEF k, e
<1>4. SubSeq(items, 1, k) \o SubSeq(items, k + 1, e) = SubSeq(items, 1, e)
  BY <1>1, <1>2, PrefixGrows
<1> QED
  BY <1>3, <1>4 DEF k, e

\* The pages up to the last are the whole listing.
LEMMA AllOfASequence ==
  ASSUME NEW S, NEW items \in Seq(S)
  PROVE  SubSeq(items, 1, Len(items)) = items /\ SubSeq(items, 1, 0) = <<>>
OBVIOUS

-------------------------------------------------------------------------------
(***************************************************************************)
(* What the catalogue's state holds.                                       *)
(***************************************************************************)
Markets == UNION ToSet(Venue)
Payloads == UNION {[S -> Markets] : S \in SUBSET DOMAIN Venue}
Browses ==
  [at : {"first_call", "second_call", "show", "done"}, query : Queries, page : Nat \ {0},
   payload : Payloads, shown : Seq(DOMAIN Venue), began : Nat, listed : SUBSET DOMAIN Venue]

CatalogueTypeOK ==
  /\ moves \in Nat
  /\ venue \in [DOMAIN Venue -> Markets]
  /\ \A i \in DOMAIN Venue : venue[i] \in Venue[i]
  /\ browsing \in [Readers -> {NoBrowse} \cup Browses]

LEMMA MarketsAreSized ==
  /\ \A i \in DOMAIN Venue : Venue[i] \subseteq Markets
  /\ \A market \in Markets : market.liquidity \in Int
BY CatalogueAssumption DEF Markets, ToSet

LEMMA EmptyPayload ==
  <<>> \in Payloads
<1>1. <<>> \in [{} -> Markets]
  OBVIOUS
<1> QED
  BY <1>1 DEF Payloads

LEMMA PayloadOfTheVenue ==
  ASSUME CatalogueTypeOK, NEW closed
  PROVE  Payload(closed) \in Payloads
<1>1. Batch(closed) \subseteq DOMAIN Venue
  BY DEF Batch, CatalogueTypeOK
<1>2. Payload(closed) \in [Batch(closed) -> Markets]
  BY <1>1 DEF Payload, CatalogueTypeOK
<1> QED
  BY <1>1, <1>2 DEF Payloads

LEMMA MergedPayload ==
  ASSUME NEW f \in Payloads, NEW g \in Payloads
  PROVE  Merged(f, g) \in Payloads
<1>1. PICK S \in SUBSET DOMAIN Venue : f \in [S -> Markets]
  BY DEF Payloads
<1>2. PICK T \in SUBSET DOMAIN Venue : g \in [T -> Markets]
  BY DEF Payloads
<1>3. Merged(f, g) \in [S \cup T -> Markets]
  BY <1>1, <1>2 DEF Merged
<1> QED
  BY <1>3 DEF Payloads

LEMMA MatchingPayload ==
  ASSUME NEW f \in Payloads, NEW query
  PROVE  /\ Matching(query, f) \in Payloads
         /\ DOMAIN Matching(query, f) \subseteq DOMAIN Venue
<1>1. PICK S \in SUBSET DOMAIN Venue : f \in [S -> Markets]
  BY DEF Payloads
<1> DEFINE T == {i \in S : Matches(query, f[i])}
<1>2. Matching(query, f) \in [T -> Markets] /\ T \subseteq DOMAIN Venue
  BY <1>1 DEF Matching
<1> QED
  BY <1>2 DEF Payloads

LEMMA SortedPayload ==
  ASSUME NEW f \in Payloads
  PROVE  /\ Sorted(f) \in Seq(DOMAIN Venue)
         /\ Len(Sorted(f)) = Cardinality(DOMAIN f)
         /\ ToSet(Sorted(f)) = DOMAIN f
<1>1. PICK S \in SUBSET DOMAIN Venue : f \in [S -> Markets]
  BY DEF Payloads
<1>2. DOMAIN f = S /\ S \subseteq Int
  BY <1>1, CatalogueAssumption
<1>3. IsFiniteSet(DOMAIN Venue)
  <2>1. 1 \in Int /\ Len(Venue) \in Int /\ DOMAIN Venue = 1..Len(Venue)
    BY CatalogueAssumption
  <2>2. IsFiniteSet(1..Len(Venue))
    BY <2>1, FS_Interval
  <2> QED
    BY <2>1, <2>2
<1>4. IsFiniteSet(DOMAIN f)
  BY <1>2, <1>3, FS_Subset
<1>5. \A i \in DOMAIN f : f[i].liquidity \in Int
  BY <1>1, MarketsAreSized
<1>6. /\ Sorted(f) \in Seq(DOMAIN f)
      /\ Len(Sorted(f)) = Cardinality(DOMAIN f)
      /\ ToSet(Sorted(f)) = DOMAIN f
  BY <1>2, <1>4, <1>5, SortedIsAListing
<1>7. Sorted(f) \in Seq(DOMAIN Venue)
  BY <1>1, <1>2, <1>6, SeqMonotonic
<1> QED
  BY <1>6, <1>7

LEMMA CatalogueInitTyped == CatalogueInit => CatalogueTypeOK
BY DEF CatalogueInit, CatalogueTypeOK, Markets

\* A step of one reader keeps the types when what it leaves of the reader is typed.
LEMMA BrowsingTyped ==
  ASSUME CatalogueTypeOK, NEW r \in Readers, NEW b \in {NoBrowse} \cup Browses,
         UNCHANGED <<venue, moves>>, browsing' = [browsing EXCEPT ![r] = b]
  PROVE  CatalogueTypeOK'
BY DEF CatalogueTypeOK

LEMMA VenueChangesTyped ==
  ASSUME CatalogueTypeOK, NEW i \in DOMAIN venue, VenueChanges(i)
  PROVE  CatalogueTypeOK'
BY MarketsAreSized DEF CatalogueTypeOK, VenueChanges

LEMMA StartBrowseTyped ==
  ASSUME CatalogueTypeOK, NEW r \in Readers, StartBrowse(r)
  PROVE  CatalogueTypeOK'
<1>1. PICK query \in Queries :
        browsing' = [browsing EXCEPT ![r] =
          [at |-> "first_call", query |-> query, page |-> 1, payload |-> <<>>, shown |-> <<>>,
           began |-> moves, listed |-> {}]]
  BY DEF StartBrowse
<1> DEFINE b == [at |-> "first_call", query |-> query, page |-> 1, payload |-> <<>>,
                 shown |-> <<>>, began |-> moves, listed |-> {}]
<1>2. b \in Browses
  BY EmptyPayload DEF Browses, CatalogueTypeOK
<1>3. UNCHANGED <<venue, moves>>
  BY DEF StartBrowse
<1> QED
  BY <1>1, <1>2, <1>3 DEF CatalogueTypeOK

\* A reader who is at something has the fields of a browse.
LEMMA ReaderIsBrowsing ==
  ASSUME CatalogueTypeOK, NEW r \in Readers, browsing[r].at # "idle"
  PROVE  browsing[r] \in Browses
BY DEF CatalogueTypeOK, NoBrowse

LEMMA FirstCallTyped ==
  ASSUME CatalogueTypeOK, NEW r \in Readers, FirstCall(r)
  PROVE  CatalogueTypeOK'
<1>1. browsing[r] \in Browses
  BY ReaderIsBrowsing DEF FirstCall
<1>2. Payload(browsing[r].query.scope = "closed") \in Payloads
  BY PayloadOfTheVenue
<1> QED
  BY <1>1, <1>2 DEF FirstCall, CatalogueTypeOK, Browses

LEMMA SecondCallTyped ==
  ASSUME CatalogueTypeOK, NEW r \in Readers, SecondCall(r)
  PROVE  CatalogueTypeOK'
<1>1. browsing[r] \in Browses
  BY ReaderIsBrowsing DEF SecondCall
<1>2. Merged(browsing[r].payload, Payload(TRUE)) \in Payloads
  BY <1>1, PayloadOfTheVenue, MergedPayload DEF Browses
<1> QED
  BY <1>1, <1>2 DEF SecondCall, CatalogueTypeOK, Browses

\* The reader after a page is shown.
Shown(b) ==
  LET matching == Matching(b.query, b.payload)
      more == b.page < total_pages(Cardinality(DOMAIN matching), b.query.page_size)
  IN  [b EXCEPT !.at = IF more THEN "first_call" ELSE "done",
                !.page = IF more THEN @ + 1 ELSE @,
                !.payload = <<>>,
                !.shown = @ \o PageOf(Sorted(matching), b.page, b.query.page_size),
                !.listed = IF b.page = 1 THEN DOMAIN matching ELSE @]

LEMMA ShownIsABrowse ==
  ASSUME NEW b \in Browses
  PROVE  Shown(b) \in Browses
<1> DEFINE matching == Matching(b.query, b.payload)
           more == b.page < total_pages(Cardinality(DOMAIN matching), b.query.page_size)
           part == PageOf(Sorted(matching), b.page, b.query.page_size)
<1>1. matching \in Payloads /\ DOMAIN matching \subseteq DOMAIN Venue
  BY MatchingPayload DEF Browses
<1>2. b.page \in Nat \ {0} /\ b.query.page_size \in Nat \ {0}
  BY CatalogueAssumption DEF Browses
<1>3. Sorted(matching) \in Seq(DOMAIN Venue)
  BY <1>1, SortedPayload
<1>4. part \in Seq(DOMAIN Venue)
  BY <1>2, <1>3, PageIsASequence
<1>5. b.shown \o part \in Seq(DOMAIN Venue)
  BY <1>4, ConcatProperties DEF Browses
<1> DEFINE at == IF more THEN "first_call" ELSE "done"
           page == IF more THEN b.page + 1 ELSE b.page
           listed == IF b.page = 1 THEN DOMAIN matching ELSE b.listed
<1>6. Shown(b) = [b EXCEPT !.at = at, !.page = page, !.payload = <<>>,
                           !.shown = b.shown \o part, !.listed = listed]
  BY DEF Shown
<1>7. at \in {"first_call", "second_call", "show", "done"} /\ page \in Nat \ {0}
  BY <1>2
<1>8. listed \in SUBSET DOMAIN Venue
  BY <1>1 DEF Browses
<1> HIDE DEF matching, more, part, at, page, listed
<1> QED
  BY <1>5, <1>6, <1>7, <1>8, EmptyPayload DEF Browses

LEMMA ShowPageTyped ==
  ASSUME CatalogueTypeOK, NEW r \in Readers, ShowPage(r)
  PROVE  CatalogueTypeOK'
<1>1. browsing[r] \in Browses
  BY ReaderIsBrowsing DEF ShowPage
<1>2. browsing' = [browsing EXCEPT ![r] = Shown(browsing[r])] /\ UNCHANGED <<venue, moves>>
  BY DEF ShowPage, Shown
<1> QED
  BY <1>1, <1>2, ShownIsABrowse DEF CatalogueTypeOK

LEMMA CatalogueNextTyped ==
  ASSUME CatalogueTypeOK, [CatalogueNext]_catalogueVars
  PROVE  CatalogueTypeOK'
<1>1. CASE UNCHANGED catalogueVars
  BY <1>1 DEF catalogueVars, CatalogueTypeOK
<1>2. ASSUME NEW i \in DOMAIN venue, VenueChanges(i)
      PROVE  CatalogueTypeOK'
  BY <1>2, VenueChangesTyped
<1>3. ASSUME NEW r \in Readers, StartBrowse(r) \/ FirstCall(r) \/ SecondCall(r) \/ ShowPage(r)
      PROVE  CatalogueTypeOK'
  BY <1>3, StartBrowseTyped, FirstCallTyped, SecondCallTyped, ShowPageTyped
<1> QED
  BY <1>1, <1>2, <1>3 DEF CatalogueNext

(***************************************************************************)
(* What the catalogue's readers hold is typed, with a page that exists.    *)
(***************************************************************************)
THEOREM CatalogueTyped == CatalogueSpec => []CatalogueTypeOK
<1>1. CatalogueTypeOK /\ [CatalogueNext]_catalogueVars => CatalogueTypeOK'
  BY CatalogueNextTyped
<1> QED
  BY CatalogueInitTyped, <1>1, PTL DEF CatalogueSpec

-------------------------------------------------------------------------------
(***************************************************************************)
(* PagesPartition.  While the venue stands still every page is cut from    *)
(* the same listing: what a reader was shown is the part of it before the  *)
(* current page, and all of it at the end.                                 *)
(***************************************************************************)

\* What the calls for one page bring together.
Answered(query) ==
  LET first == Payload(query.scope = "closed")
  IN  IF query.scope = "all" THEN Merged(first, Payload(TRUE)) ELSE first

PagesAgree(b, first, answer) ==
  LET matching == Matching(b.query, answer)
      listing == Sorted(matching)
      before == (b.page - 1) * b.query.page_size
  IN  /\ b.at = "second_call" => b.query.scope = "all" /\ b.payload = first
      /\ b.at = "show" => b.payload = answer
      /\ b.at # "done" => before <= Len(listing) /\ b.shown = SubSeq(listing, 1, before)
      /\ b.at = "done" => b.shown = listing
      /\ b.page > 1 \/ b.at = "done" => b.listed = DOMAIN matching

PagesInv ==
  \A r \in Readers :
    LET b == browsing[r]
    IN  b.at # "idle" =>
          /\ b.began <= moves
          /\ b.began = moves =>
               PagesAgree(b, Payload(b.query.scope = "closed"), Answered(b.query))

LEMMA AnsweredPayload ==
  ASSUME CatalogueTypeOK, NEW query
  PROVE  Answered(query) \in Payloads
BY PayloadOfTheVenue, MergedPayload DEF Answered

\* The invariant looks at the venue and the count of its changes, and reader by reader.
LEMMA ReaderStepPages ==
  ASSUME CatalogueTypeOK, PagesInv, NEW r \in Readers, NEW b \in Browses,
         UNCHANGED <<venue, moves>>, browsing' = [browsing EXCEPT ![r] = b],
         b.began <= moves,
         b.began = moves =>
           PagesAgree(b, Payload(b.query.scope = "closed"), Answered(b.query))
  PROVE  PagesInv'
<1>1. \A closed : Payload(closed)' = Payload(closed)
  BY DEF Payload, Batch
<1>2. \A query : Answered(query)' = Answered(query)
  BY DEF Answered, Payload, Batch
<1>3. ASSUME NEW q \in Readers, browsing'[q].at # "idle"
      PROVE  LET c == browsing'[q]
             IN  /\ c.began <= moves
                 /\ c.began = moves =>
                      PagesAgree(c, Payload(c.query.scope = "closed"), Answered(c.query))
  <2>1. CASE q = r
    <3>1. browsing'[q] = b
      BY <2>1 DEF CatalogueTypeOK
    <3> QED
      BY <3>1
  <2>2. CASE q # r
    <3>1. browsing'[q] = browsing[q]
      BY <2>2 DEF CatalogueTypeOK
    <3> QED
      BY <1>3, <3>1 DEF PagesInv
  <2> QED
    BY <2>1, <2>2
<1> QED
  BY <1>1, <1>2, <1>3 DEF PagesInv

LEMMA VenueChangesPages ==
  ASSUME CatalogueTypeOK, PagesInv, NEW i \in DOMAIN venue, VenueChanges(i)
  PROVE  PagesInv'
<1>1. moves' = moves + 1 /\ browsing' = browsing /\ moves \in Nat
  BY DEF VenueChanges, CatalogueTypeOK
<1>2. ASSUME NEW r \in Readers, browsing[r].at # "idle"
      PROVE  browsing[r].began <= moves + 1 /\ browsing[r].began # moves + 1
  <2>1. browsing[r].began \in Nat /\ browsing[r].began <= moves
    BY <1>2, ReaderIsBrowsing DEF PagesInv, Browses
  <2> QED
    BY <1>1, <2>1
<1> QED
  BY <1>1, <1>2 DEF PagesInv

LEMMA StartBrowsePages ==
  ASSUME CatalogueTypeOK, PagesInv, NEW r \in Readers, StartBrowse(r)
  PROVE  PagesInv'
<1>1. PICK query \in Queries :
        browsing' = [browsing EXCEPT ![r] =
          [at |-> "first_call", query |-> query, page |-> 1, payload |-> <<>>, shown |-> <<>>,
           began |-> moves, listed |-> {}]]
  BY DEF StartBrowse
<1> DEFINE b == [at |-> "first_call", query |-> query, page |-> 1, payload |-> <<>>,
                 shown |-> <<>>, began |-> moves, listed |-> {}]
           listing == Sorted(Matching(query, Answered(query)))
<1>2. b \in Browses /\ b.began <= moves
  BY EmptyPayload DEF Browses, CatalogueTypeOK
<1>3. UNCHANGED <<venue, moves>>
  BY DEF StartBrowse
<1>4. listing \in Seq(DOMAIN Venue)
  BY AnsweredPayload, MatchingPayload, SortedPayload
<1> HIDE DEF listing
<1>5. SubSeq(listing, 1, 0) = <<>> /\ 0 <= Len(listing)
  BY <1>4, AllOfASequence
<1>6. query.page_size \in Nat /\ (1 - 1) * query.page_size = 0
  BY CatalogueAssumption
<1>7. PagesAgree(b, Payload(query.scope = "closed"), Answered(query))
  BY <1>5, <1>6 DEF PagesAgree, listing
<1> QED
  BY <1>1, <1>2, <1>3, <1>7, ReaderStepPages

LEMMA FirstCallPages ==
  ASSUME CatalogueTypeOK, PagesInv, NEW r \in Readers, FirstCall(r)
  PROVE  PagesInv'
<1>1. PICK b \in Browses : b = browsing[r] /\ b.at = "first_call"
  BY ReaderIsBrowsing DEF FirstCall
<1> DEFINE first == Payload(b.query.scope = "closed")
           at == IF b.query.scope = "all" THEN "second_call" ELSE "show"
           c == [b EXCEPT !.at = at, !.payload = first]
<1>2. browsing' = [browsing EXCEPT ![r] = c] /\ UNCHANGED <<venue, moves>>
  BY <1>1 DEF FirstCall, CatalogueTypeOK
<1>3. first \in Payloads /\ at \in {"second_call", "show"}
  BY PayloadOfTheVenue
<1>4. Answered(b.query) = IF b.query.scope = "all" THEN Merged(first, Payload(TRUE)) ELSE first
  BY DEF Answered
<1>5. b.began <= moves
      /\ (b.began = moves => PagesAgree(b, first, Answered(b.query)))
  BY <1>1 DEF PagesInv
<1>6. /\ at = "second_call" => b.query.scope = "all"
      /\ at = "show" => first = Answered(b.query)
  BY <1>4
<1> HIDE DEF first, at
<1>7. /\ c \in Browses /\ c.query = b.query /\ c.began = b.began /\ c.at = at
      /\ c.payload = first /\ c.page = b.page /\ c.shown = b.shown /\ c.listed = b.listed
  BY <1>3 DEF Browses
<1> HIDE DEF c
<1>8. b.began = moves => PagesAgree(c, first, Answered(b.query))
  BY <1>1, <1>3, <1>5, <1>6, <1>7 DEF PagesAgree
<1> QED
  BY <1>2, <1>5, <1>7, <1>8, ReaderStepPages DEF first

LEMMA SecondCallPages ==
  ASSUME CatalogueTypeOK, PagesInv, NEW r \in Readers, SecondCall(r)
  PROVE  PagesInv'
<1>1. PICK b \in Browses : b = browsing[r] /\ b.at = "second_call"
  BY ReaderIsBrowsing DEF SecondCall
<1> DEFINE first == Payload(b.query.scope = "closed")
           both == Merged(b.payload, Payload(TRUE))
           c == [b EXCEPT !.at = "show", !.payload = both]
<1>2. browsing' = [browsing EXCEPT ![r] = c] /\ UNCHANGED <<venue, moves>>
  BY <1>1 DEF SecondCall, CatalogueTypeOK
<1>3. both \in Payloads
  BY PayloadOfTheVenue, MergedPayload DEF Browses
<1>4. b.began <= moves
      /\ (b.began = moves => PagesAgree(b, first, Answered(b.query)))
  BY <1>1 DEF PagesInv
<1>5. b.began = moves => both = Answered(b.query)
  BY <1>1, <1>4 DEF PagesAgree, Answered
<1> HIDE DEF first, both
<1>6. /\ c \in Browses /\ c.query = b.query /\ c.began = b.began /\ c.at = "show"
      /\ c.payload = both /\ c.page = b.page /\ c.shown = b.shown /\ c.listed = b.listed
  BY <1>3 DEF Browses
<1> HIDE DEF c
<1>7. b.began = moves => PagesAgree(c, first, Answered(b.query))
  BY <1>1, <1>4, <1>5, <1>6 DEF PagesAgree
<1> QED
  BY <1>2, <1>4, <1>6, <1>7, ReaderStepPages DEF first

\* A page that is shown is the next part of the listing, or its last.
LEMMA ShownAgrees ==
  ASSUME NEW b \in Browses, b.at = "show", b.payload \in Payloads, NEW first,
         PagesAgree(b, first, b.payload)
  PROVE  PagesAgree(Shown(b), first, b.payload)
<1> DEFINE matching == Matching(b.query, b.payload)
           listing == Sorted(matching)
           size == b.query.page_size
           more == b.page < total_pages(Cardinality(DOMAIN matching), size)
           before == (b.page - 1) * size
           c == Shown(b)
<1>1. b.page \in Nat \ {0} /\ size \in Nat \ {0}
  BY CatalogueAssumption DEF Browses
<1>2. /\ listing \in Seq(DOMAIN Venue)
      /\ Len(listing) = Cardinality(DOMAIN matching)
  BY MatchingPayload, SortedPayload
<1>3. before <= Len(listing) /\ b.shown = SubSeq(listing, 1, before)
  BY DEF PagesAgree
<1>4. b.page > 1 => b.listed = DOMAIN matching
  BY DEF PagesAgree
<1>5. /\ c.at = IF more THEN "first_call" ELSE "done"
      /\ c.query = b.query
      /\ c.page = IF more THEN b.page + 1 ELSE b.page
      /\ c.shown = b.shown \o PageOf(listing, b.page, size)
      /\ c.listed = IF b.page = 1 THEN DOMAIN matching ELSE b.listed
  BY DEF Shown, Browses
<1>6. c.listed = DOMAIN matching
  BY <1>1, <1>4, <1>5
<1>7. /\ Matching(c.query, b.payload) = matching /\ c.query.page_size = size
      /\ Sorted(Matching(c.query, b.payload)) = listing
  BY <1>5
<1> HIDE DEF listing, size, matching, c
<1>8. Len(listing) \in Nat
  BY <1>2
<1>9. more <=> b.page * size < Len(listing)
  BY <1>1, <1>2, <1>8, NextPage
<1>10. c.shown = SubSeq(listing, 1, IF b.page * size < Len(listing) THEN b.page * size
                                                                 ELSE Len(listing))
  BY <1>1, <1>2, <1>3, <1>5, PagesAddUp
<1>11. CASE more
  <2>1. c.at = "first_call" /\ c.page = b.page + 1 /\ (c.page - 1) * size = b.page * size
    BY <1>1, <1>5, <1>11
  <2>2. (c.page - 1) * size <= Len(listing) /\ c.shown = SubSeq(listing, 1, (c.page - 1) * size)
    BY <1>1, <1>8, <1>9, <1>10, <1>11, <2>1, NextPage
  <2> QED
    BY <1>6, <1>7, <2>1, <2>2 DEF PagesAgree, c
<1>12. CASE ~more
  <2>1. c.at = "done" /\ c.shown = SubSeq(listing, 1, Len(listing))
    BY <1>5, <1>9, <1>10, <1>12
  <2>2. c.shown = listing
    BY <1>2, <2>1, AllOfASequence
  <2> QED
    BY <1>6, <1>7, <2>1, <2>2 DEF PagesAgree, c
<1> QED
  BY <1>11, <1>12

LEMMA ShowPagePages ==
  ASSUME CatalogueTypeOK, PagesInv, NEW r \in Readers, ShowPage(r)
  PROVE  PagesInv'
<1>1. PICK b \in Browses : b = browsing[r] /\ b.at = "show"
  BY ReaderIsBrowsing DEF ShowPage
<1>2. browsing' = [browsing EXCEPT ![r] = Shown(b)] /\ UNCHANGED <<venue, moves>>
  BY <1>1 DEF ShowPage, Shown
<1> DEFINE first == Payload(b.query.scope = "closed")
<1>3. b.began <= moves
      /\ (b.began = moves => PagesAgree(b, first, Answered(b.query)))
  BY <1>1 DEF PagesInv
<1>4. b.began = moves => b.payload = Answered(b.query)
  BY <1>1, <1>3 DEF PagesAgree
<1>5. b.payload \in Payloads
  BY DEF Browses
<1>6. b.began = moves => PagesAgree(Shown(b), first, Answered(b.query))
  BY <1>1, <1>3, <1>4, <1>5, ShownAgrees
<1>7. Shown(b).query = b.query /\ Shown(b).began = b.began
  BY DEF Shown, Browses
<1>8. Shown(b) \in Browses
  BY ShownIsABrowse
<1> QED
  BY <1>2, <1>3, <1>6, <1>7, <1>8, ReaderStepPages

LEMMA CatalogueNextPages ==
  ASSUME CatalogueTypeOK, PagesInv, [CatalogueNext]_catalogueVars
  PROVE  PagesInv'
<1>1. CASE UNCHANGED catalogueVars
  <2>1. UNCHANGED <<venue, browsing, moves>>
    BY <1>1 DEF catalogueVars
  <2>2. \A closed : Payload(closed)' = Payload(closed)
    BY <2>1 DEF Payload, Batch
  <2>3. \A query : Answered(query)' = Answered(query)
    BY <2>1 DEF Answered, Payload, Batch
  <2> QED
    BY <2>1, <2>2, <2>3 DEF PagesInv
<1>2. ASSUME NEW i \in DOMAIN venue, VenueChanges(i)
      PROVE  PagesInv'
  BY <1>2, VenueChangesPages
<1>3. ASSUME NEW r \in Readers, StartBrowse(r) \/ FirstCall(r) \/ SecondCall(r) \/ ShowPage(r)
      PROVE  PagesInv'
  BY <1>3, StartBrowsePages, FirstCallPages, SecondCallPages, ShowPagePages
<1> QED
  BY <1>1, <1>2, <1>3 DEF CatalogueNext

LEMMA AllPagesPartition ==
  ASSUME CatalogueTypeOK, PagesInv
  PROVE  PagesPartition
<1> SUFFICES ASSUME NEW r \in Readers, browsing[r].at = "done", browsing[r].began = moves
             PROVE  /\ ToSet(browsing[r].shown) = browsing[r].listed
                    /\ Len(browsing[r].shown) = Cardinality(browsing[r].listed)
  BY DEF PagesPartition
<1> DEFINE b == browsing[r]
           matching == Matching(b.query, Answered(b.query))
<1>1. PagesAgree(b, Payload(b.query.scope = "closed"), Answered(b.query))
  BY DEF PagesInv
<1>2. b.shown = Sorted(matching) /\ b.listed = DOMAIN matching
  BY <1>1 DEF PagesAgree
<1>3. matching \in Payloads
  BY AnsweredPayload, MatchingPayload
<1> HIDE DEF matching
<1>4. ToSet(Sorted(matching)) = DOMAIN matching
      /\ Len(Sorted(matching)) = Cardinality(DOMAIN matching)
  BY <1>3, SortedPayload
<1> QED
  BY <1>2, <1>4

(***************************************************************************)
(* Whatever the venue lists, however it ranks and whatever is asked for,   *)
(* the pages a reader turns while the venue stands still are a partition   *)
(* of what the first one counted: nothing is shown twice, nothing is left. *)
(***************************************************************************)
THEOREM PagesPartitionHolds == CatalogueSpec => []PagesPartition
<1>1. CatalogueInit => PagesInv
  BY DEF CatalogueInit, PagesInv, NoBrowse
<1>2. CatalogueTypeOK /\ PagesInv /\ [CatalogueNext]_catalogueVars => PagesInv'
  BY CatalogueNextPages
<1>3. CatalogueTypeOK /\ PagesInv => PagesPartition
  BY AllPagesPartition
<1> QED
  BY CatalogueTyped, <1>1, <1>2, <1>3, PTL DEF CatalogueSpec

-------------------------------------------------------------------------------
(***************************************************************************)
(* The texts and values of a filter, one parameter at a time.              *)
(***************************************************************************)
Items == [type : {"bool", "int", "float", "str"}, text : STRING]
Scopes == {"active", "closed", "all"}
Sorts == {"liquidity_desc", "volume_desc", "ending_soon", "newest"}
CatalogueKeys ==
  {"scope", "categories", "search", "min_liquidity", "orderbook_only", "sort", "limit",
   "page", "page_size"}

LEMMA CatalogueSchema ==
  /\ SCHEMAS["markets_catalog"].required = {}
  /\ SCHEMAS["markets_catalog"].optional = CatalogueKeys
  /\ SCHEMAS["markets_catalog"].choices = [scope |-> Scopes, sort |-> Sorts]
  /\ SCHEMAS.markets_catalog.choices.scope = Scopes
  /\ SCHEMAS.markets_catalog.choices.sort = Sorts
BY DEF SCHEMAS, Schema, Scopes, Sorts, CatalogueKeys

LEMMA NumbersAreNoWords ==
  ASSUME NEW text \in Numbers
  PROVE  /\ text \in STRING
         /\ text \notin {"", "true", "True", "false", "False"} \cup Scopes \cup Sorts
         /\ text \notin DOMAIN SwitchTexts
<1>1. text \in STRING /\ text \notin DOMAIN SwitchTexts
  BY ViewsAssumption, ZenonT(60)
<1>2. text \notin {""} \cup UNION {SCHEMAS.markets_catalog.choices[key] : key \in {"scope", "sort"}}
  BY ViewsAssumption, ZenonT(60)
<1>3. SCHEMAS.markets_catalog.choices["scope"] = Scopes /\ SCHEMAS.markets_catalog.choices["sort"] = Sorts
  BY CatalogueSchema
<1>4. text \notin Scopes /\ text \notin Sorts
  BY <1>2, <1>3
<1>5. {"true", "True", "false", "False"} \subseteq DOMAIN SwitchTexts
  BY ViewsAssumption
<1> QED
  BY <1>1, <1>2, <1>4, <1>5

LEMMA SwitchesAreSwitches ==
  /\ \A text \in DOMAIN SwitchTexts :
       /\ text \notin Numbers /\ text \notin {""} \cup Scopes \cup Sorts
       /\ SwitchTexts[text] \in {"True", "False"}
  /\ {"true", "True", "false", "False"} \subseteq DOMAIN SwitchTexts
  /\ SwitchTexts["true"] = "True"
<1>1. ASSUME NEW text \in DOMAIN SwitchTexts
      PROVE  /\ text \notin Numbers /\ text \notin {""} \cup Scopes \cup Sorts
             /\ SwitchTexts[text] \in {"True", "False"}
  <2>1. text \notin Numbers /\ SwitchTexts[text] \in {"True", "False"}
    BY ViewsAssumption, ZenonT(60)
  <2>2. text \notin {""} \cup UNION {SCHEMAS.markets_catalog.choices[key] : key \in {"scope", "sort"}}
    BY ViewsAssumption, ZenonT(60)
  <2>3. SCHEMAS.markets_catalog.choices["scope"] = Scopes /\ SCHEMAS.markets_catalog.choices["sort"] = Sorts
    BY CatalogueSchema
  <2> QED
    BY <2>1, <2>2, <2>3
<1>2. {"true", "True", "false", "False"} \subseteq DOMAIN SwitchTexts /\ SwitchTexts["true"] = "True"
  BY ViewsAssumption
<1> QED
  BY <1>1, <1>2

\* Writing a number once more changes it no further.
LEMMA FloatsWritten ==
  ASSUME NEW text \in Numbers
  PROVE  /\ AsFloat(text) \in Numbers /\ AsFloat(AsFloat(text)) = AsFloat(text)
         /\ text \in BelowZero <=> AsFloat(text) \in BelowZero
         /\ text \in Whole => AsFloat(text) = text
<1>1. CASE text \in Whole
  BY <1>1 DEF AsFloat
<1>2. CASE text \notin Whole
  <2>1. text \in DOMAIN FloatTexts
    BY <1>2 DEF Numbers
  <2> QED
    BY <1>2, <2>1, ViewsAssumption
<1> QED
  BY <1>1, <1>2

LEMMA PointsAreNumbers ==
  /\ PointTexts \subseteq DOMAIN FloatTexts /\ PointTexts \subseteq Numbers
  /\ \A text \in DOMAIN FloatTexts : text \notin Whole
  /\ \A text \in Whole : NumberTexts[text] \in Int /\ (text \in BelowZero <=> NumberTexts[text] < 0)
<1>1. PointTexts \subseteq DOMAIN FloatTexts /\ NegativeFloats \subseteq DOMAIN FloatTexts
  BY ViewsAssumption, ZenonT(60)
<1>2. \A text \in DOMAIN FloatTexts : text \notin Whole
  BY ViewsAssumption, ZenonT(60)
<1>3. \A text \in Whole : NumberTexts[text] \in Int
  BY ViewsAssumption
<1> QED
  BY <1>1, <1>2, <1>3 DEF BelowZero, Numbers

LEMMA CoercedItem ==
  ASSUME NEW text \in STRING
  PROVE  /\ Coerced(text) \in Items
         /\ Coerced(text).type = "bool" =>
              text \in DOMAIN SwitchTexts /\ Coerced(text).text \in {"True", "False"}
         /\ Coerced(text).type \in {"int", "str"} => Coerced(text).text = text
         /\ Coerced(text).type = "int" => text \in Whole /\ NumberTexts[text] >= 0
         /\ Coerced(text).type = "float" => text \in PointTexts /\ Coerced(text).text = AsFloat(text)
<1>0. {"bool", "int", "float", "str"} \cap {"bool"} = {"bool"} /\ {"True", "False"} \subseteq STRING
  BY WordsAreTexts
<1>1. CASE text \in DOMAIN SwitchTexts
  <2>1. Coerced(text) = [type |-> "bool", text |-> SwitchTexts[text]]
    BY <1>1 DEF Coerced, Item
  <2>2. SwitchTexts[text] \in {"True", "False"} /\ SwitchTexts[text] \in STRING
    BY <1>0, <1>1, SwitchesAreSwitches
  <2>3. Coerced(text).type = "bool" /\ Coerced(text).text = SwitchTexts[text]
    BY <2>1
  <2>4. Coerced(text) \in Items
    BY <2>1, <2>2 DEF Items
  <2> QED
    BY <1>1, <2>2, <2>3, <2>4
<1>2. CASE text \notin DOMAIN SwitchTexts /\ text \in Whole \ BelowZero
  <2>1. Coerced(text) = [type |-> "int", text |-> text]
    BY <1>2 DEF Coerced, Item
  <2>2. NumberTexts[text] \in Int /\ ~(NumberTexts[text] < 0)
    BY <1>2, PointsAreNumbers, Zenon
  <2>3. NumberTexts[text] >= 0
    <3>1. \A n \in Int : ~(n < 0) => n >= 0
      OBVIOUS
    <3> QED
      BY <2>2, <3>1, Zenon
  <2>4. Coerced(text).type = "int" /\ Coerced(text).text = text
    BY <2>1
  <2>5. Coerced(text) \in Items
    BY <2>1 DEF Items
  <2> QED
    BY <1>2, <2>3, <2>4, <2>5
<1>3. CASE text \notin DOMAIN SwitchTexts /\ text \notin Whole \ BelowZero /\ text \in PointTexts
  <2>1. Coerced(text) = [type |-> "float", text |-> AsFloat(text)]
    BY <1>3 DEF Coerced, Item
  <2>2. AsFloat(text) \in STRING
    BY <1>3, PointsAreNumbers, FloatsWritten, NumbersAreNoWords
  <2> HIDE DEF Items
  <2>3. Coerced(text).type = "float" /\ Coerced(text).text = AsFloat(text)
    BY <2>1
  <2>4. Coerced(text) \in Items
    BY <2>1, <2>2 DEF Items
  <2> QED
    BY <1>3, <2>3, <2>4
<1>4. CASE text \notin DOMAIN SwitchTexts /\ text \notin Whole \ BelowZero /\ text \notin PointTexts
  <2>1. Coerced(text) = [type |-> "str", text |-> text]
    BY <1>4 DEF Coerced, Item
  <2> QED
    BY <2>1 DEF Items
<1> QED
  BY <1>1, <1>2, <1>3, <1>4

LEMMA CoercedString ==
  ASSUME NEW text \in STRING, Coerced(text).type = "str"
  PROVE  Coerced(text).text = text
BY CoercedItem

\* A number keeps what the page writes of it.
LEMMA CoercedNumber ==
  ASSUME NEW text \in Numbers
  PROVE  /\ Coerced(text).type # "bool"
         /\ Coerced(text).text \in Numbers /\ AsFloat(Coerced(text).text) = AsFloat(text)
         /\ Coerced(text).text \in BelowZero <=> text \in BelowZero
         /\ text \in PointTexts => Coerced(text).type = "float"
         /\ text \in Whole =>
              /\ Coerced(text).text = text
              /\ Coerced(text).type = IF NumberTexts[text] >= 0 THEN "int" ELSE "str"
<1>1. text \notin DOMAIN SwitchTexts /\ AsFloat(text) \in Numbers
      /\ AsFloat(AsFloat(text)) = AsFloat(text) /\ (text \in BelowZero <=> AsFloat(text) \in BelowZero)
  BY NumbersAreNoWords, FloatsWritten
<1>2. CASE text \in Whole
  <2>1. text \notin PointTexts /\ NumberTexts[text] \in Int
        /\ (text \in BelowZero <=> ~(NumberTexts[text] >= 0))
    BY <1>2, PointsAreNumbers
  <2>2. Coerced(text) = Item(IF NumberTexts[text] >= 0 THEN "int" ELSE "str", text)
    BY <1>1, <1>2, <2>1 DEF Coerced
  <2>3. /\ Coerced(text).text = text
        /\ Coerced(text).type = IF NumberTexts[text] >= 0 THEN "int" ELSE "str"
    BY <2>2 DEF Item
  <2> QED
    BY <1>2, <2>1, <2>3
<1>3. CASE text \notin Whole /\ text \in PointTexts
  <2>1. Coerced(text) = Item("float", AsFloat(text))
    BY <1>1, <1>3 DEF Coerced
  <2>2. Coerced(text).type = "float" /\ Coerced(text).text = AsFloat(text)
    BY <2>1 DEF Item
  <2> QED
    BY <1>1, <1>3, <2>2
<1>4. CASE text \notin Whole /\ text \notin PointTexts
  <2>1. Coerced(text) = Item("str", text)
    BY <1>1, <1>4 DEF Coerced
  <2>2. Coerced(text).type = "str" /\ Coerced(text).text = text
    BY <2>1 DEF Item
  <2> QED
    BY <1>1, <1>4, <2>2
<1> QED
  BY <1>2, <1>3, <1>4

LEMMA CoercedWord ==
  /\ \A text \in Scopes \cup Sorts : Coerced(text) = Item("str", text)
  /\ Coerced("true") = Item("bool", "True")
<1>1. ASSUME NEW text \in Scopes \cup Sorts
      PROVE  Coerced(text) = Item("str", text)
  <2>1. text \notin DOMAIN SwitchTexts
    BY SwitchesAreSwitches
  <2>2. text \notin Whole /\ text \notin PointTexts
    BY NumbersAreNoWords, PointsAreNumbers DEF Numbers
  <2> QED
    BY <2>1, <2>2 DEF Coerced
<1>2. Coerced("true") = Item("bool", "True")
  BY SwitchesAreSwitches DEF Coerced
<1> QED
  BY <1>1, <1>2

(***************************************************************************)
(* A request's field as a value, and a value as texts.                     *)
(***************************************************************************)
LEMMA QueryParamValue ==
  ASSUME NEW texts \in Seq(STRING) \ {<<>>}
  PROVE  LET value == QueryParam(texts)
         IN  /\ ValueOK(value)
             /\ value.list <=> Len(texts) > 1
             /\ Len(value.items) = Len(texts) /\ Len(texts) \in Nat \ {0}
             /\ \A i \in 1..Len(texts) : value.items[i] = Coerced(texts[i])
<1> DEFINE items == [i \in 1..Len(texts) |-> Coerced(texts[i])]
           value == QueryParam(texts)
<1>1. Len(texts) \in Nat \ {0} /\ DOMAIN texts = 1..Len(texts) /\ \A i \in 1..Len(texts) : texts[i] \in STRING
  OBVIOUS
<1>2. /\ items \in Seq(Items) /\ Len(items) = Len(texts) /\ DOMAIN items = 1..Len(texts)
      /\ \A i \in 1..Len(texts) : items[i] = Coerced(texts[i])
  <2>1. \A i \in 1..Len(texts) : Coerced(texts[i]) \in Items
    BY <1>1, CoercedItem
  <2>2. items \in [1..Len(texts) -> Items]
    BY <2>1
  <2> QED
    BY <1>1, <2>2
<1>3. value.list \in BOOLEAN /\ (value.list <=> Len(texts) > 1) /\ value.items = items
  <2>1. value.list = (Len(texts) > 1) /\ value.items = items
    BY <1>1 DEF QueryParam
  <2> HIDE DEF items, value
  <2>2. (Len(texts) > 1) \in BOOLEAN
    OBVIOUS
  <2> QED
    BY <2>1, <2>2
<1> HIDE DEF items, value
<1>4. \A i \in 1..Len(texts) :
        /\ items[i].type = "bool" => items[i].text \in {"True", "False"}
        /\ items[i].type = "int" => items[i].text \in Whole
  <2> SUFFICES ASSUME NEW i \in 1..Len(texts)
               PROVE  /\ items[i].type = "bool" => items[i].text \in {"True", "False"}
                      /\ items[i].type = "int" => items[i].text \in Whole
    OBVIOUS
  <2>1. items[i] = Coerced(texts[i]) /\ texts[i] \in STRING
    BY <1>1, <1>2
  <2> QED
    BY <2>1, CoercedItem
<1>5. ~value.list => Len(value.items) = 1
  BY <1>1, <1>2, <1>3
<1>6. ValueOK(value)
  <2>1. value.items \in Seq(Items) /\ DOMAIN value.items = 1..Len(texts)
    BY <1>2, <1>3
  <2>2. \A i \in DOMAIN value.items :
           /\ value.items[i].type = "bool" => value.items[i].text \in {"True", "False"}
           /\ value.items[i].type = "int" => value.items[i].text \in Whole
    BY <1>3, <1>4, <2>1
  <2> QED
    BY <1>3, <1>5, <2>1, <2>2 DEF ValueOK, Items
<1> QED
  BY <1>1, <1>2, <1>3, <1>6 DEF value

LEMMA ValueTexts ==
  ASSUME NEW value, ValueOK(value), value.items # <<>>
  PROVE  /\ Texts(value) \in Seq(STRING) \ {<<>>}
         /\ Len(Texts(value)) = Len(value.items) /\ Len(value.items) \in Nat \ {0}
         /\ \A i \in 1..Len(value.items) : Texts(value)[i] = value.items[i].text
<1>1. value.items \in Seq(Items)
  BY DEF ValueOK, Items
<1>2. /\ Len(value.items) \in Nat \ {0} /\ DOMAIN value.items = 1..Len(value.items)
      /\ \A i \in 1..Len(value.items) : value.items[i].text \in STRING
  <2>1. Len(value.items) \in Nat \ {0} /\ DOMAIN value.items = 1..Len(value.items)
    BY <1>1
  <2>2. \A i \in 1..Len(value.items) : value.items[i] \in Items
    BY <1>1
  <2> QED
    BY <2>1, <2>2 DEF Items
<1>3. Texts(value) = [i \in 1..Len(value.items) |-> value.items[i].text]
  BY <1>2 DEF Texts
<1>4. Texts(value) \in Seq(STRING) /\ Len(Texts(value)) = Len(value.items)
  BY <1>2, <1>3
<1> QED
  BY <1>2, <1>3, <1>4

\* What validation says of each parameter of the catalogue.
LEMMA CatalogueParams ==
  ASSUME NEW value, ValueOK(value)
  PROVE  /\ \A key \in {"scope", "sort"} :
              ValidParam("markets_catalog", key, value) <=>
                /\ ~value.list /\ value.items[1].type = "str"
                /\ value.items[1].text \in IF key = "scope" THEN Scopes ELSE Sorts
         /\ ValidParam("markets_catalog", "orderbook_only", value) <=>
              ~value.list /\ value.items[1].type = "bool"
         /\ ValidParam("markets_catalog", "search", value) <=>
              ~value.list /\ value.items[1].type = "str"
         /\ ValidParam("markets_catalog", "categories", value) <=>
              value.list /\ \A i \in DOMAIN value.items : value.items[i].type = "str"
         /\ ValidParam("markets_catalog", "min_liquidity", value) <=>
              ~value.list /\ value.items[1].type \in {"int", "float", "bool"}
                /\ AtLeast(value.items[1], 0)
         /\ \A key \in {"page_size", "limit", "page"} :
              ValidParam("markets_catalog", key, value) <=>
                ~value.list /\ value.items[1].type \in {"int", "bool"}
                  /\ AtLeast(value.items[1], 1)
<1>1. DOMAIN SCHEMAS["markets_catalog"].choices = {"scope", "sort"}
  BY CatalogueSchema
<1>2. \A key \in {"scope", "sort"} :
        SCHEMAS["markets_catalog"].choices[key] = IF key = "scope" THEN Scopes ELSE Sorts
  BY CatalogueSchema
<1> DEFINE item == value.items[1]
           type == IF value.list THEN "list" ELSE item.type
<1>3. ASSUME NEW key \in {"scope", "sort"}
      PROVE  ValidParam("markets_catalog", key, value) <=>
               type = "str" /\ item.text \in IF key = "scope" THEN Scopes ELSE Sorts
  BY <1>1, <1>2 DEF ValidParam
<1>4. ValidParam("markets_catalog", "orderbook_only", value) <=> type = "bool"
  BY <1>1 DEF ValidParam
<1>5. ValidParam("markets_catalog", "search", value) <=> type = "str"
  BY <1>1 DEF ValidParam
<1>6. ValidParam("markets_catalog", "categories", value) <=>
        type = "list" /\ \A i \in DOMAIN value.items : value.items[i].type = "str"
  BY <1>1 DEF ValidParam
<1>7. ValidParam("markets_catalog", "min_liquidity", value) <=>
        type \in {"int", "float", "bool"} /\ AtLeast(item, 0)
  BY <1>1 DEF ValidParam
<1>8. ASSUME NEW key \in {"page_size", "limit", "page"}
      PROVE  ValidParam("markets_catalog", key, value) <=>
               type \in {"int", "bool"} /\ AtLeast(item, 1)
  BY <1>1 DEF ValidParam
<1>9. /\ \A name \in {"str", "bool", "int", "float"} :
           type = name <=> ~value.list /\ item.type = name
      /\ type = "list" <=> value.list
  <2>1. ~value.list => item.type # "list"
    <3>1. value.items \in Seq(Items) /\ (~value.list => Len(value.items) = 1)
      BY DEF ValueOK, Items
    <3>2. ~value.list => item \in Items
      BY <3>1
    <3> QED
      BY <3>2 DEF Items
  <2>2. value.list \in BOOLEAN
    BY DEF ValueOK
  <2> QED
    BY <2>1, <2>2
<1> QED
  BY <1>3, <1>4, <1>5, <1>6, <1>7, <1>8, <1>9

(***************************************************************************)
(* A catalogue view's parameters and the filter they stand for.            *)
(***************************************************************************)
Minimums == {""} \cup {text \in Numbers : AsFloat(text) = text}
Sizes == {NumberTexts[text] : text \in Whole} \cap 1..100

Filters ==
  [scope : Scopes, sort : Sorts, page_size : Sizes, categories : Seq(STRING), search : STRING,
   min_liquidity : Minimums, orderbook_only : BOOLEAN]

ParamsOK(params) ==
  /\ \A key \in DOMAIN params : ValueOK(params[key]) /\ params[key].items # <<>>
  /\ \A key \in DOMAIN params : \A i \in DOMAIN params[key].items :
       /\ key = "page_size" => params[key].items[i].text \in Whole
       /\ key = "min_liquidity" => params[key].items[i].text \in Numbers
  /\ "limit" \notin DOMAIN params

ClippedSize(n) == IF n <= 0 THEN 20 ELSE IF n > 100 THEN 100 ELSE n
Only(params, key, default) == IF key \in DOMAIN params THEN params[key].items[1].text ELSE default
Minimum(params) ==
  IF "min_liquidity" \in DOMAIN params THEN AsFloat(params["min_liquidity"].items[1].text) ELSE ""

FieldsAgree(params, filter) ==
  /\ filter.scope = Only(params, "scope", "active")
  /\ filter.sort = Only(params, "sort", "liquidity_desc")
  /\ filter.search = Only(params, "search", "")
  /\ filter.min_liquidity = Minimum(params)
  /\ filter.categories = IF "categories" \in DOMAIN params THEN Texts(params["categories"]) ELSE <<>>
  /\ filter.page_size = IF "page_size" \in DOMAIN params
                          THEN ClippedSize(NumberTexts[params["page_size"].items[1].text]) ELSE 20

LEMMA SizesAreClipped ==
  /\ \A n \in Sizes : n \in Int /\ ClippedSize(n) = n /\ TextOf(n) \in Whole
                        /\ NumberTexts[TextOf(n)] = n /\ 1 <= n
  /\ \A text \in Whole :
       NumberTexts[text] \in Int /\ ClippedSize(NumberTexts[text]) \in Sizes
  /\ 20 \in Sizes /\ ClippedSize(0) = 20
<1>1. \A text \in Whole : NumberTexts[text] \in Int
  BY ViewsAssumption
<1>2. 20 \in Sizes /\ 100 \in Sizes
  <2>1. ASSUME NEW n \in {20, 100}
        PROVE  n \in Sizes
    <3>1. PICK text \in Whole : NumberTexts[text] = n
      BY ViewsAssumption, ZenonT(60)
    <3> QED
      BY <3>1 DEF Sizes
  <2> QED
    BY <2>1
<1>3. ASSUME NEW text \in Whole
      PROVE  ClippedSize(NumberTexts[text]) \in Sizes
  <2>1. CASE NumberTexts[text] \in 1..100
    BY <2>1 DEF ClippedSize, Sizes
  <2>2. CASE NumberTexts[text] \notin 1..100
    BY <1>1, <1>2, <2>2 DEF ClippedSize
  <2> QED
    BY <2>1, <2>2
<1>4. ASSUME NEW n \in Sizes
      PROVE  n \in Int /\ ClippedSize(n) = n /\ TextOf(n) \in Whole
               /\ NumberTexts[TextOf(n)] = n /\ 1 <= n
  <2>1. n \in 1..100 /\ \E text \in Whole : NumberTexts[text] = n
    BY DEF Sizes
  <2>2. TextOf(n) \in Whole /\ NumberTexts[TextOf(n)] = n
    BY <2>1 DEF TextOf, Whole
  <2> QED
    BY <2>1, <2>2 DEF ClippedSize
<1> QED
  BY <1>1, <1>2, <1>3, <1>4 DEF ClippedSize

\* The last text of a field.
LEMMA LastText ==
  ASSUME NEW query, TextsOK(query), NEW key, NEW default
  PROVE  /\ key \in DOMAIN query =>
              /\ Len(query[key]) \in Nat \ {0} /\ Len(query[key]) \in DOMAIN query[key]
              /\ query_value(query, key, default) = query[key][Len(query[key])]
              /\ query_value(query, key, default) \in STRING
         /\ key \notin DOMAIN query => query_value(query, key, default) = default
<1>1. CASE key \in DOMAIN query
  <2>1. query[key] \in Seq(STRING) \ {<<>>}
    BY <1>1 DEF TextsOK
  <2>2. Len(query[key]) \in Nat \ {0} /\ Len(query[key]) \in DOMAIN query[key]
        /\ query[key][Len(query[key])] \in STRING
    BY <2>1
  <2> QED
    BY <1>1, <2>2 DEF query_value
<1>2. CASE key \notin DOMAIN query
  BY <1>2 DEF query_value
<1> QED
  BY <1>1, <1>2

LEMMA LastNumber ==
  ASSUME NEW query, TextsOK(query), NEW key \in DOMAIN query
  PROVE  /\ key \in {"page_size", "limit"} =>
              query_value(query, key, "") \in Whole
         /\ key = "min_liquidity" =>
              query_value(query, key, "") \in Numbers
<1> DEFINE i == Len(query[key])
<1>1. i \in DOMAIN query[key] /\ query_value(query, key, "") = query[key][i]
  BY LastText
<1> HIDE DEF i
<1> QED
  BY <1>1 DEF TextsOK

\* The number a size is given with, zero without one.
SizeGiven(query, key) == IF key \in DOMAIN query THEN NumberTexts[query_value(query, key, "")] ELSE 0

LEMMA PageSizeOf ==
  ASSUME NEW query
  PROVE  page_size(query) =
           ClippedSize(IF SizeGiven(query, "page_size") # 0 THEN SizeGiven(query, "page_size")
                   ELSE IF SizeGiven(query, "limit") # 0 THEN SizeGiven(query, "limit") ELSE 20)
BY DEF page_size, ClippedSize, SizeGiven

LEMMA PageSizeTyped ==
  ASSUME NEW query, TextsOK(query)
  PROVE  page_size(query) \in Sizes
<1>1. ASSUME NEW key \in {"page_size", "limit"}
      PROVE  SizeGiven(query, key) = 0
               \/ \E text \in Whole : SizeGiven(query, key) = NumberTexts[text]
  <2>1. CASE key \in DOMAIN query
    <3>1. query_value(query, key, "") \in Whole
      BY <2>1, LastNumber
    <3> QED
      BY <2>1, <3>1 DEF SizeGiven
  <2>2. CASE key \notin DOMAIN query
    BY <2>2 DEF SizeGiven
  <2> QED
    BY <2>1, <2>2
<1> DEFINE size == IF SizeGiven(query, "page_size") # 0 THEN SizeGiven(query, "page_size")
                   ELSE IF SizeGiven(query, "limit") # 0 THEN SizeGiven(query, "limit") ELSE 20
<1>2. page_size(query) = ClippedSize(size)
  BY PageSizeOf
<1>3. size = 20 \/ \E text \in Whole : size = NumberTexts[text]
  BY <1>1
<1> HIDE DEF size
<1>4. ClippedSize(20) = 20
  BY DEF ClippedSize
<1> QED
  BY <1>2, <1>3, <1>4, SizesAreClipped

\* What the page makes of any request is a filter.
LEMMA FilterTyped ==
  ASSUME NEW query, TextsOK(query)
  PROVE  CatalogueFilter(query) \in Filters
<1> DEFINE f == CatalogueFilter(query)
<1>1. f.page_size \in Sizes
  BY PageSizeTyped DEF CatalogueFilter
<1>2. f.scope \in Scopes /\ f.sort \in Sorts
  BY CatalogueSchema DEF CatalogueFilter, Scopes, Sorts
<1>3. f.categories \in Seq(STRING)
  <2>1. f.categories = IF "category" \in DOMAIN query THEN query["category"] ELSE <<>>
    BY DEF CatalogueFilter
  <2>2. "category" \in DOMAIN query => query["category"] \in Seq(STRING)
    BY DEF TextsOK
  <2>3. <<>> \in Seq(STRING)
    OBVIOUS
  <2> QED
    BY <2>1, <2>2, <2>3
<1>4. f.search \in STRING
  <2>1. f.search = query_value(query, "search", "") /\ "" \in STRING
    BY WordsAreTexts DEF CatalogueFilter
  <2> QED
    BY <2>1, LastText, ZenonT(60)
<1>5. f.min_liquidity \in Minimums
  <2>1. f.min_liquidity = IF "min_liquidity" \in DOMAIN query
                          THEN AsFloat(query_value(query, "min_liquidity", "")) ELSE ""
    BY DEF CatalogueFilter
  <2>2. CASE "min_liquidity" \in DOMAIN query
    <3>1. query_value(query, "min_liquidity", "") \in Numbers
      BY <2>2, LastNumber
    <3> QED
      BY <2>1, <2>2, <3>1, FloatsWritten DEF Minimums
  <2>3. CASE "min_liquidity" \notin DOMAIN query
    BY <2>1, <2>3 DEF Minimums
  <2> QED
    BY <2>2, <2>3
<1>6. f.orderbook_only \in BOOLEAN
  BY DEF CatalogueFilter
<1>7. f = [scope |-> f.scope, sort |-> f.sort, page_size |-> f.page_size,
           categories |-> f.categories, search |-> f.search, min_liquidity |-> f.min_liquidity,
           orderbook_only |-> f.orderbook_only]
  BY DEF CatalogueFilter
<1> HIDE DEF f
<1>8. f \in Filters
  BY <1>1, <1>2, <1>3, <1>4, <1>5, <1>6, <1>7 DEF Filters
<1> QED
  BY <1>8 DEF f

-------------------------------------------------------------------------------
(***************************************************************************)
(* A catalogue view as a query.                                            *)
(***************************************************************************)
LEMMA ValidParams ==
  ASSUME NEW params, validate("markets_catalog", params)
  PROVE  /\ DOMAIN params \subseteq CatalogueKeys
         /\ \A key \in DOMAIN params : ValidParam("markets_catalog", key, params[key])
BY CatalogueSchema DEF validate

LEMMA ViewQueryFields ==
  ASSUME NEW view, view.kind = "markets_catalog", "category" \notin DOMAIN view.params
  PROVE  LET q == ViewQuery(view)
             P == view.params
         IN  /\ DOMAIN q = {IF param = "categories" THEN "category" ELSE param : param \in DOMAIN P}
             /\ "categories" \in DOMAIN P => q["category"] = Texts(P["categories"])
             /\ \A key \in DOMAIN P \ {"categories"} : q[key] = Texts(P[key])
<1> DEFINE P == view.params
           queryKey(param) == IF param = "categories" THEN "category" ELSE param
           keys == {queryKey(param) : param \in DOMAIN P}
           q == ViewQuery(view)
<1>1. q = [key \in keys |-> Texts(P[CHOOSE param \in DOMAIN P : queryKey(param) = key])]
  BY DEF ViewQuery
<1>2. ASSUME NEW param \in DOMAIN P
      PROVE  q[queryKey(param)] = Texts(P[param])
  <2>1. queryKey(param) \in keys
    OBVIOUS
  <2>2. \A other \in DOMAIN P : queryKey(other) = queryKey(param) => other = param
    OBVIOUS
  <2>3. (CHOOSE other \in DOMAIN P : queryKey(other) = queryKey(param)) = param
    BY <2>2
  <2> QED
    BY <1>1, <2>1, <2>3
<1>3. DOMAIN q = keys
  BY <1>1
<1> HIDE DEF q
<1>4. "categories" \in DOMAIN P => q["category"] = Texts(P["categories"])
  BY <1>2
<1>5. \A key \in DOMAIN P \ {"categories"} : q[key] = Texts(P[key])
  BY <1>2
<1> QED
  BY <1>3, <1>4, <1>5 DEF q

LEMMA ViewQueryTexts ==
  ASSUME NEW view, view.kind = "markets_catalog", ParamsOK(view.params),
         validate("markets_catalog", view.params)
  PROVE  TextsOK(ViewQuery(view))
<1> DEFINE P == view.params
           q == ViewQuery(view)
<1>1. "category" \notin DOMAIN P
  BY ValidParams DEF CatalogueKeys
<1>2. /\ DOMAIN q = {IF param = "categories" THEN "category" ELSE param : param \in DOMAIN P}
      /\ "categories" \in DOMAIN P => q["category"] = Texts(P["categories"])
      /\ \A key \in DOMAIN P \ {"categories"} : q[key] = Texts(P[key])
  BY <1>1, ViewQueryFields
<1> HIDE DEF q
<1>3. ASSUME NEW key \in DOMAIN q
      PROVE  /\ q[key] \in Seq(STRING) \ {<<>>}
             /\ \A i \in DOMAIN q[key] :
                  /\ key \in {"page_size", "limit"} => q[key][i] \in Whole
                  /\ key = "min_liquidity" => q[key][i] \in Numbers
  <2>1. PICK param \in DOMAIN P : key = IF param = "categories" THEN "category" ELSE param
    BY <1>2
  <2>2. q[key] = Texts(P[param])
    BY <1>2, <2>1
  <2>3. ValueOK(P[param]) /\ P[param].items # <<>>
    BY DEF ParamsOK
  <2>4. /\ Texts(P[param]) \in Seq(STRING) \ {<<>>}
        /\ Len(Texts(P[param])) = Len(P[param].items)
        /\ \A i \in 1..Len(P[param].items) : Texts(P[param])[i] = P[param].items[i].text
    BY <2>3, ValueTexts
  <2>5. DOMAIN P[param].items = 1..Len(P[param].items)
    <3>1. P[param].items \in Seq(Items)
      BY <2>3 DEF ValueOK, Items
    <3> QED
      BY <3>1
  <2>6. ASSUME NEW i \in DOMAIN q[key]
        PROVE  /\ key \in {"page_size", "limit"} => q[key][i] \in Whole
               /\ key = "min_liquidity" => q[key][i] \in Numbers
    <3>1. i \in DOMAIN P[param].items /\ q[key][i] = P[param].items[i].text
      BY <2>2, <2>4, <2>5
    <3>2. key \in {"page_size", "limit", "min_liquidity"} => param = key /\ key # "limit"
      BY <2>1 DEF ParamsOK
    <3> QED
      BY <3>1, <3>2 DEF ParamsOK
  <2> QED
    BY <2>2, <2>4, <2>6
<1>4. TextsOK(q)
  BY <1>3 DEF TextsOK
<1> QED
  BY <1>4 DEF q

\* The single text of a valid parameter is the last of its query's.
LEMMA SingleText ==
  ASSUME NEW view, view.kind = "markets_catalog", ParamsOK(view.params),
         validate("markets_catalog", view.params), NEW default,
         NEW key \in {"scope", "sort", "search", "min_liquidity", "page_size"}
  PROVE  query_value(ViewQuery(view), key, default) = Only(view.params, key, default)
<1> DEFINE P == view.params
           q == ViewQuery(view)
<1>1. "category" \notin DOMAIN P
  BY ValidParams DEF CatalogueKeys
<1>2. /\ DOMAIN q = {IF param = "categories" THEN "category" ELSE param : param \in DOMAIN P}
      /\ \A other \in DOMAIN P \ {"categories"} : q[other] = Texts(P[other])
  BY <1>1, ViewQueryFields
<1>3. key \in DOMAIN q <=> key \in DOMAIN P
  BY <1>2
<1>4. CASE key \in DOMAIN P
  <2>1. q[key] = Texts(P[key]) /\ key \in DOMAIN q
    BY <1>2, <1>3, <1>4
  <2>2. ValidParam("markets_catalog", key, P[key]) /\ ValueOK(P[key])
    BY <1>4, ValidParams DEF ParamsOK
  <2>3. ~P[key].list
    BY <2>2, CatalogueParams
  <2>4. Len(P[key].items) = 1 /\ P[key].items # <<>>
    BY <1>4, <2>2, <2>3 DEF ValueOK, ParamsOK
  <2>5. Len(Texts(P[key])) = 1 /\ Texts(P[key])[1] = P[key].items[1].text
    BY <2>2, <2>4, ValueTexts
  <2> QED
    BY <1>4, <2>1, <2>5 DEF query_value, Only
<1>5. CASE key \notin DOMAIN P
  BY <1>3, <1>5 DEF query_value, Only
<1> QED
  BY <1>4, <1>5

LEMMA ViewShowsItsFilter ==
  ASSUME NEW view, view.kind = "markets_catalog", ParamsOK(view.params),
         validate("markets_catalog", view.params), NEW filter \in Filters,
         FieldsAgree(view.params, filter)
  PROVE  CatalogueFilter(ViewQuery(view)) = [filter EXCEPT !.orderbook_only = FALSE]
<1> DEFINE P == view.params
           q == ViewQuery(view)
           f == CatalogueFilter(q)
<1>1. TextsOK(q)
  BY ViewQueryTexts
<1>2. f \in Filters
  BY <1>1, FilterTyped
<1>3. "category" \notin DOMAIN P /\ DOMAIN P \subseteq CatalogueKeys /\ "limit" \notin DOMAIN P
  BY ValidParams DEF CatalogueKeys, ParamsOK
<1>4. /\ DOMAIN q = {IF param = "categories" THEN "category" ELSE param : param \in DOMAIN P}
      /\ "categories" \in DOMAIN P => q["category"] = Texts(P["categories"])
  BY <1>3, ViewQueryFields
<1>5. "active" \notin DOMAIN q /\ "limit" \notin DOMAIN q
      /\ ("category" \in DOMAIN q <=> "categories" \in DOMAIN P)
      /\ ("page_size" \in DOMAIN q <=> "page_size" \in DOMAIN P)
      /\ ("orderbook_only" \in DOMAIN q <=> "orderbook_only" \in DOMAIN P)
  BY <1>3, <1>4 DEF CatalogueKeys
<1>6. f.scope = filter.scope
  <2>1. query_value(q, "active", "1") = "1"
    BY <1>5 DEF query_value
  <2>2. query_value(q, "scope", "active") = filter.scope
    BY SingleText DEF FieldsAgree
  <2>3. filter.scope \in Scopes
    BY DEF Filters
  <2> QED
    BY <2>1, <2>2, <2>3, CatalogueSchema DEF CatalogueFilter
<1>7. f.sort = filter.sort
  <2>1. query_value(q, "sort", "liquidity_desc") = filter.sort
    BY SingleText DEF FieldsAgree
  <2>2. filter.sort \in Sorts
    BY DEF Filters
  <2> QED
    BY <2>1, <2>2, CatalogueSchema DEF CatalogueFilter
<1>8. f.search = filter.search /\ f.min_liquidity = filter.min_liquidity
  <2>1. f.search = filter.search
    BY SingleText DEF FieldsAgree, CatalogueFilter
  <2>2. "min_liquidity" \in DOMAIN q <=> "min_liquidity" \in DOMAIN P
    BY <1>3, <1>4
  <2>3. f.min_liquidity = IF "min_liquidity" \in DOMAIN q
                          THEN AsFloat(query_value(q, "min_liquidity", "")) ELSE ""
    BY DEF CatalogueFilter
  <2>4. query_value(q, "min_liquidity", "") = Only(P, "min_liquidity", "")
    BY SingleText
  <2>5. filter.min_liquidity = Minimum(P)
    BY DEF FieldsAgree
  <2> HIDE DEF f, q
  <2> QED
    BY <2>1, <2>2, <2>3, <2>4, <2>5 DEF Minimum, Only
<1>9. f.categories = filter.categories
  BY <1>4, <1>5 DEF FieldsAgree, CatalogueFilter
<1>10. f.page_size = filter.page_size
  <2>1. f.page_size = page_size(q)
    BY DEF CatalogueFilter
  <2>2. SizeGiven(q, "limit") = 0
    BY <1>5 DEF SizeGiven
  <2>3. CASE "page_size" \in DOMAIN P
    <3> DEFINE text == P["page_size"].items[1].text
    <3>1. query_value(q, "page_size", "") = text
      BY <2>3, SingleText DEF Only
    <3>2. ValueOK(P["page_size"]) /\ ValidParam("markets_catalog", "page_size", P["page_size"])
      BY <2>3, ValidParams DEF ParamsOK
    <3>3. text \in Whole
      <4>1. Len(P["page_size"].items) = 1 /\ P["page_size"].items \in Seq(Items)
        BY <3>2, CatalogueParams DEF ValueOK, Items
      <4>2. 1 \in DOMAIN P["page_size"].items
        BY <4>1
      <4> QED
        BY <2>3, <4>2 DEF ParamsOK
    <3>4. SizeGiven(q, "page_size") = NumberTexts[text]
      BY <1>5, <2>3, <3>1 DEF SizeGiven
    <3>5. page_size(q) = ClippedSize(NumberTexts[text])
      <4> HIDE DEF text
      <4>1. CASE NumberTexts[text] # 0
        BY <3>4, <4>1, PageSizeOf
      <4>2. CASE NumberTexts[text] = 0
        <5>1. page_size(q) = ClippedSize(20)
          BY <2>2, <3>4, <4>2, PageSizeOf
        <5> QED
          BY <4>2, <5>1 DEF ClippedSize
      <4> QED
        BY <4>1, <4>2
    <3> QED
      BY <2>1, <2>3, <3>5 DEF FieldsAgree
  <2>4. CASE "page_size" \notin DOMAIN P
    <3>1. SizeGiven(q, "page_size") = 0
      BY <1>5, <2>4 DEF SizeGiven
    <3>2. page_size(q) = 20
      BY <2>2, <3>1, PageSizeOf DEF ClippedSize
    <3> QED
      BY <2>1, <2>4, <3>2 DEF FieldsAgree
  <2> QED
    BY <2>3, <2>4
<1>11. f.orderbook_only = FALSE
  <2>1. query_value(q, "orderbook_only", "false") \notin {"1", "true", "yes"}
    <3>1. CASE "orderbook_only" \in DOMAIN P
      <4>1. ValidParam("markets_catalog", "orderbook_only", P["orderbook_only"])
            /\ ValueOK(P["orderbook_only"])
        BY <3>1, ValidParams DEF ParamsOK
      <4>2. ~P["orderbook_only"].list /\ P["orderbook_only"].items[1].type = "bool"
        BY <4>1, CatalogueParams
      <4>3. Len(P["orderbook_only"].items) = 1 /\ P["orderbook_only"].items # <<>>
            /\ P["orderbook_only"].items[1].text \in {"True", "False"}
        BY <4>1, <4>2 DEF ValueOK
      <4>4. q["orderbook_only"] = Texts(P["orderbook_only"])
        BY <1>3, <3>1, ViewQueryFields
      <4>5. Len(q["orderbook_only"]) = 1 /\ q["orderbook_only"][1] \in {"True", "False"}
        BY <4>1, <4>3, <4>4, ValueTexts
      <4> QED
        BY <1>5, <3>1, <4>5 DEF query_value
    <3>2. CASE "orderbook_only" \notin DOMAIN P
      BY <1>5, <3>2 DEF query_value
    <3> QED
      BY <3>1, <3>2
  <2>2. f.orderbook_only = (query_value(q, "orderbook_only", "false") \in {"1", "true", "yes"})
    BY DEF CatalogueFilter
  <2> HIDE DEF f, q
  <2>3. f.orderbook_only <=> query_value(q, "orderbook_only", "false") \in {"1", "true", "yes"}
    BY <2>2
  <2>4. ~f.orderbook_only
    BY <2>1, <2>3
  <2>5. f.orderbook_only \in BOOLEAN
    BY <1>2 DEF Filters
  <2> QED
    BY <2>4, <2>5
<1> HIDE DEF f
<1>12. f = [filter EXCEPT !.orderbook_only = FALSE]
  BY <1>2, <1>6, <1>7, <1>8, <1>9, <1>10, <1>11 DEF Filters
<1> QED
  BY <1>12 DEF f

(***************************************************************************)
(* A request's fields as the parameters of a catalogue view.               *)
(***************************************************************************)
LEMMA QueryParamsFields ==
  ASSUME NEW query, RequestOK(query)
  PROVE  LET P == QueryParams("markets_catalog", query)
         IN  /\ DOMAIN P = {ParamKey("markets_catalog", key) : key \in DOMAIN query}
             /\ \A key \in DOMAIN query : P[ParamKey("markets_catalog", key)] = QueryParam(query[key])
<1> DEFINE param(key) == ParamKey("markets_catalog", key)
           keys == {param(key) : key \in DOMAIN query}
           P == QueryParams("markets_catalog", query)
<1>1. P = [p \in keys |-> QueryParam(query[CHOOSE key \in DOMAIN query : param(key) = p])]
  BY DEF QueryParams
<1>2. ASSUME NEW key \in DOMAIN query
      PROVE  P[param(key)] = QueryParam(query[key])
  <2>1. \A other \in DOMAIN query : param(other) = param(key) => other = key
    BY DEF RequestOK, ParamKey
  <2>2. (CHOOSE other \in DOMAIN query : param(other) = param(key)) = key
    BY <2>1
  <2>3. param(key) \in keys
    OBVIOUS
  <2> HIDE DEF param
  <2> QED
    BY <1>1, <2>2, <2>3
<1>3. DOMAIN P = keys
  BY <1>1
<1> QED
  BY <1>2, <1>3

LEMMA ParamKeys ==
  /\ \A key : ParamKey("markets_catalog", key) = IF key = "category" THEN "categories"
               ELSE IF key = "limit" THEN "page_size" ELSE key
  /\ \A kind : kind # "markets_catalog" => \A key : ParamKey(kind, key) = key
BY DEF ParamKey

\* Every value a request gives is one of a view.
LEMMA RequestParams ==
  ASSUME NEW query, TextsOK(query), NEW kind
  PROVE  LET P == QueryParams(kind, query)
         IN  /\ DOMAIN P = {ParamKey(kind, key) : key \in DOMAIN query}
             /\ \A p \in DOMAIN P : ValueOK(P[p]) /\ P[p].items # <<>>
<1> DEFINE P == QueryParams(kind, query)
<1>1. DOMAIN P = {ParamKey(kind, key) : key \in DOMAIN query}
  BY DEF QueryParams
<1>2. ASSUME NEW p \in DOMAIN P
      PROVE  ValueOK(P[p]) /\ P[p].items # <<>>
  <2> DEFINE key == CHOOSE key \in DOMAIN query : ParamKey(kind, key) = p
  <2>1. key \in DOMAIN query /\ P[p] = QueryParam(query[key])
    <3>1. \E other \in DOMAIN query : ParamKey(kind, other) = p
      BY <1>1
    <3> QED
      BY <1>2, <3>1 DEF QueryParams
  <2> HIDE DEF key
  <2>2. query[key] \in Seq(STRING) \ {<<>>}
    BY <2>1 DEF TextsOK
  <2>3. ValueOK(P[p]) /\ Len(P[p].items) \in Nat \ {0}
    BY <2>1, <2>2, QueryParamValue
  <2> QED
    BY <2>3
<1> QED
  BY <1>1, <1>2

LEMMA RequestParamsOK ==
  ASSUME NEW query, RequestOK(query)
  PROVE  ParamsOK(QueryParams("markets_catalog", query))
<1> DEFINE P == QueryParams("markets_catalog", query)
<1>1. TextsOK(query)
  BY DEF RequestOK
<1>2. \A p \in DOMAIN P : ValueOK(P[p]) /\ P[p].items # <<>>
  BY <1>1, RequestParams
<1>3. DOMAIN P = {ParamKey("markets_catalog", key) : key \in DOMAIN query}
      /\ \A key \in DOMAIN query : P[ParamKey("markets_catalog", key)] = QueryParam(query[key])
  BY QueryParamsFields
<1> HIDE DEF P
<1>4. "limit" \notin DOMAIN P
  BY <1>3, ParamKeys
<1>5. ASSUME NEW p \in DOMAIN P, p \in {"page_size", "min_liquidity"}, NEW i \in DOMAIN P[p].items
      PROVE  /\ p = "page_size" => P[p].items[i].text \in Whole
             /\ p = "min_liquidity" => P[p].items[i].text \in Numbers
  <2>1. PICK key \in DOMAIN query : p = ParamKey("markets_catalog", key)
    BY <1>3
  <2>2. /\ p = "page_size" => key \in {"page_size", "limit"}
        /\ p = "min_liquidity" => key = "min_liquidity"
    BY <2>1, ParamKeys
  <2>3. P[p] = QueryParam(query[key]) /\ query[key] \in Seq(STRING) \ {<<>>}
    BY <1>1, <1>3, <2>1 DEF TextsOK
  <2>4. DOMAIN P[p].items = 1..Len(query[key]) /\ DOMAIN query[key] = 1..Len(query[key])
    <3>1. P[p].items \in Seq(Items) /\ Len(P[p].items) = Len(query[key])
      BY <2>3, QueryParamValue DEF ValueOK, Items
    <3> QED
      BY <2>3, <3>1
  <2>5. P[p].items[i] = Coerced(query[key][i]) /\ i \in DOMAIN query[key]
    BY <2>3, <2>4, QueryParamValue
  <2>6. /\ p = "page_size" => query[key][i] \in Whole
        /\ p = "min_liquidity" => query[key][i] \in Numbers
    BY <1>1, <2>2, <2>5 DEF TextsOK
  <2>7. query[key][i] \in Numbers
    BY <1>5, <2>6 DEF Numbers
  <2> QED
    BY <2>5, <2>6, <2>7, CoercedNumber
<1>6. ParamsOK(P)
  BY <1>2, <1>4, <1>5 DEF ParamsOK
<1> QED
  BY <1>6 DEF P

\* A valid parameter of a request holds what the page reads in its field.
LEMMA RequestText ==
  ASSUME NEW query, RequestOK(query), NEW default,
         NEW key \in {"scope", "sort", "search", "min_liquidity"}, key \in DOMAIN query,
         ValidParam("markets_catalog", key, QueryParams("markets_catalog", query)[key])
  PROVE  /\ key \in DOMAIN QueryParams("markets_catalog", query)
         /\ LET text == QueryParams("markets_catalog", query)[key].items[1].text
            IN  /\ key # "min_liquidity" => query_value(query, key, default) = text
                /\ key = "min_liquidity" => AsFloat(query_value(query, key, default)) = AsFloat(text)
<1> DEFINE value == QueryParams("markets_catalog", query)[key]
<1>1. key \in DOMAIN QueryParams("markets_catalog", query) /\ value = QueryParam(query[key])
  <2>1. ParamKey("markets_catalog", key) = key
    BY ParamKeys
  <2> QED
    BY <2>1, QueryParamsFields
<1>2. TextsOK(query) /\ query[key] \in Seq(STRING) \ {<<>>}
  BY DEF RequestOK, TextsOK
<1>3. ValueOK(value) /\ (value.list <=> Len(query[key]) > 1) /\ Len(query[key]) \in Nat \ {0}
      /\ \A i \in 1..Len(query[key]) : value.items[i] = Coerced(query[key][i])
  BY <1>1, <1>2, QueryParamValue
<1> HIDE DEF value
<1>4. ValidParam("markets_catalog", key, value)
  BY DEF value
<1>5. ~value.list /\ (key # "min_liquidity" => value.items[1].type = "str")
  BY <1>3, <1>4, CatalogueParams
<1>6. Len(query[key]) = 1
  <2>1. ~(Len(query[key]) > 1)
    BY <1>3, <1>5
  <2>2. Len(query[key]) \in Nat \ {0}
    BY <1>3
  <2>3. \A n \in Nat \ {0} : ~(n > 1) => n = 1
    OBVIOUS
  <2> QED
    BY <2>1, <2>2, <2>3, Zenon
<1>7. value.items[1] = Coerced(query[key][1]) /\ query_value(query, key, default) = query[key][1]
      /\ query[key][1] \in STRING /\ 1 \in DOMAIN query[key]
  BY <1>2, <1>3, <1>6 DEF query_value
<1>8. /\ key # "min_liquidity" => value.items[1].text = query[key][1]
      /\ key = "min_liquidity" => AsFloat(value.items[1].text) = AsFloat(query[key][1])
  <2>1. CASE key = "min_liquidity"
    <3> DEFINE text == query[key][1]
    <3>1. text \in Numbers
      BY <1>2, <1>7, <2>1 DEF TextsOK
    <3>2. value.items[1] = Coerced(text)
      BY <1>7
    <3> HIDE DEF text
    <3>3. AsFloat(Coerced(text).text) = AsFloat(text)
      BY <3>1, CoercedNumber
    <3>4. AsFloat(value.items[1].text) = AsFloat(text)
      BY <3>2, <3>3
    <3> QED
      BY <2>1, <3>4 DEF text
  <2>2. CASE key # "min_liquidity"
    <3> DEFINE text == query[key][1]
    <3>1. text \in STRING /\ Coerced(text).type = "str" /\ value.items[1] = Coerced(text)
      BY <1>5, <1>7, <2>2
    <3> HIDE DEF text
    <3>2. Coerced(text).text = text
      BY <3>1, CoercedString
    <3>3. value.items[1].text = text
      BY <3>1, <3>2
    <3> QED
      BY <2>2, <3>3 DEF text
  <2> QED
    BY <2>1, <2>2
<1> QED
  BY <1>1, <1>7, <1>8 DEF value

LEMMA RequestCategories ==
  ASSUME NEW query, RequestOK(query), "category" \in DOMAIN query,
         ValidParam("markets_catalog", "categories",
                    QueryParams("markets_catalog", query)["categories"])
  PROVE  Texts(QueryParams("markets_catalog", query)["categories"]) = query["category"]
<1> DEFINE value == QueryParams("markets_catalog", query)["categories"]
           texts == query["category"]
<1>1. value = QueryParam(texts)
  <2>1. ParamKey("markets_catalog", "category") = "categories"
    BY ParamKeys
  <2> QED
    BY <2>1, QueryParamsFields
<1>2. texts \in Seq(STRING) \ {<<>>}
  BY DEF RequestOK, TextsOK
<1>3. /\ ValueOK(value) /\ Len(value.items) = Len(texts) /\ Len(texts) \in Nat \ {0}
      /\ \A i \in 1..Len(texts) : value.items[i] = Coerced(texts[i])
  BY <1>1, <1>2, QueryParamValue
<1> HIDE DEF value
<1>4. \A i \in DOMAIN value.items : value.items[i].type = "str"
  BY <1>3, CatalogueParams DEF value
<1>5. DOMAIN value.items = 1..Len(texts) /\ value.items # <<>>
  <2>1. value.items \in Seq(Items)
    BY <1>3 DEF ValueOK, Items
  <2> QED
    BY <1>3, <2>1
<1>6. /\ Texts(value) \in Seq(STRING) /\ Len(Texts(value)) = Len(texts)
      /\ \A i \in 1..Len(texts) : Texts(value)[i] = value.items[i].text
  BY <1>3, <1>5, ValueTexts
<1>7. ASSUME NEW i \in 1..Len(texts)
      PROVE  Texts(value)[i] = texts[i]
  <2>1. texts[i] \in STRING /\ value.items[i] = Coerced(texts[i]) /\ value.items[i].type = "str"
    BY <1>2, <1>3, <1>4, <1>5
  <2> QED
    BY <1>6, <2>1, CoercedString
<1> HIDE DEF texts
<1>8. Texts(value) = texts
  BY <1>2, <1>6, <1>7
<1> QED
  BY <1>8 DEF value, texts

LEMMA RequestSize ==
  ASSUME NEW query, RequestOK(query), NEW key \in {"page_size", "limit"}, key \in DOMAIN query,
         ValidParam("markets_catalog", "page_size",
                    QueryParams("markets_catalog", query)["page_size"])
  PROVE  LET text == QueryParams("markets_catalog", query)["page_size"].items[1].text
         IN  SizeGiven(query, key) = NumberTexts[text] /\ NumberTexts[text] >= 1
<1> DEFINE value == QueryParams("markets_catalog", query)["page_size"]
<1>1. value = QueryParam(query[key])
  <2>1. ParamKey("markets_catalog", key) = "page_size"
    BY ParamKeys
  <2> QED
    BY <2>1, QueryParamsFields
<1>2. TextsOK(query) /\ query[key] \in Seq(STRING) \ {<<>>}
  BY DEF RequestOK, TextsOK
<1>3. ValueOK(value) /\ (value.list <=> Len(query[key]) > 1) /\ Len(query[key]) \in Nat \ {0}
      /\ \A i \in 1..Len(query[key]) : value.items[i] = Coerced(query[key][i])
  BY <1>1, <1>2, QueryParamValue
<1> HIDE DEF value
<1>4. ~value.list /\ value.items[1].type \in {"int", "bool"} /\ AtLeast(value.items[1], 1)
  BY <1>3, CatalogueParams DEF value
<1> DEFINE text == query[key][1]
<1>5. Len(query[key]) = 1
  <2>1. ~(Len(query[key]) > 1)
    BY <1>3, <1>4
  <2>2. Len(query[key]) \in Nat \ {0}
    BY <1>3
  <2>3. \A n \in Nat \ {0} : ~(n > 1) => n = 1
    OBVIOUS
  <2> QED
    BY <2>1, <2>2, <2>3, Zenon
<1>6. value.items[1] = Coerced(text) /\ query_value(query, key, "") = text /\ 1 \in DOMAIN query[key]
  BY <1>2, <1>3, <1>5 DEF query_value
<1>7. text \in Whole
  BY <1>2, <1>6 DEF TextsOK
<1>8. value.items[1].text = text /\ value.items[1].type = "int"
  <2>1. text \in Numbers
    BY <1>7 DEF Numbers
  <2> HIDE DEF text
  <2> QED
    BY <1>4, <1>6, <1>7, <2>1, CoercedNumber
<1>9. NumberTexts[text] >= 1 /\ SizeGiven(query, key) = NumberTexts[text]
  BY <1>4, <1>6, <1>8 DEF AtLeast, SizeGiven
<1> QED
  BY <1>8, <1>9 DEF value

\* The page takes a valid scope and order as they are.
LEMMA ScopeAndSort ==
  ASSUME NEW query, "active" \notin DOMAIN query,
         NEW params, ParamsOK(params), validate("markets_catalog", params),
         query_value(query, "scope", "active") = Only(params, "scope", "active"),
         query_value(query, "sort", "liquidity_desc") = Only(params, "sort", "liquidity_desc")
  PROVE  /\ CatalogueFilter(query).scope = Only(params, "scope", "active")
         /\ CatalogueFilter(query).sort = Only(params, "sort", "liquidity_desc")
<1>1. query_value(query, "active", "1") = "1"
  BY DEF query_value
<1>2. \A key \in DOMAIN params : ValueOK(params[key]) /\ ValidParam("markets_catalog", key, params[key])
  BY ValidParams DEF ParamsOK
<1>3. Only(params, "scope", "active") \in Scopes
  <2>1. CASE "scope" \in DOMAIN params
    <3>1. params["scope"].items[1].text \in Scopes
      BY <1>2, <2>1, CatalogueParams
    <3> QED
      BY <2>1, <3>1 DEF Only
  <2>2. CASE "scope" \notin DOMAIN params
    BY <2>2 DEF Only, Scopes
  <2> QED
    BY <2>1, <2>2
<1>4. Only(params, "sort", "liquidity_desc") \in Sorts
  <2>1. CASE "sort" \in DOMAIN params
    <3>1. params["sort"].items[1].text \in Sorts
      BY <1>2, <2>1, CatalogueParams
    <3> QED
      BY <2>1, <3>1 DEF Only
  <2>2. CASE "sort" \notin DOMAIN params
    BY <2>2 DEF Only, Sorts
  <2> QED
    BY <2>1, <2>2
<1> QED
  BY <1>1, <1>3, <1>4, CatalogueSchema DEF CatalogueFilter

LEMMA RequestPageSize ==
  ASSUME NEW query, RequestOK(query),
         "page_size" \in DOMAIN QueryParams("markets_catalog", query),
         ValidParam("markets_catalog", "page_size",
                    QueryParams("markets_catalog", query)["page_size"])
  PROVE  page_size(query)
           = ClippedSize(NumberTexts[QueryParams("markets_catalog", query)["page_size"].items[1].text])
<1> DEFINE n == NumberTexts[QueryParams("markets_catalog", query)["page_size"].items[1].text]
<1>1. PICK key \in {"page_size", "limit"} : key \in DOMAIN query
  <2>1. PICK field \in DOMAIN query : ParamKey("markets_catalog", field) = "page_size"
    <3>1. DOMAIN QueryParams("markets_catalog", query)
            = {ParamKey("markets_catalog", field) : field \in DOMAIN query}
      BY QueryParamsFields
    <3> QED
      BY <3>1
  <2>2. field \in {"page_size", "limit"}
    BY <2>1, ParamKeys
  <2> QED
    BY <2>1, <2>2
<1>2. SizeGiven(query, key) = n /\ n >= 1
  BY <1>1, RequestSize
<1>3. "limit" \in DOMAIN query => SizeGiven(query, "page_size") = 0
  BY DEF SizeGiven, RequestOK
<1> HIDE DEF n
<1>4. page_size(query) = ClippedSize(n)
  <2>1. CASE key = "page_size"
    <3>1. SizeGiven(query, "page_size") = n /\ n # 0
      BY <1>2, <2>1
    <3> QED
      BY <3>1, PageSizeOf
  <2>2. CASE key = "limit"
    <3>1. SizeGiven(query, "page_size") = 0 /\ SizeGiven(query, "limit") = n /\ n # 0
      BY <1>1, <1>2, <1>3, <2>2
    <3> QED
      BY <3>1, PageSizeOf
  <2> QED
    BY <2>1, <2>2
<1> QED
  BY <1>4 DEF n

\* The filter of a valid request is what its parameters say.
LEMMA RequestFilter ==
  ASSUME NEW query, RequestOK(query),
         validate("markets_catalog", QueryParams("markets_catalog", query))
  PROVE  FieldsAgree(QueryParams("markets_catalog", query), CatalogueFilter(query))
<1> DEFINE P == QueryParams("markets_catalog", query)
           f == CatalogueFilter(query)
<1>1. DOMAIN P \subseteq CatalogueKeys
      /\ \A key \in DOMAIN P : ValidParam("markets_catalog", key, P[key])
  BY ValidParams
<1>2. DOMAIN P = {ParamKey("markets_catalog", key) : key \in DOMAIN query}
  BY QueryParamsFields
<1>3. /\ \A key \in {"scope", "sort", "search", "min_liquidity", "active", "page"} :
           key \in DOMAIN P <=> key \in DOMAIN query
      /\ "categories" \in DOMAIN P <=> "category" \in DOMAIN query
      /\ "page_size" \in DOMAIN P <=> DOMAIN query \cap {"page_size", "limit"} # {}
  BY <1>2, ParamKeys DEF RequestOK
<1>4. ASSUME NEW key \in {"scope", "sort", "search"}, NEW default
      PROVE  query_value(query, key, default) = Only(P, key, default)
  <2>1. CASE key \in DOMAIN query
    <3>1. key \in DOMAIN P /\ ValidParam("markets_catalog", key, P[key])
      BY <1>1, <1>3, <2>1
    <3> QED
      BY <2>1, <3>1, RequestText DEF Only
  <2>2. CASE key \notin DOMAIN query
    BY <1>3, <2>2 DEF query_value, Only
  <2> QED
    BY <2>1, <2>2
<1>5. "active" \notin DOMAIN query
  BY <1>1, <1>3 DEF CatalogueKeys
<1>6. f.scope = Only(P, "scope", "active") /\ f.sort = Only(P, "sort", "liquidity_desc")
  BY <1>4, <1>5, RequestParamsOK, ScopeAndSort
<1>7. f.search = Only(P, "search", "") /\ f.min_liquidity = Minimum(P)
  <2>1. f.search = Only(P, "search", "")
    BY <1>4 DEF CatalogueFilter
  <2>2. f.min_liquidity = IF "min_liquidity" \in DOMAIN query
                          THEN AsFloat(query_value(query, "min_liquidity", "")) ELSE ""
    BY DEF CatalogueFilter
  <2>3. CASE "min_liquidity" \in DOMAIN query
    <3>1. "min_liquidity" \in DOMAIN P
          /\ ValidParam("markets_catalog", "min_liquidity", P["min_liquidity"])
      BY <1>1, <1>3, <2>3
    <3>2. AsFloat(query_value(query, "min_liquidity", "")) = AsFloat(P["min_liquidity"].items[1].text)
      BY <2>3, <3>1, RequestText
    <3> HIDE DEF P, f
    <3> QED
      BY <2>1, <2>2, <2>3, <3>1, <3>2 DEF Minimum
  <2>4. CASE "min_liquidity" \notin DOMAIN query
    <3>1. "min_liquidity" \notin DOMAIN P
      BY <1>3, <2>4
    <3> HIDE DEF P, f
    <3> QED
      BY <2>1, <2>2, <2>4, <3>1 DEF Minimum
  <2> QED
    BY <2>3, <2>4
<1>8. f.categories = IF "categories" \in DOMAIN P THEN Texts(P["categories"]) ELSE <<>>
  <2>1. f.categories = IF "category" \in DOMAIN query THEN query["category"] ELSE <<>>
    BY DEF CatalogueFilter
  <2>2. CASE "category" \in DOMAIN query
    <3>1. "categories" \in DOMAIN P /\ ValidParam("markets_catalog", "categories", P["categories"])
      BY <1>1, <1>3, <2>2
    <3> QED
      BY <2>1, <2>2, <3>1, RequestCategories
  <2>3. CASE "category" \notin DOMAIN query
    BY <1>3, <2>1, <2>3
  <2> QED
    BY <2>2, <2>3
<1>9. f.page_size = IF "page_size" \in DOMAIN P
                      THEN ClippedSize(NumberTexts[P["page_size"].items[1].text]) ELSE 20
  <2>1. f.page_size = page_size(query)
    BY DEF CatalogueFilter
  <2>2. \A key : key \notin DOMAIN query => SizeGiven(query, key) = 0
    BY DEF SizeGiven
  <2>3. CASE "page_size" \in DOMAIN P
    <3>1. ValidParam("markets_catalog", "page_size", P["page_size"])
      BY <1>1, <2>3
    <3> QED
      BY <2>1, <2>3, <3>1, RequestPageSize
  <2>4. CASE "page_size" \notin DOMAIN P
    <3>1. "page_size" \notin DOMAIN query /\ "limit" \notin DOMAIN query
      BY <1>3, <2>4
    <3>2. SizeGiven(query, "page_size") = 0 /\ SizeGiven(query, "limit") = 0
      BY <2>2, <3>1
    <3>3. page_size(query) = 20
      BY <3>2, PageSizeOf DEF ClippedSize
    <3> QED
      BY <2>1, <2>4, <3>3
  <2> QED
    BY <2>3, <2>4
<1> HIDE DEF P, f
<1>10. FieldsAgree(P, f)
  BY <1>6, <1>7, <1>8, <1>9 DEF FieldsAgree
<1> QED
  BY <1>10 DEF P, f

(***************************************************************************)
(* The fields of the page's button.                                        *)
(***************************************************************************)
LEMMA ButtonFields ==
  ASSUME NEW filter \in Filters
  PROVE  LET q == SavedViewFields(filter)
         IN  /\ DOMAIN q \subseteq {"scope", "sort", "page_size", "search", "min_liquidity",
                                     "orderbook_only", "category"}
             /\ {"scope", "sort", "page_size"} \subseteq DOMAIN q
             /\ q["scope"] = <<filter.scope>> /\ q["sort"] = <<filter.sort>>
             /\ q["page_size"] = <<TextOf(filter.page_size)>>
             /\ "search" \in DOMAIN q <=> filter.search # ""
             /\ "search" \in DOMAIN q => q["search"] = <<filter.search>>
             /\ "min_liquidity" \in DOMAIN q <=> filter.min_liquidity # ""
             /\ "min_liquidity" \in DOMAIN q => q["min_liquidity"] = <<filter.min_liquidity>>
             /\ "category" \in DOMAIN q <=> filter.categories # <<>>
             /\ "category" \in DOMAIN q => q["category"] = filter.categories
             /\ "orderbook_only" \in DOMAIN q <=> filter.orderbook_only
             /\ "orderbook_only" \in DOMAIN q => q["orderbook_only"] = <<"true">>
<1> DEFINE given == {"scope", "sort", "page_size"}
                      \cup {key \in {"search", "min_liquidity"} : filter[key] # ""}
                      \cup {key \in {"orderbook_only"} : filter[key]}
                      \cup {key \in {"category"} : filter.categories # <<>>}
           q == SavedViewFields(filter)
<1>1. q = [key \in given |->
             CASE key = "category" -> filter.categories
               [] key = "orderbook_only" -> <<"true">>
               [] key = "page_size" -> <<TextOf(filter.page_size)>>
               [] OTHER -> <<filter[key]>>]
  BY DEF SavedViewFields
<1>2. DOMAIN q = given
  BY <1>1
<1>3. /\ given \subseteq {"scope", "sort", "page_size", "search", "min_liquidity",
                           "orderbook_only", "category"}
      /\ {"scope", "sort", "page_size"} \subseteq given
      /\ "search" \in given <=> filter["search"] # ""
      /\ "min_liquidity" \in given <=> filter["min_liquidity"] # ""
      /\ "category" \in given <=> filter.categories # <<>>
  OBVIOUS
<1>4. "orderbook_only" \in given <=> filter["orderbook_only"]
  OBVIOUS
<1> HIDE DEF given, q
<1>5. /\ \A key \in {"scope", "sort", "search", "min_liquidity"} :
           key \in given => q[key] = <<filter[key]>>
      /\ q["page_size"] = <<TextOf(filter.page_size)>>
      /\ "category" \in given => q["category"] = filter.categories
      /\ "orderbook_only" \in given => q["orderbook_only"] = <<"true">>
  BY <1>1, <1>3
<1> QED
  BY <1>2, <1>3, <1>4, <1>5 DEF q

LEMMA SingletonText ==
  ASSUME NEW S, NEW x \in S
  PROVE  <<x>> \in Seq(S)
OBVIOUS

LEMMA ButtonRequest ==
  ASSUME NEW filter \in Filters
  PROVE  RequestOK(SavedViewFields(filter))
<1> DEFINE q == SavedViewFields(filter)
<1>1. /\ filter.scope \in STRING /\ filter.sort \in STRING /\ filter.search \in STRING
      /\ filter.min_liquidity \in Minimums /\ filter.categories \in Seq(STRING)
      /\ TextOf(filter.page_size) \in Whole
  <2>1. Scopes \subseteq STRING /\ Sorts \subseteq STRING
    BY WordsAreTexts DEF Scopes, Sorts
  <2>2. filter.scope \in Scopes /\ filter.sort \in Sorts /\ filter.page_size \in Sizes
    BY DEF Filters
  <2>3. filter.search \in STRING /\ filter.min_liquidity \in Minimums /\ filter.categories \in Seq(STRING)
    BY DEF Filters
  <2> QED
    BY <2>1, <2>2, <2>3, SizesAreClipped
<1>2. /\ \A text \in Numbers : text \in STRING
      /\ \A text \in Whole : text \in Numbers
  BY NumbersAreNoWords DEF Numbers
<1>3. "true" \in STRING
  BY WordsAreTexts
<1>4. \A text \in STRING : <<text>> \in Seq(STRING) \ {<<>>} /\ DOMAIN <<text>> = {1} /\ <<text>>[1] = text
  <2> SUFFICES ASSUME NEW text \in STRING
               PROVE  <<text>> \in Seq(STRING) \ {<<>>} /\ DOMAIN <<text>> = {1} /\ <<text>>[1] = text
    OBVIOUS
  <2>1. <<text>> \in Seq(STRING)
    BY SingletonText
  <2>2. Len(<<text>>) = 1 /\ <<text>> # <<>>
    OBVIOUS
  <2>3. DOMAIN <<text>> = {1} /\ <<text>>[1] = text
    OBVIOUS
  <2> QED
    BY <2>1, <2>2, <2>3
<1>5. ASSUME NEW key \in DOMAIN q
      PROVE  /\ q[key] \in Seq(STRING) \ {<<>>}
             /\ \A i \in DOMAIN q[key] :
                  /\ key \in {"page_size", "limit"} => q[key][i] \in Whole
                  /\ key = "min_liquidity" => q[key][i] \in Numbers
  <2>0. key \in {"scope", "sort", "page_size", "search", "min_liquidity", "orderbook_only",
                 "category"}
    BY ButtonFields
  <2>1. CASE key \in {"scope", "sort", "search"}
    <3>1. q[key] = <<filter[key]>> /\ filter[key] \in STRING
      BY <1>1, <2>1, ButtonFields
    <3> HIDE DEF q
    <3>2. key \notin {"page_size", "limit", "min_liquidity"}
      BY <2>1
    <3> QED
      BY <1>4, <3>1, <3>2
  <2>2. CASE key = "page_size"
    <3> DEFINE text == TextOf(filter.page_size)
    <3>0. text \in Whole /\ text \in STRING
      BY <1>1, <1>2
    <3>1. q[key] = <<text>> /\ text \in STRING /\ text \in Whole
      BY <2>2, <3>0, ButtonFields
    <3> HIDE DEF text, q
    <3> QED
      BY <1>4, <2>2, <3>1
  <2>3. CASE key = "min_liquidity"
    <3> DEFINE text == filter.min_liquidity
    <3>1. q[key] = <<text>> /\ text # "" /\ text \in Minimums
      BY <1>1, <2>3, ButtonFields
    <3>2. text \in Numbers
      BY <3>1 DEF Minimums
    <3> HIDE DEF text, q
    <3> QED
      BY <1>2, <1>4, <2>3, <3>1, <3>2, ZenonT(60)
  <2>4. CASE key = "orderbook_only"
    <3>1. q[key] = <<"true">>
      BY <2>4, ButtonFields
    <3> HIDE DEF q
    <3> QED
      BY <1>3, <1>4, <2>4, <3>1
  <2>5. CASE key = "category"
    <3>1. q[key] = filter.categories /\ filter.categories # <<>>
      BY <2>5, ButtonFields
    <3> HIDE DEF q
    <3> QED
      BY <1>1, <2>5, <3>1
  <2> QED
    BY <2>0, <2>1, <2>2, <2>3, <2>4, <2>5
<1>6. "categories" \notin DOMAIN q /\ "limit" \notin DOMAIN q
  BY ButtonFields
<1> HIDE DEF q
<1>7. RequestOK(q)
  BY <1>5, <1>6 DEF RequestOK, TextsOK
<1> QED
  BY <1>7 DEF q

\* The button sends the filter on the page.
LEMMA ButtonFilter ==
  ASSUME NEW filter \in Filters
  PROVE  CatalogueFilter(SavedViewFields(filter)) = filter
<1> DEFINE q == SavedViewFields(filter)
           f == CatalogueFilter(q)
<1>1. f \in Filters
  BY ButtonRequest, FilterTyped DEF RequestOK
<1>2. \A text : Len(<<text>>) = 1 /\ <<text>>[1] = text
  OBVIOUS
<1>3. ASSUME NEW key, NEW text, NEW default, key \in DOMAIN q, q[key] = <<text>>
      PROVE  query_value(q, key, default) = text
  <2> HIDE DEF q
  <2> QED
    BY <1>2, <1>3 DEF query_value
<1>4. \A key, default : key \notin DOMAIN q => query_value(q, key, default) = default
  BY DEF query_value
<1>5. f.scope = filter.scope
  <2>1. query_value(q, "active", "1") = "1"
    <3>1. "active" \notin DOMAIN q
      BY ButtonFields
    <3> QED
      BY <1>4, <3>1
  <2>2. query_value(q, "scope", "active") = filter.scope
    <3>1. "scope" \in DOMAIN q /\ q["scope"] = <<filter.scope>>
      BY ButtonFields
    <3> QED
      BY <1>3, <3>1
  <2>3. filter.scope \in Scopes
    BY DEF Filters
  <2> QED
    BY <2>1, <2>2, <2>3, CatalogueSchema DEF CatalogueFilter
<1>6. f.sort = filter.sort
  <2>1. query_value(q, "sort", "liquidity_desc") = filter.sort
    <3>1. "sort" \in DOMAIN q /\ q["sort"] = <<filter.sort>>
      BY ButtonFields
    <3> QED
      BY <1>3, <3>1
  <2>2. filter.sort \in Sorts
    BY DEF Filters
  <2> QED
    BY <2>1, <2>2, CatalogueSchema DEF CatalogueFilter
<1>7. f.search = filter.search
  <2>1. f.search = query_value(q, "search", "")
    BY DEF CatalogueFilter
  <2>2. /\ "search" \in DOMAIN q <=> filter.search # ""
        /\ "search" \in DOMAIN q => q["search"] = <<filter.search>>
    BY ButtonFields
  <2> HIDE DEF q, f
  <2> QED
    BY <1>3, <1>4, <2>1, <2>2
<1>8. f.min_liquidity = filter.min_liquidity
  <2>1. f.min_liquidity = IF "min_liquidity" \in DOMAIN q
                          THEN AsFloat(query_value(q, "min_liquidity", "")) ELSE ""
    BY DEF CatalogueFilter
  <2>2. /\ "min_liquidity" \in DOMAIN q <=> filter.min_liquidity # ""
        /\ "min_liquidity" \in DOMAIN q => q["min_liquidity"] = <<filter.min_liquidity>>
    BY ButtonFields
  <2>3. filter.min_liquidity # "" => AsFloat(filter.min_liquidity) = filter.min_liquidity
    BY DEF Filters, Minimums
  <2> HIDE DEF q, f
  <2> QED
    BY <1>3, <2>1, <2>2, <2>3
<1>9. f.categories = filter.categories
  <2>1. f.categories = IF "category" \in DOMAIN q THEN q["category"] ELSE <<>>
    BY DEF CatalogueFilter
  <2> QED
    BY <2>1, ButtonFields
<1>10. f.page_size = filter.page_size
  <2> DEFINE text == TextOf(filter.page_size)
  <2>1. filter.page_size \in Sizes
    BY DEF Filters
  <2>2. NumberTexts[text] = filter.page_size /\ ClippedSize(filter.page_size) = filter.page_size
        /\ filter.page_size \in Int /\ filter.page_size >= 1
    BY <2>1, SizesAreClipped
  <2>3. "page_size" \in DOMAIN q /\ q["page_size"] = <<text>>
    BY ButtonFields
  <2> HIDE DEF text
  <2>4. SizeGiven(q, "page_size") = filter.page_size
    <3>1. query_value(q, "page_size", "") = text
      BY <1>3, <2>3
    <3> QED
      BY <2>2, <2>3, <3>1 DEF SizeGiven
  <2>5. page_size(q) = ClippedSize(filter.page_size)
    BY <2>2, <2>4, PageSizeOf
  <2> QED
    BY <2>2, <2>5 DEF CatalogueFilter
<1>11. f.orderbook_only <=> filter.orderbook_only
  <2>1. f.orderbook_only = (query_value(q, "orderbook_only", "false") \in {"1", "true", "yes"})
    BY DEF CatalogueFilter
  <2>2. /\ "orderbook_only" \in DOMAIN q <=> filter.orderbook_only
        /\ "orderbook_only" \in DOMAIN q => q["orderbook_only"] = <<"true">>
    BY ButtonFields
  <2> HIDE DEF q, f
  <2>3. f.orderbook_only <=> query_value(q, "orderbook_only", "false") \in {"1", "true", "yes"}
    BY <2>1
  <2>4. CASE "orderbook_only" \in DOMAIN q
    <3>1. query_value(q, "orderbook_only", "false") = "true"
      BY <1>3, <2>2, <2>4
    <3> QED
      BY <2>2, <2>3, <2>4, <3>1
  <2>5. CASE "orderbook_only" \notin DOMAIN q
    <3>1. query_value(q, "orderbook_only", "false") = "false"
      BY <1>4, <2>5
    <3> QED
      BY <2>2, <2>3, <2>5, <3>1
  <2> QED
    BY <2>4, <2>5
<1> HIDE DEF f, q
<1>12. f.orderbook_only = filter.orderbook_only
  BY <1>1, <1>11 DEF Filters
<1>13. f = filter
  BY <1>1, <1>5, <1>6, <1>7, <1>8, <1>9, <1>10, <1>12 DEF Filters
<1> QED
  BY <1>13 DEF f, q

\* The parameters the button makes, when none of its fields is one the code loses.
LEMMA ButtonAccepted ==
  ASSUME NEW filter \in Filters,
         Len(filter.categories) # 1,
         \A i \in DOMAIN filter.categories : Coerced(filter.categories[i]).type = "str",
         Coerced(filter.search).type = "str",
         filter.min_liquidity \notin BelowZero \cup (DOMAIN FloatTexts \ PointTexts)
  PROVE  validate("markets_catalog", QueryParams("markets_catalog", SavedViewFields(filter)))
<1> DEFINE q == SavedViewFields(filter)
           P == QueryParams("markets_catalog", q)
<1>1. RequestOK(q) /\ TextsOK(q)
  BY ButtonRequest DEF RequestOK
<1>2. DOMAIN P = {ParamKey("markets_catalog", key) : key \in DOMAIN q}
      /\ \A key \in DOMAIN q : P[ParamKey("markets_catalog", key)] = QueryParam(q[key])
  BY <1>1, QueryParamsFields
<1>3. ASSUME NEW key, NEW text, key \in DOMAIN q, q[key] = <<text>>
      PROVE  LET value == QueryParam(q[key])
             IN  ValueOK(value) /\ ~value.list /\ value.items[1] = Coerced(text) /\ text \in STRING
  <2>1. q[key] \in Seq(STRING) \ {<<>>}
    BY <1>1, <1>3 DEF TextsOK
  <2>2. Len(q[key]) = 1 /\ q[key][1] = text
    BY <1>3
  <2>3. text \in STRING
    BY <2>1, <2>2
  <2> DEFINE value == QueryParam(q[key])
  <2>4. ValueOK(value) /\ (value.list <=> Len(q[key]) > 1)
        /\ \A i \in 1..Len(q[key]) : value.items[i] = Coerced(q[key][i])
    BY <2>1, QueryParamValue
  <2> HIDE DEF value, q
  <2>5. ~value.list
    BY <2>2, <2>4
  <2>6. value.items[1] = Coerced(text)
    BY <2>2, <2>4
  <2> QED
    BY <2>3, <2>4, <2>5, <2>6 DEF value
<1>4. ASSUME NEW key \in DOMAIN q
      PROVE  ValidParam("markets_catalog", ParamKey("markets_catalog", key), QueryParam(q[key]))
  <2> DEFINE value == QueryParam(q[key])
  <2>0. key \in {"scope", "sort", "page_size", "search", "min_liquidity", "orderbook_only",
                 "category"}
    BY ButtonFields
  <2>1. CASE key \in {"scope", "sort"}
    <3>1. q[key] = <<filter[key]>> /\ ParamKey("markets_catalog", key) = key
      BY <2>1, ButtonFields, ParamKeys
    <3>2. filter[key] \in IF key = "scope" THEN Scopes ELSE Sorts
      BY <2>1 DEF Filters
    <3>3. ValueOK(value) /\ ~value.list /\ value.items[1] = Coerced(filter[key])
      BY <1>3, <3>1
    <3>4. Coerced(filter[key]) = Item("str", filter[key])
      BY <3>2, CoercedWord
    <3> HIDE DEF value
    <3>5. value.items[1].type = "str" /\ value.items[1].text = filter[key]
      BY <3>3, <3>4 DEF Item
    <3>6. ValidParam("markets_catalog", key, value)
      BY <2>1, <3>2, <3>3, <3>5, CatalogueParams
    <3> QED
      BY <3>1, <3>6 DEF value
  <2>2. CASE key = "page_size"
    <3> DEFINE text == TextOf(filter.page_size)
    <3>1. q[key] = <<text>> /\ ParamKey("markets_catalog", key) = key
      BY <2>2, ButtonFields, ParamKeys
    <3>2. filter.page_size \in Sizes
      BY DEF Filters
    <3>3. text \in Whole /\ NumberTexts[text] \in Int /\ NumberTexts[text] >= 1
      BY <3>2, SizesAreClipped
    <3> HIDE DEF text
    <3>4. Coerced(text).type = "int" /\ Coerced(text).text = text
      BY <3>3, CoercedNumber DEF Numbers
    <3>5. ValueOK(value) /\ ~value.list /\ value.items[1] = Coerced(text)
      BY <1>3, <3>1
    <3>6. AtLeast(Coerced(text), 1)
      BY <3>3, <3>4 DEF AtLeast
    <3> HIDE DEF value
    <3>7. ValidParam("markets_catalog", key, value)
      BY <2>2, <3>4, <3>5, <3>6, CatalogueParams
    <3> QED
      BY <3>1, <3>7 DEF value
  <2>3. CASE key = "search"
    <3>1. q[key] = <<filter.search>> /\ ParamKey("markets_catalog", key) = key
      BY <2>3, ButtonFields, ParamKeys
    <3>2. ValueOK(value) /\ ~value.list /\ value.items[1] = Coerced(filter.search)
      BY <1>3, <3>1
    <3> HIDE DEF value
    <3>3. ValidParam("markets_catalog", key, value)
      BY <2>3, <3>2, CatalogueParams
    <3> QED
      BY <3>1, <3>3 DEF value
  <2>4. CASE key = "min_liquidity"
    <3> DEFINE text == filter.min_liquidity
    <3>1. q[key] = <<text>> /\ ParamKey("markets_catalog", key) = key /\ text # ""
      BY <2>4, ButtonFields, ParamKeys
    <3>2. text \in Numbers
      BY <3>1 DEF Filters, Minimums
    <3>3. ValueOK(value) /\ ~value.list /\ value.items[1] = Coerced(text)
      BY <1>3, <3>1
    <3>4. text \notin BelowZero /\ (text \in Whole \/ text \in PointTexts)
      BY <3>2 DEF Numbers
    <3> HIDE DEF text
    <3>5. Coerced(text).type \in {"int", "float"} /\ AtLeast(Coerced(text), 0)
      <4>1. CASE text \in PointTexts
        <5>1. Coerced(text).type = "float" /\ Coerced(text).text \notin BelowZero
          BY <3>2, <3>4, <4>1, CoercedNumber
        <5> QED
          BY <5>1 DEF AtLeast
      <4>2. CASE text \in Whole
        <5>1. NumberTexts[text] \in Int /\ ~(NumberTexts[text] < 0)
          BY <3>4, <4>2, PointsAreNumbers, Zenon
        <5>2. NumberTexts[text] >= 0
          BY <5>1
        <5>3. Coerced(text).type = "int" /\ Coerced(text).text = text
          BY <3>2, <4>2, <5>2, CoercedNumber
        <5> QED
          BY <5>2, <5>3 DEF AtLeast
      <4> QED
        BY <3>4, <4>1, <4>2
    <3> HIDE DEF value
    <3>6. ValidParam("markets_catalog", key, value)
      BY <2>4, <3>3, <3>5, CatalogueParams
    <3> QED
      BY <3>1, <3>6 DEF value
  <2>5. CASE key = "orderbook_only"
    <3>1. q[key] = <<"true">> /\ ParamKey("markets_catalog", key) = key
      BY <2>5, ButtonFields, ParamKeys
    <3>2. ValueOK(value) /\ ~value.list /\ value.items[1] = Coerced("true")
      BY <1>3, <3>1
    <3> HIDE DEF value
    <3>3. value.items[1].type = "bool"
      BY <3>2, CoercedWord DEF Item
    <3>4. ValidParam("markets_catalog", key, value)
      BY <2>5, <3>2, <3>3, CatalogueParams
    <3> QED
      BY <3>1, <3>4 DEF value
  <2>6. CASE key = "category"
    <3> DEFINE texts == filter.categories
    <3>1. q[key] = texts /\ ParamKey("markets_catalog", key) = "categories" /\ texts # <<>>
      BY <2>6, ButtonFields, ParamKeys
    <3>2. texts \in Seq(STRING)
      BY DEF Filters
    <3>3. Len(texts) \in Nat \ {0} /\ DOMAIN texts = 1..Len(texts) /\ texts \in Seq(STRING) \ {<<>>}
      BY <3>1, <3>2
    <3>4. Len(texts) # 1 /\ \A i \in DOMAIN texts : Coerced(texts[i]).type = "str"
      OBVIOUS
    <3> HIDE DEF texts
    <3>5. Len(texts) > 1
      BY <3>3, <3>4
    <3>6. /\ ValueOK(value) /\ (value.list <=> Len(texts) > 1) /\ Len(value.items) = Len(texts)
          /\ \A i \in 1..Len(texts) : value.items[i] = Coerced(texts[i])
      BY <3>1, <3>3, QueryParamValue
    <3> HIDE DEF value
    <3>7. value.list
      BY <3>5, <3>6
    <3>8. DOMAIN value.items = 1..Len(texts)
      <4>1. value.items \in Seq(Items)
        BY <3>6 DEF ValueOK, Items
      <4> QED
        BY <3>6, <4>1
    <3>9. \A i \in DOMAIN value.items : value.items[i].type = "str"
      BY <3>3, <3>4, <3>6, <3>8
    <3>10. ValidParam("markets_catalog", "categories", value)
      BY <3>6, <3>7, <3>9, CatalogueParams
    <3> QED
      BY <3>1, <3>10 DEF value
  <2> QED
    BY <2>0, <2>1, <2>2, <2>3, <2>4, <2>5, <2>6
<1>5. \A p \in DOMAIN P : ValidParam("markets_catalog", p, P[p])
  <2> SUFFICES ASSUME NEW p \in DOMAIN P
               PROVE  ValidParam("markets_catalog", p, P[p])
    OBVIOUS
  <2>1. PICK key \in DOMAIN q : p = ParamKey("markets_catalog", key)
    BY <1>2
  <2> QED
    BY <1>2, <1>4, <2>1
<1>6. DOMAIN P \subseteq CatalogueKeys
  <2>1. \A key \in DOMAIN q : ParamKey("markets_catalog", key) \in CatalogueKeys
    <3> SUFFICES ASSUME NEW key \in DOMAIN q
                 PROVE  ParamKey("markets_catalog", key) \in CatalogueKeys
      OBVIOUS
    <3>1. key \in {"scope", "sort", "page_size", "search", "min_liquidity", "orderbook_only",
                   "category"}
      BY ButtonFields
    <3> QED
      BY <3>1, ParamKeys DEF CatalogueKeys
  <2> QED
    BY <1>2, <2>1
<1> HIDE DEF P, q
<1>7. validate("markets_catalog", P)
  BY <1>5, <1>6, CatalogueSchema DEF validate
<1> QED
  BY <1>7 DEF P, q

(***************************************************************************)
(* An edit of a catalogue view: the fields of the request over what the    *)
(* view was meant for.                                                     *)
(***************************************************************************)
LEMMA OverlaidFields ==
  ASSUME NEW new, NEW old
  PROVE  /\ DOMAIN Overlaid(new, old) = DOMAIN new \cup DOMAIN old
         /\ \A key \in DOMAIN new : Overlaid(new, old)[key] = new[key]
         /\ \A key \in DOMAIN old \ DOMAIN new : Overlaid(new, old)[key] = old[key]
         /\ \A key \in DOMAIN Overlaid(new, old) :
              \/ key \in DOMAIN new /\ Overlaid(new, old)[key] = new[key]
              \/ key \in DOMAIN old /\ Overlaid(new, old)[key] = old[key]
BY DEF Overlaid

LEMMA OverlaidValues ==
  ASSUME NEW new, NEW old,
         \A key \in DOMAIN new : ValueOK(new[key]), \A key \in DOMAIN old : ValueOK(old[key])
  PROVE  \A key \in DOMAIN Overlaid(new, old) : ValueOK(Overlaid(new, old)[key])
<1> DEFINE M == Overlaid(new, old)
<1>1. \A key \in DOMAIN M : (key \in DOMAIN new /\ M[key] = new[key])
                             \/ (key \in DOMAIN old /\ M[key] = old[key])
  BY OverlaidFields, ZenonT(60)
<1> HIDE DEF M
<1>2. \A key \in DOMAIN M : ValueOK(M[key])
  BY <1>1
<1> QED
  BY <1>2 DEF M

LEMMA OverlaidParams ==
  ASSUME NEW new, NEW old, ParamsOK(new), ParamsOK(old)
  PROVE  ParamsOK(Overlaid(new, old))
<1> DEFINE M == Overlaid(new, old)
<1>1. DOMAIN M = DOMAIN new \cup DOMAIN old
  BY OverlaidFields
<1>2. \A key \in DOMAIN M : (key \in DOMAIN new /\ M[key] = new[key])
                             \/ (key \in DOMAIN old /\ M[key] = old[key])
  BY OverlaidFields, ZenonT(60)
<1> HIDE DEF M
<1>3. "limit" \notin DOMAIN M
  BY <1>1 DEF ParamsOK
<1>4. ASSUME NEW key \in DOMAIN M
      PROVE  /\ ValueOK(M[key]) /\ M[key].items # <<>>
             /\ \A i \in DOMAIN M[key].items :
                  /\ key = "page_size" => M[key].items[i].text \in Whole
                  /\ key = "min_liquidity" =>
                       M[key].items[i].text \in Numbers
  <2>1. CASE key \in DOMAIN new /\ M[key] = new[key]
    BY <2>1 DEF ParamsOK
  <2>2. CASE key \in DOMAIN old /\ M[key] = old[key]
    BY <2>2 DEF ParamsOK
  <2> QED
    BY <1>2, <2>1, <2>2
<1>5. ParamsOK(M)
  BY <1>3, <1>4 DEF ParamsOK
<1> QED
  BY <1>5 DEF M

LEMMA OverlaidTexts ==
  ASSUME NEW new, NEW old, TextsOK(new), TextsOK(old)
  PROVE  TextsOK(Overlaid(new, old))
<1> DEFINE M == Overlaid(new, old)
<1>1. \A key \in DOMAIN M : (key \in DOMAIN new /\ M[key] = new[key])
                             \/ (key \in DOMAIN old /\ M[key] = old[key])
  BY OverlaidFields, ZenonT(60)
<1> HIDE DEF M
<1>2. ASSUME NEW key \in DOMAIN M
      PROVE  /\ M[key] \in Seq(STRING) \ {<<>>}
             /\ \A i \in DOMAIN M[key] :
                  /\ key \in {"page_size", "limit"} => M[key][i] \in Whole
                  /\ key = "min_liquidity" => M[key][i] \in Numbers
  <2>1. CASE key \in DOMAIN new /\ M[key] = new[key]
    BY <2>1 DEF TextsOK
  <2>2. CASE key \in DOMAIN old /\ M[key] = old[key]
    BY <2>2 DEF TextsOK
  <2> QED
    BY <1>1, <2>1, <2>2
<1>3. TextsOK(M)
  BY <1>2 DEF TextsOK
<1> QED
  BY <1>3 DEF M

\* The fields an edit keeps of what the view was meant for.
Kept(fields, given) ==
  [key \in {key \in DOMAIN fields : ParamKey("markets_catalog", key) \notin DOMAIN given} |->
     fields[key]]

LEMMA KeptFields ==
  ASSUME NEW fields, NEW given
  PROVE  /\ \A key : key \in DOMAIN Kept(fields, given) <=>
                key \in DOMAIN fields /\ ParamKey("markets_catalog", key) \notin DOMAIN given
         /\ \A key \in DOMAIN Kept(fields, given) : Kept(fields, given)[key] = fields[key]
BY DEF Kept

LEMMA KeptTexts ==
  ASSUME NEW fields, NEW given, TextsOK(fields)
  PROVE  TextsOK(Kept(fields, given))
BY KeptFields DEF TextsOK

Default(key) ==
  IF key = "scope" THEN "active" ELSE IF key = "sort" THEN "liquidity_desc" ELSE ""

LEMMA EditFilterTyped ==
  ASSUME NEW meant \in Filters, NEW query, RequestOK(query), NEW given
  PROVE  CatalogueFilter(Overlaid(query, Kept(SavedViewFields(meant), given))) \in Filters
<1>1. TextsOK(query) /\ TextsOK(SavedViewFields(meant))
  BY ButtonRequest DEF RequestOK
<1>2. TextsOK(Overlaid(query, Kept(SavedViewFields(meant), given)))
  BY <1>1, KeptTexts, OverlaidTexts
<1> QED
  BY <1>2, FilterTyped

LEMMA EditFilter ==
  ASSUME NEW params, ParamsOK(params), NEW meant \in Filters, FieldsAgree(params, meant),
         NEW query, RequestOK(query),
         validate("markets_catalog", Overlaid(QueryParams("markets_catalog", query), params))
  PROVE  FieldsAgree(Overlaid(QueryParams("markets_catalog", query), params),
                     CatalogueFilter(Overlaid(query, Kept(SavedViewFields(meant),
                                                          QueryParams("markets_catalog", query)))))
<1> DEFINE given == QueryParams("markets_catalog", query)
           fields == SavedViewFields(meant)
           kept == Kept(fields, given)
           Q == Overlaid(query, kept)
           M == Overlaid(given, params)
           f == CatalogueFilter(Q)
<1>1. /\ DOMAIN M \subseteq CatalogueKeys
      /\ \A key \in DOMAIN M : ValidParam("markets_catalog", key, M[key])
  BY ValidParams
<1>2. /\ DOMAIN M = DOMAIN given \cup DOMAIN params
      /\ \A key \in DOMAIN given : M[key] = given[key]
      /\ \A key \in DOMAIN params \ DOMAIN given : M[key] = params[key]
  BY OverlaidFields
<1>3. /\ DOMAIN Q = DOMAIN query \cup DOMAIN kept
      /\ \A key \in DOMAIN query : Q[key] = query[key]
      /\ \A key \in DOMAIN kept \ DOMAIN query : Q[key] = fields[key]
  <2>1. /\ DOMAIN Q = DOMAIN query \cup DOMAIN kept
        /\ \A key \in DOMAIN query : Q[key] = query[key]
        /\ \A key \in DOMAIN kept \ DOMAIN query : Q[key] = kept[key]
    <3> HIDE DEF kept, given, fields
    <3> QED
      BY OverlaidFields, ZenonT(60)
  <2>2. \A key \in DOMAIN kept : kept[key] = fields[key]
    BY KeptFields
  <2> HIDE DEF Q, kept, fields
  <2> QED
    BY <2>1, <2>2
<1>4. DOMAIN given = {ParamKey("markets_catalog", key) : key \in DOMAIN query}
  BY QueryParamsFields
<1>5. /\ \A key \in {"scope", "sort", "search", "min_liquidity", "active"} :
           key \in DOMAIN given <=> key \in DOMAIN query
      /\ "categories" \in DOMAIN given <=> "category" \in DOMAIN query
      /\ "page_size" \in DOMAIN given <=> DOMAIN query \cap {"page_size", "limit"} # {}
  BY <1>4, ParamKeys DEF RequestOK
<1>6. /\ \A key \in {"scope", "sort", "search", "min_liquidity", "active"} :
           key \in DOMAIN kept <=> key \in DOMAIN fields /\ key \notin DOMAIN query
      /\ "category" \in DOMAIN kept <=> "category" \in DOMAIN fields /\ "category" \notin DOMAIN query
      /\ "page_size" \in DOMAIN kept <=> "page_size" \in DOMAIN fields /\ "page_size" \notin DOMAIN given
      /\ "limit" \notin DOMAIN kept
  <2>1. \A key : key \in DOMAIN kept <=>
           key \in DOMAIN fields /\ ParamKey("markets_catalog", key) \notin DOMAIN given
    BY KeptFields
  <2>2. "limit" \notin DOMAIN fields
    BY ButtonFields
  <2> HIDE DEF kept, fields, given
  <2>3. \A key \in {"scope", "sort", "search", "min_liquidity", "active", "page_size"} :
           ParamKey("markets_catalog", key) = key
    BY ParamKeys
  <2>4. ParamKey("markets_catalog", "category") = "categories"
    BY ParamKeys
  <2> QED
    BY <1>5, <2>1, <2>2, <2>3, <2>4
<1>7. ParamsOK(M)
  BY RequestParamsOK, OverlaidParams
<1>8. \A key \in DOMAIN given : ValidParam("markets_catalog", key, given[key])
  BY <1>1, <1>2
<1>9. ASSUME NEW key \in {"scope", "sort", "search"}
      PROVE  query_value(Q, key, Default(key)) = Only(M, key, Default(key))
  <2>1. CASE key \in DOMAIN query
    <3>1. key \in DOMAIN given /\ ValidParam("markets_catalog", key, given[key])
      BY <1>5, <1>8, <2>1
    <3>2. query_value(query, key, Default(key)) = given[key].items[1].text
      BY <2>1, <3>1, RequestText
    <3>3. query_value(Q, key, Default(key)) = query_value(query, key, Default(key))
      BY <1>3, <2>1 DEF query_value
    <3>4. Only(M, key, Default(key)) = given[key].items[1].text
      BY <1>2, <3>1 DEF Only
    <3> QED
      BY <3>2, <3>3, <3>4
  <2>2. CASE key \notin DOMAIN query
    <3>1. key \notin DOMAIN given
      BY <1>5, <2>2
    <3>2. Only(M, key, Default(key)) = Only(params, key, Default(key))
      BY <1>2, <3>1 DEF Only
    <3>3. meant[key] = Only(params, key, Default(key))
      BY DEF FieldsAgree, Default
    <3>4. CASE key \in DOMAIN fields
      <4>1. fields[key] = <<meant[key]>>
        BY <3>4, ButtonFields
      <4>2. key \in DOMAIN Q /\ Q[key] = <<meant[key]>>
        BY <1>3, <1>6, <2>2, <3>4, <4>1
      <4>3. Len(Q[key]) = 1 /\ Q[key][1] = meant[key]
        BY <4>2
      <4>4. query_value(Q, key, Default(key)) = meant[key]
        BY <4>2, <4>3 DEF query_value
      <4> QED
        BY <3>2, <3>3, <4>4
    <3>5. CASE key \notin DOMAIN fields
      <4>1. key = "search" /\ meant[key] = ""
        BY <3>5, ButtonFields
      <4>2. key \notin DOMAIN Q
        BY <1>3, <1>6, <2>2, <3>5
      <4>3. query_value(Q, key, Default(key)) = ""
        BY <4>1, <4>2 DEF query_value, Default
      <4> QED
        BY <3>2, <3>3, <4>1, <4>3
    <3> QED
      BY <3>4, <3>5
  <2> QED
    BY <2>1, <2>2
<1>10. f.scope = Only(M, "scope", "active") /\ f.sort = Only(M, "sort", "liquidity_desc")
  <2>1. "active" \notin DOMAIN given
    BY <1>1, <1>2 DEF CatalogueKeys
  <2>2. "active" \notin DOMAIN fields
    BY ButtonFields
  <2>3. "active" \notin DOMAIN Q
    BY <1>3, <1>5, <1>6, <2>1, <2>2
  <2>4. query_value(Q, "scope", "active") = Only(M, "scope", "active")
    BY <1>9 DEF Default
  <2>5. query_value(Q, "sort", "liquidity_desc") = Only(M, "sort", "liquidity_desc")
    BY <1>9 DEF Default
  <2> HIDE DEF Q, M
  <2> QED
    BY <1>7, <2>3, <2>4, <2>5, ScopeAndSort DEF M
<1>11a. f.search = Only(M, "search", "")
  <2>1. query_value(Q, "search", "") = Only(M, "search", "")
    BY <1>9 DEF Default
  <2> HIDE DEF Q, M
  <2> QED
    BY <2>1 DEF CatalogueFilter
<1>11. f.min_liquidity = Minimum(M)
  <2>1. f.min_liquidity = IF "min_liquidity" \in DOMAIN Q
                          THEN AsFloat(query_value(Q, "min_liquidity", "")) ELSE ""
    BY DEF CatalogueFilter
  <2>2. CASE "min_liquidity" \in DOMAIN query
    <3>1. "min_liquidity" \in DOMAIN given
          /\ ValidParam("markets_catalog", "min_liquidity", given["min_liquidity"])
      BY <1>5, <1>8, <2>2
    <3>2. AsFloat(query_value(query, "min_liquidity", ""))
            = AsFloat(given["min_liquidity"].items[1].text)
      BY <2>2, <3>1, RequestText
    <3>3. "min_liquidity" \in DOMAIN Q
          /\ query_value(Q, "min_liquidity", "") = query_value(query, "min_liquidity", "")
      BY <1>3, <2>2 DEF query_value
    <3>4. Minimum(M) = AsFloat(given["min_liquidity"].items[1].text)
      BY <1>2, <3>1 DEF Minimum
    <3> HIDE DEF f, Q, M, given
    <3> QED
      BY <2>1, <3>2, <3>3, <3>4
  <2>3. CASE "min_liquidity" \notin DOMAIN query
    <3>1. "min_liquidity" \notin DOMAIN given
      BY <1>5, <2>3
    <3>2. Minimum(M) = Minimum(params)
      BY <1>2, <3>1 DEF Minimum
    <3>3. meant.min_liquidity = Minimum(params)
      BY DEF FieldsAgree
    <3>4. meant.min_liquidity # "" => AsFloat(meant.min_liquidity) = meant.min_liquidity
      BY DEF Filters, Minimums
    <3>5. /\ "min_liquidity" \in DOMAIN fields <=> meant.min_liquidity # ""
          /\ "min_liquidity" \in DOMAIN fields => fields["min_liquidity"] = <<meant.min_liquidity>>
      BY ButtonFields
    <3>6. /\ "min_liquidity" \in DOMAIN Q <=> "min_liquidity" \in DOMAIN fields
          /\ "min_liquidity" \in DOMAIN fields => Q["min_liquidity"] = fields["min_liquidity"]
      BY <1>3, <1>6, <2>3
    <3>7. "min_liquidity" \in DOMAIN fields =>
            query_value(Q, "min_liquidity", "") = meant.min_liquidity
      <4> SUFFICES ASSUME "min_liquidity" \in DOMAIN fields
                   PROVE  query_value(Q, "min_liquidity", "") = meant.min_liquidity
        OBVIOUS
      <4>1. "min_liquidity" \in DOMAIN Q /\ Q["min_liquidity"] = <<meant.min_liquidity>>
        BY <3>5, <3>6
      <4> HIDE DEF Q
      <4>2. Len(Q["min_liquidity"]) = 1 /\ Q["min_liquidity"][1] = meant.min_liquidity
        BY <4>1
      <4> QED
        BY <4>1, <4>2 DEF query_value
    <3> HIDE DEF f, Q, M, given, fields
    <3> QED
      BY <2>1, <3>2, <3>3, <3>4, <3>5, <3>6, <3>7
  <2> QED
    BY <2>2, <2>3
<1>12. f.categories = IF "categories" \in DOMAIN M THEN Texts(M["categories"]) ELSE <<>>
  <2>1. f.categories = IF "category" \in DOMAIN Q THEN Q["category"] ELSE <<>>
    BY DEF CatalogueFilter
  <2>2. CASE "category" \in DOMAIN query
    <3>1. "categories" \in DOMAIN given /\ ValidParam("markets_catalog", "categories", given["categories"])
      BY <1>5, <1>8, <2>2
    <3>2. Texts(given["categories"]) = query["category"]
      BY <2>2, <3>1, RequestCategories
    <3> HIDE DEF f, Q, M, given
    <3> QED
      BY <1>2, <1>3, <2>1, <2>2, <3>1, <3>2
  <2>3. CASE "category" \notin DOMAIN query
    <3>1. "categories" \notin DOMAIN given
      BY <1>5, <2>3
    <3>2. meant.categories = IF "categories" \in DOMAIN params THEN Texts(params["categories"]) ELSE <<>>
      BY DEF FieldsAgree
    <3>3. (IF "categories" \in DOMAIN M THEN Texts(M["categories"]) ELSE <<>>) = meant.categories
      BY <1>2, <3>1, <3>2
    <3>4. /\ "category" \in DOMAIN fields <=> meant.categories # <<>>
          /\ "category" \in DOMAIN fields => fields["category"] = meant.categories
      BY ButtonFields
    <3>5. /\ "category" \in DOMAIN Q <=> "category" \in DOMAIN fields
          /\ "category" \in DOMAIN fields => Q["category"] = fields["category"]
      BY <1>3, <1>6, <2>3
    <3> HIDE DEF f, Q, M, given, fields
    <3> QED
      BY <2>1, <3>3, <3>4, <3>5
  <2> QED
    BY <2>2, <2>3
<1>13. f.page_size = IF "page_size" \in DOMAIN M
                       THEN ClippedSize(NumberTexts[M["page_size"].items[1].text]) ELSE 20
  <2>1. f.page_size = page_size(Q)
    BY DEF CatalogueFilter
  <2>2. CASE "page_size" \in DOMAIN given
    <3>1. "page_size" \in DOMAIN M /\ M["page_size"] = given["page_size"]
      BY <1>2, <2>2
    <3>2. page_size(query) = ClippedSize(NumberTexts[given["page_size"].items[1].text])
      BY <1>8, <2>2, RequestPageSize
    <3>3. \A key \in {"page_size", "limit"} : SizeGiven(Q, key) = SizeGiven(query, key)
      <4> SUFFICES ASSUME NEW key \in {"page_size", "limit"}
                   PROVE  SizeGiven(Q, key) = SizeGiven(query, key)
        OBVIOUS
      <4>1. key \in DOMAIN Q <=> key \in DOMAIN query
        BY <1>3, <1>6, <2>2
      <4>2. key \in DOMAIN query => query_value(Q, key, "") = query_value(query, key, "")
        BY <1>3 DEF query_value
      <4> HIDE DEF Q
      <4> QED
        BY <4>1, <4>2 DEF SizeGiven
    <3>4. page_size(Q) = page_size(query)
      <4> HIDE DEF Q
      <4> QED
        BY <3>3, PageSizeOf
    <3> HIDE DEF f, Q, M, given
    <3> QED
      BY <2>1, <3>1, <3>2, <3>4
  <2>3. CASE "page_size" \notin DOMAIN given
    <3>1. meant.page_size \in Sizes
      BY DEF Filters
    <3> DEFINE text == TextOf(meant.page_size)
    <3>2. NumberTexts[text] = meant.page_size /\ ClippedSize(meant.page_size) = meant.page_size
          /\ meant.page_size \in Int /\ meant.page_size >= 1
      BY <3>1, SizesAreClipped
    <3>3. "page_size" \in DOMAIN fields /\ fields["page_size"] = <<text>>
      BY ButtonFields
    <3>4. "page_size" \in DOMAIN Q /\ Q["page_size"] = <<text>>
      BY <1>3, <1>5, <1>6, <2>3, <3>3
    <3> HIDE DEF text, Q
    <3>5. query_value(Q, "page_size", "") = text
      <4>1. Len(Q["page_size"]) = 1 /\ Q["page_size"][1] = text
        BY <3>4
      <4> QED
        BY <3>4, <4>1 DEF query_value
    <3>6. SizeGiven(Q, "page_size") = meant.page_size
      BY <3>2, <3>4, <3>5 DEF SizeGiven
    <3>7. page_size(Q) = meant.page_size
      BY <3>2, <3>6, PageSizeOf
    <3>8. meant.page_size = IF "page_size" \in DOMAIN params
                              THEN ClippedSize(NumberTexts[params["page_size"].items[1].text]) ELSE 20
      BY DEF FieldsAgree
    <3>9. /\ "page_size" \in DOMAIN M <=> "page_size" \in DOMAIN params
          /\ "page_size" \in DOMAIN params => M["page_size"] = params["page_size"]
      BY <1>2, <2>3
    <3> HIDE DEF f, M, given
    <3> QED
      BY <2>1, <3>7, <3>8, <3>9
  <2> QED
    BY <2>2, <2>3
<1> HIDE DEF f, M, Q
<1>14. FieldsAgree(M, f)
  BY <1>10, <1>11, <1>11a, <1>12, <1>13 DEF FieldsAgree
<1> QED
  BY <1>14 DEF f, M, Q

-------------------------------------------------------------------------------
(***************************************************************************)
(* ViewsInv: every view is one its kind allows, and a view of the          *)
(* catalogue has the parameters of the filter it was meant for; every      *)
(* request shows a filter, was refused for its filter's parameters, or     *)
(* will write such a view if it writes at all.                             *)
(***************************************************************************)
ViewOK(view) ==
  /\ view.kind \in DOMAIN SCHEMAS
  /\ validate(view.kind, view.params)
  /\ \A key \in DOMAIN view.params : ValueOK(view.params[key])
  /\ view.kind = "markets_catalog" =>
       ParamsOK(view.params) /\ view.meant \in Filters /\ FieldsAgree(view.params, view.meant)

ViewToWrite(r) == [kind |-> r.kind, params |-> r.params, meant |-> r.meant]

ViewRequestOK(r) ==
  \/ r = NoViewRequest
  \/ r.at = "page" /\ r.filter \in Filters
  \/ /\ r.at = "refused" /\ r.filter \in Filters
     /\ ~validate("markets_catalog", QueryParams("markets_catalog", SavedViewFields(r.filter)))
  \/ /\ r.at = "write"
     /\ validate(r.kind, r.params) => ViewOK(ViewToWrite(r))

ViewsInv ==
  /\ DOMAIN saved_views = ViewNames
  /\ \A name \in ViewNames : saved_views[name] = NoView \/ ViewOK(saved_views[name])
  /\ DOMAIN viewRequest = ViewUsers
  /\ \A u \in ViewUsers : ViewRequestOK(viewRequest[u])

LEMMA EmptyRequest == RequestOK(<<>>)
<1>1. \A key : key \notin DOMAIN <<>>
  OBVIOUS
<1> QED
  BY <1>1 DEF RequestOK, TextsOK

(***************************************************************************)
(* What a stored view shows.                                               *)
(***************************************************************************)
LEMMA CatalogueViewShown ==
  ASSUME NEW view, ViewOK(view), view.kind = "markets_catalog", DOMAIN view.params # {}
  PROVE  CatalogueFilter(ResolvedQuery(ViewQuery(view)))
           = [view.meant EXCEPT !.orderbook_only = FALSE]
<1> DEFINE q == ViewQuery(view)
<1>1. ParamsOK(view.params) /\ view.meant \in Filters /\ FieldsAgree(view.params, view.meant)
      /\ validate("markets_catalog", view.params)
  BY DEF ViewOK
<1>2. DOMAIN view.params \subseteq CatalogueKeys
  BY <1>1, ValidParams
<1>3. DOMAIN q = {IF param = "categories" THEN "category" ELSE param : param \in DOMAIN view.params}
  BY <1>2, ViewQueryFields DEF CatalogueKeys
<1> HIDE DEF q
<1>4. "reset" \notin DOMAIN q
  BY <1>2, <1>3 DEF CatalogueKeys
<1>5. query_value(q, "reset", "") = ""
  BY <1>4 DEF query_value
<1>6. DOMAIN q \cap {"scope", "category", "search", "min_liquidity", "orderbook_only", "sort",
                     "limit", "page", "page_size"} # {}
  <2>1. PICK param \in DOMAIN view.params : TRUE
    OBVIOUS
  <2> DEFINE key == IF param = "categories" THEN "category" ELSE param
  <2>2. key \in DOMAIN q
    BY <1>3
  <2>3. key \in {"scope", "category", "search", "min_liquidity", "orderbook_only", "sort", "limit",
                 "page", "page_size"}
    BY <1>2 DEF CatalogueKeys
  <2> QED
    BY <2>2, <2>3
<1>7. ResolvedQuery(q) = q
  BY <1>5, <1>6 DEF ResolvedQuery
<1> QED
  BY <1>1, <1>7, ViewShowsItsFilter DEF q

LEMMA ResolvedTexts ==
  ASSUME NEW query, TextsOK(query),
         \/ saved_views[CATALOG_DEFAULT_VIEW] = NoView \/ ViewOK(saved_views[CATALOG_DEFAULT_VIEW])
  PROVE  TextsOK(ResolvedQuery(query))
<1> DEFINE saved == saved_views[CATALOG_DEFAULT_VIEW]
<1>1. TextsOK(<<>>)
  BY EmptyRequest DEF RequestOK
<1>2. saved.kind = "markets_catalog" => ViewOK(saved)
  BY DEF NoView
<1>3. \/ ResolvedQuery(query) = <<>>
      \/ ResolvedQuery(query) = query
      \/ saved.kind = "markets_catalog" /\ ResolvedQuery(query) = ViewQuery(saved)
  BY Zenon DEF ResolvedQuery
<1> HIDE DEF saved
<1>4. saved.kind = "markets_catalog" => TextsOK(ViewQuery(saved))
  BY <1>2, ViewQueryTexts DEF ViewOK
<1> QED
  BY <1>1, <1>3, <1>4

ListKinds == {"proposals_list", "intents_list"}
AnalysisKinds == {"analysis_outcomes", "analysis_learning"}
ListingKinds == ListKinds \cup AnalysisKinds \cup {"alerts_list"}

LEMMA ListingSchemas ==
  /\ DOMAIN SCHEMAS = ListingKinds \cup {"markets_catalog"}
  /\ \A kind \in ListKinds :
       /\ SCHEMAS[kind].required = {"scope"} /\ SCHEMAS[kind].optional = {"limit", "offset", "sort"}
  /\ \A kind \in AnalysisKinds :
       /\ SCHEMAS[kind].required = {"group_by"} /\ SCHEMAS[kind].optional = {"since_hours"}
  /\ SCHEMAS["alerts_list"].required = {}
  /\ SCHEMAS["alerts_list"].optional = {"watchlist_only", "state"}
  /\ DOMAIN SCHEMAS["alerts_list"].choices = {"state"}
BY DEF SCHEMAS, Schema, ListKinds, AnalysisKinds, ListingKinds

LEMMA ListingParams ==
  ASSUME NEW view, ViewOK(view), view.kind \in ListingKinds, NEW key \in DOMAIN view.params
  PROVE  /\ ~view.params[key].list /\ ValueOK(view.params[key])
         /\ view.params[key].items # <<>> /\ Len(view.params[key].items) = 1
         /\ view.kind = "alerts_list" /\ key = "watchlist_only" =>
              view.params[key].items[1].text \in {"True", "False"}
<1> DEFINE value == view.params[key]
<1>1. ValidParam(view.kind, key, value) /\ ValueOK(value)
      /\ key \in SCHEMAS[view.kind].required \cup SCHEMAS[view.kind].optional
  BY DEF ViewOK, validate
<1>2. key # "categories"
  BY <1>1, ListingSchemas DEF ListingKinds, ListKinds, AnalysisKinds
<1> HIDE DEF value
<1>3. ~value.list
  BY <1>1, <1>2 DEF ValidParam
<1>4. Len(value.items) = 1 /\ value.items # <<>> /\ 1 \in DOMAIN value.items
  <2>1. value.items \in Seq(Items) /\ Len(value.items) = 1
    BY <1>1, <1>3 DEF ValueOK, Items
  <2> QED
    BY <2>1
<1>5. ASSUME view.kind = "alerts_list", key = "watchlist_only"
      PROVE  value.items[1].text \in {"True", "False"}
  <2>1. key \notin DOMAIN SCHEMAS[view.kind].choices
    BY <1>5, ListingSchemas
  <2>2. value.items[1].type = "bool"
    BY <1>1, <1>3, <1>5, <2>1 DEF ValidParam
  <2> QED
    BY <1>1, <1>4, <2>2 DEF ValueOK
<1> QED
  BY <1>1, <1>3, <1>4, <1>5 DEF value

\* A valid hour count is a whole number or a switch.
LEMMA ListingHours ==
  ASSUME NEW view, ViewOK(view), view.kind \in AnalysisKinds, "since_hours" \in DOMAIN view.params
  PROVE  /\ ~SwitchOfHours(view) => view.params["since_hours"].items[1].text \in Whole
         /\ SwitchOfHours(view) => view.params["since_hours"].items[1].text \notin Whole
<1> DEFINE value == view.params["since_hours"]
<1>1. ValidParam(view.kind, "since_hours", value) /\ ValueOK(value) /\ ~value.list
      /\ Len(value.items) = 1
  BY ListingParams DEF ViewOK, validate, ListingKinds
<1>2. DOMAIN SCHEMAS[view.kind].choices = {"group_by"}
  BY DEF SCHEMAS, Schema, AnalysisKinds
<1>3. SwitchOfHours(view) <=> value.items[1].type = "bool"
  BY DEF SwitchOfHours
<1> HIDE DEF value
<1>4. value.items[1].type \in {"int", "bool"}
  BY <1>1, <1>2 DEF ValidParam
<1>5. 1 \in DOMAIN value.items
  <2>1. value.items \in Seq(Items)
    BY <1>1 DEF ValueOK, Items
  <2> QED
    BY <1>1, <2>1
<1>6. CASE value.items[1].type = "int"
  BY <1>1, <1>3, <1>5, <1>6 DEF ValueOK, value
<1>7. CASE value.items[1].type = "bool"
  <2>1. value.items[1].text \in {"True", "False"}
    BY <1>1, <1>5, <1>7 DEF ValueOK
  <2>2. value.items[1].text \notin Whole
    BY <2>1, SwitchesAreSwitches DEF Numbers
  <2> QED
    BY <1>3, <1>7, <2>2 DEF value
<1> QED
  BY <1>4, <1>6, <1>7

LEMMA ListingText ==
  ASSUME NEW view, ViewOK(view), view.kind \in ListingKinds, NEW key, NEW default
  PROVE  query_value(ViewQuery(view), key, default) = Only(view.params, key, default)
<1> DEFINE q == ViewQuery(view)
<1>0. view.kind # "markets_catalog"
  BY DEF ListingKinds, ListKinds, AnalysisKinds
<1>1. DOMAIN q = DOMAIN view.params
  BY <1>0 DEF ViewQuery
<1>2. \A other \in DOMAIN view.params : q[other] = Texts(view.params[other])
  BY <1>0 DEF ViewQuery
<1> HIDE DEF q
<1>3. CASE key \in DOMAIN view.params
  <2>1. Len(Texts(view.params[key])) = 1
        /\ Texts(view.params[key])[1] = view.params[key].items[1].text
    BY <1>3, ListingParams, ValueTexts
  <2> QED
    BY <1>1, <1>2, <1>3, <2>1 DEF query_value, Only, q
<1>4. CASE key \notin DOMAIN view.params
  BY <1>1, <1>4 DEF query_value, Only, q
<1> QED
  BY <1>3, <1>4

LEMMA WatchlistSwitch ==
  ASSUME NEW a, NEW b, NEW c
  PROVE  [[state |-> a, watchlist_only |-> b] EXCEPT !.watchlist_only = c]
           = [state |-> a, watchlist_only |-> c]
<1> DEFINE r == [state |-> a, watchlist_only |-> b]
           s == [r EXCEPT !.watchlist_only = c]
<1>1. DOMAIN r = {"state", "watchlist_only"} /\ r.state = a
  OBVIOUS
<1> HIDE DEF r
<1>2. s.state = a /\ s.watchlist_only = c /\ DOMAIN s = {"state", "watchlist_only"}
  BY <1>1
<1>3. s = [field \in DOMAIN s |-> s[field]]
  OBVIOUS
<1> HIDE DEF s
<1>4. s = [state |-> s.state, watchlist_only |-> s.watchlist_only]
  BY <1>2, <1>3
<1> QED
  BY <1>2, <1>4 DEF r, s

LEMMA WatchlistOff ==
  ASSUME NEW a, NEW b, NEW listing, listing = [state |-> a, watchlist_only |-> b]
  PROVE  [listing EXCEPT !.watchlist_only = FALSE] = [state |-> a, watchlist_only |-> FALSE]
BY WatchlistSwitch

LEMMA ListingShown ==
  ASSUME NEW view, ViewOK(view)
  PROVE  /\ view.kind = "alerts_list" =>
              WebListing(view.kind, ViewQuery(view)) = [CliListing(view) EXCEPT !.watchlist_only = FALSE]
         /\ SwitchOfHours(view) /\ view.kind \in AnalysisKinds =>
              WebListing(view.kind, ViewQuery(view)) = PageError
         /\ ~SwitchOfHours(view) /\ view.kind = "analysis_learning" =>
              WebListing(view.kind, ViewQuery(view)) = [CliListing(view) EXCEPT !.scope = "outcomes"]
         /\ ~SwitchOfHours(view) /\ view.kind \in ListKinds \cup {"analysis_outcomes"} =>
              WebListing(view.kind, ViewQuery(view)) = CliListing(view)
<1> DEFINE q == ViewQuery(view)
           P == view.params
<1>1. CASE view.kind = "alerts_list"
  <2>1. query_value(q, "state", "any") = Only(P, "state", "any")
    BY <1>1, ListingText DEF ListingKinds
  <2>2. query_value(q, "watchlist_only", "0") # "1"
    <3>1. query_value(q, "watchlist_only", "0") = Only(P, "watchlist_only", "0")
      BY <1>1, ListingText DEF ListingKinds
    <3>2. "watchlist_only" \in DOMAIN P => P["watchlist_only"].items[1].text \in {"True", "False"}
      BY <1>1, ListingParams DEF ListingKinds
    <3> QED
      BY <3>1, <3>2 DEF Only
  <2> DEFINE on == query_value(q, "watchlist_only", "0") = "1"
             cli == Only(P, "watchlist_only", "False") = "True"
             state == Only(P, "state", "any")
  <2>3. WebListing(view.kind, q) = [state |-> state, watchlist_only |-> on]
    BY <1>1, <2>1 DEF WebListing
  <2>4. CliListing(view) = [state |-> state, watchlist_only |-> cli]
    BY <1>1 DEF CliListing, Only
  <2>5. on = FALSE
    BY <2>2
  <2>6. WebListing(view.kind, q) = [state |-> state, watchlist_only |-> FALSE]
    BY <2>3, <2>5, Zenon
  <2> HIDE DEF on, cli, state, q
  <2>7. [CliListing(view) EXCEPT !.watchlist_only = FALSE] = [state |-> state, watchlist_only |-> FALSE]
    <3>1. PICK b : CliListing(view) = [state |-> state, watchlist_only |-> b]
      BY <2>4
    <3> QED
      BY <3>1, WatchlistOff
  <2> QED
    BY <1>1, <2>6, <2>7 DEF q, ListKinds, AnalysisKinds
<1>2. CASE view.kind \in AnalysisKinds
  <2>1. /\ query_value(q, "group_by", "market") = Only(P, "group_by", "market")
        /\ query_value(q, "since_hours", "ever") = Only(P, "since_hours", "ever")
        /\ query_value(q, "scope", "outcomes") = Only(P, "scope", "outcomes")
    BY <1>2, ListingText DEF ListingKinds
  <2>2. "scope" \notin DOMAIN P
    BY <1>2, ListingSchemas DEF ViewOK, validate, AnalysisKinds
  <2>3. "since_hours" \in DOMAIN q <=> "since_hours" \in DOMAIN P
    BY <1>2 DEF ViewQuery, AnalysisKinds
  <2> DEFINE group == Only(P, "group_by", "market")
             since == Only(P, "since_hours", "ever")
             text == P["since_hours"].items[1].text
  <2>4. query_value(q, "since_hours", "") = Only(P, "since_hours", "")
    BY <1>2, ListingText DEF ListingKinds
  <2>5. "since_hours" \in DOMAIN P => query_value(q, "since_hours", "") = text
    BY <2>4 DEF Only
  <2>6. CASE SwitchOfHours(view)
    <3>1. "since_hours" \in DOMAIN P
      BY <2>6 DEF SwitchOfHours
    <3>2. text \notin Whole
      BY <1>2, <2>6, <3>1, ListingHours
    <3>3. "since_hours" \in DOMAIN q /\ query_value(q, "since_hours", "") \notin Whole
      BY <2>3, <2>5, <3>1, <3>2
    <3> HIDE DEF q, text
    <3>4. WebListing(view.kind, q) = PageError
      BY <1>2, <3>3 DEF WebListing, AnalysisKinds
    <3> QED
      BY <1>2, <2>6, <3>4 DEF q, AnalysisKinds, ListKinds
  <2>7. CASE ~SwitchOfHours(view)
    <3>1. ~("since_hours" \in DOMAIN q /\ query_value(q, "since_hours", "") \notin Whole)
      <4>1. "since_hours" \in DOMAIN P => text \in Whole
        BY <1>2, <2>7, ListingHours
      <4> HIDE DEF q, text
      <4> QED
        BY <2>3, <2>5, <4>1
    <3>2. /\ query_value(q, "scope", "outcomes") = "outcomes"
          /\ query_value(q, "group_by", "market") = group
          /\ query_value(q, "since_hours", "ever") = since
      BY <2>1, <2>2 DEF Only
    <3> HIDE DEF q, group, since
    <3>3. WebListing(view.kind, q) = [scope |-> "outcomes", group_by |-> group, since_hours |-> since]
      BY <1>2, <3>1, <3>2 DEF WebListing, AnalysisKinds
    <3>4. CliListing(view) =
            [scope |-> IF view.kind = "analysis_outcomes" THEN "outcomes" ELSE "learning_summary",
             group_by |-> group, since_hours |-> since]
      BY <1>2, <2>7 DEF CliListing, Only, AnalysisKinds, group, since
    <3> QED
      BY <1>2, <2>7, <3>3, <3>4 DEF q, AnalysisKinds, ListKinds
  <2> QED
    BY <2>6, <2>7
<1>3. CASE view.kind \in ListKinds
  <2>1. query_value(q, "scope", "all") = Only(P, "scope", "all")
    BY <1>3, ListingText DEF ListingKinds
  <2>2. WebListing(view.kind, q) = [scope |-> Only(P, "scope", "all")]
    BY <1>3, <2>1 DEF WebListing, ListKinds
  <2>3. CliListing(view) = [scope |-> Only(P, "scope", "all")]
    BY <1>3 DEF CliListing, Only, ListKinds
  <2> QED
    BY <1>3, <2>2, <2>3 DEF ListKinds, AnalysisKinds
<1>4. view.kind \notin ListKinds \cup AnalysisKinds \cup {"alerts_list"} =>
        view.kind \notin ListKinds \cup {"analysis_outcomes", "analysis_learning", "alerts_list"}
  BY DEF AnalysisKinds
<1> QED
  BY <1>1, <1>2, <1>3, <1>4

(***************************************************************************)
(* ViewsInv says what SavedViewsKeepTheirFilter does.                      *)
(***************************************************************************)
LEMMA ViewsShowTheirFilter ==
  ASSUME ViewsInv
  PROVE  SavedViewsKeepTheirFilter
<1>1. ASSUME NEW name \in ViewNames
      PROVE  LET view == saved_views[name]
             IN  /\ view.kind = "markets_catalog" /\ DOMAIN view.params # {} =>
                      CatalogueFilter(ResolvedQuery(ViewQuery(view)))
                        = [view.meant EXCEPT !.orderbook_only = FALSE]
                 /\ view.kind = "alerts_list" =>
                      WebListing(view.kind, ViewQuery(view))
                        = [CliListing(view) EXCEPT !.watchlist_only = FALSE]
                 /\ view.kind \in {"analysis_outcomes", "analysis_learning"} /\ SwitchOfHours(view) =>
                      WebListing(view.kind, ViewQuery(view)) = PageError
                 /\ view.kind = "analysis_learning" /\ ~SwitchOfHours(view) =>
                      WebListing(view.kind, ViewQuery(view))
                        = [CliListing(view) EXCEPT !.scope = "outcomes"]
                 /\ \/ view.kind \in {"proposals_list", "intents_list"}
                    \/ view.kind = "analysis_outcomes" /\ ~SwitchOfHours(view)
                    => WebListing(view.kind, ViewQuery(view)) = CliListing(view)
  <2> DEFINE view == saved_views[name]
  <2>1. CASE view = NoView
    <3>1. view.kind = "none"
      BY <2>1 DEF NoView
    <3> HIDE DEF view
    <3> QED
      BY <3>1 DEF view
  <2>2. CASE view # NoView
    <3>1. ViewOK(view)
      BY <2>2 DEF ViewsInv
    <3> HIDE DEF view
    <3>2. view.kind = "markets_catalog" /\ DOMAIN view.params # {} =>
            CatalogueFilter(ResolvedQuery(ViewQuery(view)))
              = [view.meant EXCEPT !.orderbook_only = FALSE]
      BY <3>1, CatalogueViewShown
    <3>3. /\ view.kind = "alerts_list" =>
               WebListing(view.kind, ViewQuery(view))
                 = [CliListing(view) EXCEPT !.watchlist_only = FALSE]
          /\ SwitchOfHours(view) /\ view.kind \in AnalysisKinds =>
               WebListing(view.kind, ViewQuery(view)) = PageError
          /\ ~SwitchOfHours(view) /\ view.kind = "analysis_learning" =>
               WebListing(view.kind, ViewQuery(view)) = [CliListing(view) EXCEPT !.scope = "outcomes"]
          /\ ~SwitchOfHours(view) /\ view.kind \in ListKinds \cup {"analysis_outcomes"} =>
               WebListing(view.kind, ViewQuery(view)) = CliListing(view)
      BY <3>1, ListingShown
    <3>4. ASSUME SwitchOfHours(view)
          PROVE  view.kind \notin ListKinds
      <4>1. "since_hours" \in DOMAIN view.params
        BY <3>4 DEF SwitchOfHours
      <4> QED
        BY <3>1, <4>1, ListingSchemas DEF ViewOK, validate
    <3>5. AnalysisKinds = {"analysis_outcomes", "analysis_learning"}
          /\ ListKinds = {"proposals_list", "intents_list"}
      BY DEF AnalysisKinds, ListKinds
    <3> QED
      BY <3>2, <3>3, <3>4, <3>5, Zenon DEF view
  <2> QED
    BY <2>1, <2>2
<1>2. ASSUME NEW u \in ViewUsers, viewRequest[u].at = "refused"
      PROVE  LET filter == viewRequest[u].filter
             IN  \/ Len(filter.categories) = 1
                 \/ \E i \in DOMAIN filter.categories : Coerced(filter.categories[i]).type # "str"
                 \/ Coerced(filter.search).type # "str"
                 \/ filter.min_liquidity \in BelowZero \cup (DOMAIN FloatTexts \ PointTexts)
  <2> DEFINE filter == viewRequest[u].filter
  <2>1. ViewRequestOK(viewRequest[u])
    BY DEF ViewsInv
  <2>2. /\ filter \in Filters
        /\ ~validate("markets_catalog", QueryParams("markets_catalog", SavedViewFields(filter)))
    BY <1>2, <2>1 DEF ViewRequestOK, NoViewRequest
  <2> HIDE DEF filter
  <2>3. \/ Len(filter.categories) = 1
        \/ \E i \in DOMAIN filter.categories : Coerced(filter.categories[i]).type # "str"
        \/ Coerced(filter.search).type # "str"
        \/ filter.min_liquidity \in BelowZero \cup (DOMAIN FloatTexts \ PointTexts)
    BY <2>2, ButtonAccepted
  <2> QED
    BY <2>3 DEF filter
<1> QED
  BY <1>1, <1>2 DEF SavedViewsKeepTheirFilter

(***************************************************************************)
(* ViewsInv is inductive: one lemma per action.                            *)
(***************************************************************************)
LEMMA ViewSaved ==
  ASSUME ViewsInv, NEW name, NEW kind, NEW params, NEW meant,
         ViewOK([kind |-> kind, params |-> params, meant |-> meant]),
         SaveView(name, kind, params, meant)
  PROVE  /\ DOMAIN saved_views' = ViewNames
         /\ \A n \in ViewNames : saved_views'[n] = NoView \/ ViewOK(saved_views'[n])
<1> DEFINE view == [kind |-> kind, params |-> params, meant |-> meant]
<1>1. ViewOK(view) /\ saved_views' = [saved_views EXCEPT ![name] = view]
  BY DEF SaveView
<1> HIDE DEF view
<1>2. DOMAIN saved_views' = ViewNames /\ \A n \in ViewNames : saved_views'[n] \in {view, saved_views[n]}
  BY <1>1 DEF ViewsInv
<1> QED
  BY <1>1, <1>2 DEF ViewsInv

LEMMA RequestMade ==
  ASSUME ViewsInv, NEW u \in ViewUsers, NEW request, ViewRequestOK(request),
         viewRequest' = [viewRequest EXCEPT ![u] = request]
  PROVE  DOMAIN viewRequest' = ViewUsers /\ \A v \in ViewUsers : ViewRequestOK(viewRequest'[v])
<1>1. DOMAIN viewRequest' = ViewUsers /\ \A v \in ViewUsers : viewRequest'[v] \in {request, viewRequest[v]}
  BY DEF ViewsInv
<1> QED
  BY <1>1 DEF ViewsInv

LEMMA PageOK ==
  ASSUME NEW filter \in Filters
  PROVE  ViewRequestOK(Page(filter))
BY DEF ViewRequestOK, Page

\* The filter of a catalogue that was not given one.
LEMMA OpenCatalogueKeeps ==
  ASSUME ViewsInv, NEW u \in ViewUsers, OpenCatalogue(u)
  PROVE  ViewsInv'
<1>1. PICK query \in CatalogueRequests :
        viewRequest' = [viewRequest EXCEPT ![u] = Page(CatalogueFilter(ResolvedQuery(query)))]
  BY DEF OpenCatalogue
<1> DEFINE filter == CatalogueFilter(ResolvedQuery(query))
<1>2. filter \in Filters
  <2>1. TextsOK(query)
    BY ViewsAssumption DEF RequestOK
  <2>2. saved_views[CATALOG_DEFAULT_VIEW] = NoView \/ ViewOK(saved_views[CATALOG_DEFAULT_VIEW])
    BY ViewsAssumption DEF ViewsInv
  <2>3. TextsOK(ResolvedQuery(query))
    BY <2>1, <2>2, ResolvedTexts
  <2> QED
    BY <2>3, FilterTyped
<1> HIDE DEF filter
<1>3. DOMAIN viewRequest' = ViewUsers /\ \A v \in ViewUsers : ViewRequestOK(viewRequest'[v])
  BY <1>1, <1>2, PageOK, RequestMade DEF filter
<1>4. saved_views' = saved_views
  BY DEF OpenCatalogue
<1> QED
  BY <1>3, <1>4 DEF ViewsInv

LEMMA RunCatalogueViewKeeps ==
  ASSUME ViewsInv, NEW u \in ViewUsers, NEW name \in ViewNames, RunCatalogueView(u, name)
  PROVE  ViewsInv'
<1> DEFINE query == ViewQuery(saved_views[name])
           filter == CatalogueFilter(ResolvedQuery(query))
<1>1. saved_views[name].kind = "markets_catalog" /\ saved_views' = saved_views
      /\ viewRequest' = [viewRequest EXCEPT ![u] = Page(filter)]
  BY DEF RunCatalogueView
<1>2. filter \in Filters
  <2>1. ViewOK(saved_views[name])
    BY <1>1 DEF ViewsInv, NoView
  <2>2. TextsOK(query)
    BY <1>1, <2>1, ViewQueryTexts DEF ViewOK
  <2>3. saved_views[CATALOG_DEFAULT_VIEW] = NoView \/ ViewOK(saved_views[CATALOG_DEFAULT_VIEW])
    BY ViewsAssumption DEF ViewsInv
  <2>4. TextsOK(ResolvedQuery(query))
    BY <2>2, <2>3, ResolvedTexts
  <2> QED
    BY <2>4, FilterTyped
<1> HIDE DEF filter
<1>3. DOMAIN viewRequest' = ViewUsers /\ \A v \in ViewUsers : ViewRequestOK(viewRequest'[v])
  BY <1>1, <1>2, PageOK, RequestMade
<1> QED
  BY <1>1, <1>3 DEF ViewsInv

\* The button saves what is on the page, or shows why not.
LEMMA PressSaveKeeps ==
  ASSUME ViewsInv, NEW u \in ViewUsers, PressSave(u)
  PROVE  ViewsInv'
<1> DEFINE filter == viewRequest[u].filter
           params == QueryParams("markets_catalog", SavedViewFields(filter))
           view == [kind |-> "markets_catalog", params |-> params, meant |-> filter]
<1>1. filter \in Filters
  BY DEF ViewsInv, ViewRequestOK, PressSave, NoViewRequest
<1>2. \/ /\ validate("markets_catalog", params)
         /\ SaveView(CATALOG_DEFAULT_VIEW, "markets_catalog", params, filter)
         /\ viewRequest' = [viewRequest EXCEPT ![u] = NoViewRequest]
      \/ /\ ~validate("markets_catalog", params)
         /\ viewRequest' = [viewRequest EXCEPT ![u] = Refusal(filter)]
         /\ saved_views' = saved_views
  BY DEF PressSave
<1>3. RequestOK(SavedViewFields(filter)) /\ CatalogueFilter(SavedViewFields(filter)) = filter
  BY <1>1, ButtonRequest, ButtonFilter
<1>4. ParamsOK(params) /\ \A key \in DOMAIN params : ValueOK(params[key])
  BY <1>3, RequestParamsOK DEF ParamsOK
<1>5. validate("markets_catalog", params) => FieldsAgree(params, filter)
  BY <1>3, RequestFilter
<1>6. CASE /\ validate("markets_catalog", params)
           /\ SaveView(CATALOG_DEFAULT_VIEW, "markets_catalog", params, filter)
           /\ viewRequest' = [viewRequest EXCEPT ![u] = NoViewRequest]
  <2> HIDE DEF filter, params
  <2>1. ViewOK(view)
    <3>1. view.kind = "markets_catalog" /\ view.params = params /\ view.meant = filter
      OBVIOUS
    <3>2. "markets_catalog" \in DOMAIN SCHEMAS
      BY ListingSchemas
    <3> HIDE DEF view
    <3> QED
      BY <1>1, <1>4, <1>5, <1>6, <3>1, <3>2 DEF ViewOK
  <2>2. /\ DOMAIN saved_views' = ViewNames
        /\ \A n \in ViewNames : saved_views'[n] = NoView \/ ViewOK(saved_views'[n])
    BY <1>6, <2>1, ViewSaved
  <2>3. ViewRequestOK(NoViewRequest)
    BY DEF ViewRequestOK
  <2>4. DOMAIN viewRequest' = ViewUsers /\ \A v \in ViewUsers : ViewRequestOK(viewRequest'[v])
    BY <1>6, <2>3, RequestMade
  <2> QED
    BY <2>2, <2>4 DEF ViewsInv
<1>7. CASE /\ ~validate("markets_catalog", params)
           /\ viewRequest' = [viewRequest EXCEPT ![u] = Refusal(filter)]
           /\ saved_views' = saved_views
  <2>1. ~validate("markets_catalog", QueryParams("markets_catalog", SavedViewFields(filter)))
    BY <1>7
  <2> HIDE DEF filter, params
  <2>2. ViewRequestOK(Refusal(filter))
    BY <1>1, <2>1 DEF ViewRequestOK, Refusal
  <2>3. DOMAIN viewRequest' = ViewUsers /\ \A v \in ViewUsers : ViewRequestOK(viewRequest'[v])
    BY <1>7, <2>2, RequestMade
  <2> QED
    BY <1>7, <2>3 DEF ViewsInv
<1> QED
  BY <1>2, <1>6, <1>7

LEMMA SaveCurrentKeeps ==
  ASSUME ViewsInv, NEW save \in WebSaves, SaveCurrent(save)
  PROVE  ViewsInv'
<1> DEFINE params == QueryParams(save.kind, save.query)
           meant == IF save.kind = "markets_catalog" THEN CatalogueFilter(save.query) ELSE NoFilter
           view == [kind |-> save.kind, params |-> params, meant |-> meant]
<1>1. /\ validate(save.kind, params) /\ SaveView(save.name, save.kind, params, meant)
      /\ viewRequest' = viewRequest
  BY DEF SaveCurrent
<1>2. save.kind \in DOMAIN SCHEMAS /\ RequestOK(save.query) /\ TextsOK(save.query)
  BY ViewsAssumption DEF RequestOK
<1>3. \A key \in DOMAIN params : ValueOK(params[key])
  BY <1>2, RequestParams
<1>4. ASSUME save.kind = "markets_catalog"
      PROVE  ParamsOK(params) /\ meant \in Filters /\ FieldsAgree(params, meant)
  <2>1. params = QueryParams("markets_catalog", save.query) /\ meant = CatalogueFilter(save.query)
        /\ validate("markets_catalog", QueryParams("markets_catalog", save.query))
    BY <1>1, <1>4
  <2> HIDE DEF params, meant
  <2> QED
    BY <1>2, <2>1, RequestParamsOK, FilterTyped, RequestFilter
<1> HIDE DEF params, meant
<1>5. ViewOK(view)
  <2>1. view.kind = save.kind /\ view.params = params /\ view.meant = meant
    OBVIOUS
  <2> HIDE DEF view
  <2> QED
    BY <1>1, <1>2, <1>3, <1>4, <2>1 DEF ViewOK
<1>6. /\ DOMAIN saved_views' = ViewNames
      /\ \A n \in ViewNames : saved_views'[n] = NoView \/ ViewOK(saved_views'[n])
  BY <1>1, <1>5, ViewSaved
<1> QED
  BY <1>1, <1>6 DEF ViewsInv

LEMMA SaveFromCliKeeps ==
  ASSUME ViewsInv, NEW save \in CliSaves, SaveFromCli(save)
  PROVE  ViewsInv'
<1> DEFINE view == [kind |-> save.kind, params |-> save.params, meant |-> NoFilter]
<1>1. /\ validate(save.kind, save.params) /\ SaveView(save.name, save.kind, save.params, NoFilter)
      /\ viewRequest' = viewRequest
  BY DEF SaveFromCli
<1>2. /\ save.kind \in DOMAIN SCHEMAS /\ save.kind # "markets_catalog"
      /\ \A key \in DOMAIN save.params : ValueOK(save.params[key])
  BY ViewsAssumption
<1>3. ViewOK(view)
  <2>1. view.kind = save.kind /\ view.params = save.params
    OBVIOUS
  <2> HIDE DEF view
  <2> QED
    BY <1>1, <1>2, <2>1 DEF ViewOK
<1>4. /\ DOMAIN saved_views' = ViewNames
      /\ \A n \in ViewNames : saved_views'[n] = NoView \/ ViewOK(saved_views'[n])
  BY <1>1, <1>3, ViewSaved
<1> QED
  BY <1>1, <1>4 DEF ViewsInv

\* What an edit will write: the fields it was given over the view's.
LEMMA ReadViewKeeps ==
  ASSUME ViewsInv, NEW u \in ViewUsers, NEW name \in ViewNames, ReadView(u, name)
  PROVE  ViewsInv'
<1> DEFINE view == saved_views[name]
<1>1. ViewOK(view)
  BY DEF ReadView, ViewsInv
<1>2. PICK query \in ViewEdits \cup {<<>>}, target \in ViewNames :
        LET given == QueryParams(view.kind, query)
            kept == [key \in {key \in DOMAIN SavedViewFields(view.meant) :
                                ParamKey(view.kind, key) \notin DOMAIN given} |->
                       SavedViewFields(view.meant)[key]]
        IN  viewRequest' = [viewRequest EXCEPT ![u] =
              [at |-> "write", name |-> target, kind |-> view.kind,
               params |-> Overlaid(given, view.params),
               meant |-> IF view.kind = "markets_catalog"
                         THEN CatalogueFilter(Overlaid(query, kept))
                         ELSE NoFilter]]
  BY DEF ReadView
<1>3. RequestOK(query) /\ TextsOK(query)
  <2>1. CASE query \in ViewEdits
    BY <2>1, ViewsAssumption DEF RequestOK
  <2>2. CASE query = <<>>
    BY <2>2, EmptyRequest DEF RequestOK
  <2> QED
    BY <2>1, <2>2
<1> DEFINE given == QueryParams(view.kind, query)
           kept == [key \in {key \in DOMAIN SavedViewFields(view.meant) :
                               ParamKey(view.kind, key) \notin DOMAIN given} |->
                      SavedViewFields(view.meant)[key]]
           merged == Overlaid(given, view.params)
           meant == IF view.kind = "markets_catalog" THEN CatalogueFilter(Overlaid(query, kept))
                    ELSE NoFilter
           request == [at |-> "write", name |-> target, kind |-> view.kind, params |-> merged,
                       meant |-> meant]
<1>4. viewRequest' = [viewRequest EXCEPT ![u] = request]
  BY <1>2
<1>5. \A key \in DOMAIN merged : ValueOK(merged[key])
  <2>1. \A key \in DOMAIN given : ValueOK(given[key])
    BY <1>3, RequestParams
  <2>2. \A key \in DOMAIN view.params : ValueOK(view.params[key])
    BY <1>1 DEF ViewOK
  <2> HIDE DEF given, view
  <2> QED
    BY <2>1, <2>2, OverlaidValues
<1>6. ASSUME view.kind = "markets_catalog", validate("markets_catalog", merged)
      PROVE  ParamsOK(merged) /\ meant \in Filters /\ FieldsAgree(merged, meant)
  <2>1. ParamsOK(view.params) /\ view.meant \in Filters /\ FieldsAgree(view.params, view.meant)
    BY <1>1, <1>6 DEF ViewOK
  <2>2. given = QueryParams("markets_catalog", query)
        /\ meant = CatalogueFilter(Overlaid(query, Kept(SavedViewFields(view.meant), given)))
    BY <1>6 DEF Kept
  <2>3. validate("markets_catalog", Overlaid(QueryParams("markets_catalog", query), view.params))
    BY <1>6, <2>2
  <2>4. ParamsOK(given)
    BY <1>3, <2>2, RequestParamsOK
  <2> HIDE DEF given, meant, view
  <2>5. ParamsOK(merged)
    BY <2>1, <2>4, OverlaidParams
  <2>6. meant \in Filters
    BY <1>3, <2>1, <2>2, EditFilterTyped
  <2>7. FieldsAgree(merged, meant)
    BY <1>3, <2>1, <2>2, <2>3, EditFilter
  <2> QED
    BY <2>5, <2>6, <2>7
<1>7. view.kind \in DOMAIN SCHEMAS
  BY <1>1 DEF ViewOK
<1> HIDE DEF merged, meant, view
<1>8. ViewRequestOK(request)
  <2>1. request.at = "write" /\ request.kind = view.kind /\ request.params = merged
        /\ ViewToWrite(request) = [kind |-> view.kind, params |-> merged, meant |-> meant]
    BY DEF ViewToWrite
  <2>2. ASSUME validate(view.kind, merged)
        PROVE  ViewOK([kind |-> view.kind, params |-> merged, meant |-> meant])
    <3> DEFINE new == [kind |-> view.kind, params |-> merged, meant |-> meant]
    <3>1. new.kind = view.kind /\ new.params = merged /\ new.meant = meant
      OBVIOUS
    <3> HIDE DEF new
    <3>2. ViewOK(new)
      BY <1>5, <1>6, <1>7, <2>2, <3>1 DEF ViewOK
    <3> QED
      BY <3>2 DEF new
  <2> HIDE DEF request
  <2> QED
    BY <2>1, <2>2 DEF ViewRequestOK
<1> HIDE DEF request
<1>9. DOMAIN viewRequest' = ViewUsers /\ \A v \in ViewUsers : ViewRequestOK(viewRequest'[v])
  BY <1>4, <1>8, RequestMade
<1>10. saved_views' = saved_views
  BY DEF ReadView
<1> QED
  BY <1>9, <1>10 DEF ViewsInv

LEMMA WriteViewKeeps ==
  ASSUME ViewsInv, NEW u \in ViewUsers, WriteView(u)
  PROVE  ViewsInv'
<1> DEFINE r == viewRequest[u]
<1>1. /\ r.at = "write" /\ viewRequest' = [viewRequest EXCEPT ![u] = NoViewRequest]
      /\ \/ validate(r.kind, r.params) /\ SaveView(r.name, r.kind, r.params, r.meant)
         \/ saved_views' = saved_views
  BY DEF WriteView
<1>2. validate(r.kind, r.params) => ViewOK(ViewToWrite(r))
  BY <1>1 DEF ViewsInv, ViewRequestOK, NoViewRequest
<1> HIDE DEF r
<1>3. /\ DOMAIN saved_views' = ViewNames
      /\ \A n \in ViewNames : saved_views'[n] = NoView \/ ViewOK(saved_views'[n])
  <2>1. CASE validate(r.kind, r.params) /\ SaveView(r.name, r.kind, r.params, r.meant)
    <3>1. ViewOK([kind |-> r.kind, params |-> r.params, meant |-> r.meant])
      BY <1>2, <2>1 DEF ViewToWrite
    <3> QED
      BY <2>1, <3>1, ViewSaved
  <2>2. CASE saved_views' = saved_views
    BY <2>2 DEF ViewsInv
  <2> QED
    BY <1>1, <2>1, <2>2
<1>4. ViewRequestOK(NoViewRequest)
  BY DEF ViewRequestOK
<1>5. DOMAIN viewRequest' = ViewUsers /\ \A v \in ViewUsers : ViewRequestOK(viewRequest'[v])
  BY <1>1, <1>4, RequestMade
<1> QED
  BY <1>3, <1>5 DEF ViewsInv

(***************************************************************************)
(* A view run from the pages shows the filter it was saved, edited or      *)
(* cloned with, whatever two operators do to it in between, but for the    *)
(* switches and the scope the pages lose; and the button is refused only   *)
(* for the filters named.                                                  *)
(***************************************************************************)
THEOREM ViewsKeepTheirFilter == ViewsSpec => []SavedViewsKeepTheirFilter
<1>1. ViewsInit => ViewsInv
  <2> SUFFICES ASSUME ViewsInit
               PROVE  ViewsInv
    OBVIOUS
  <2>1. ViewRequestOK(NoViewRequest)
    BY DEF ViewRequestOK
  <2> QED
    BY <2>1 DEF ViewsInit, ViewsInv
<1>2. ViewsInv /\ [ViewsNext]_viewVars => ViewsInv'
  <2> SUFFICES ASSUME ViewsInv, [ViewsNext]_viewVars
               PROVE  ViewsInv'
    OBVIOUS
  <2>1. CASE UNCHANGED viewVars
    BY <2>1 DEF ViewsInv, viewVars, ViewRequestOK, ViewOK, ViewToWrite
  <2>2. CASE \E u \in ViewUsers : OpenCatalogue(u) \/ PressSave(u) \/ WriteView(u)
    BY <2>2, OpenCatalogueKeeps, PressSaveKeeps, WriteViewKeeps
  <2>3. CASE \E u \in ViewUsers, name \in ViewNames : RunCatalogueView(u, name) \/ ReadView(u, name)
    BY <2>3, RunCatalogueViewKeeps, ReadViewKeeps
  <2>4. CASE \E save \in WebSaves : SaveCurrent(save)
    BY <2>4, SaveCurrentKeeps
  <2>5. CASE \E save \in CliSaves : SaveFromCli(save)
    BY <2>5, SaveFromCliKeeps
  <2> QED
    BY <2>1, <2>2, <2>3, <2>4, <2>5 DEF ViewsNext
<1>3. ViewsInv => SavedViewsKeepTheirFilter
  BY ViewsShowTheirFilter
<1> QED
  BY <1>1, <1>2, <1>3, PTL DEF ViewsSpec
==============================================================================
