--------------------------- MODULE MarketCatalogue ---------------------------
(***************************************************************************)
(* Browsing the venue's markets: every page asks Gamma again for a batch   *)
(* of open markets, closed ones or both, drops duplicates, filters, sorts  *)
(* and cuts out the page, while the venue's markets change.  Markets are   *)
(* told apart by what the filters and the default sort look at; the search *)
(* text is one more category, and ties are broken by the market's number,  *)
(* which stands for its question.                                          *)
(***************************************************************************)
EXTENDS Integers, FiniteSets, SequencesExt

CONSTANTS
  Readers,          \* who browses
  Venue,            \* the possible markets: a sequence of sets of records
  Queries,          \* scope, categories, min_liquidity, orderbook_only, page_size
  BatchLimit,       \* how many markets one call to Gamma returns
  MaxMoves          \* bound: changes of the venue

\* The markets are numbered, and every page has an item: a query's size is clipped to 1..100.
ASSUME CatalogueAssumption ==
  /\ Len(Venue) \in Nat /\ DOMAIN Venue = 1..Len(Venue)
  /\ \A i \in DOMAIN Venue : \A market \in Venue[i] : market.liquidity \in Int
  /\ \A query \in Queries : query.page_size \in Nat \ {0}

VARIABLES
  venue,            \* market -> its record now
  browsing,         \* reader -> the query, the page, what it has shown
  moves             \* history: changes of the venue

catalogueVars == <<venue, browsing, moves>>

NoBrowse == [at |-> "idle"]

CatalogueInit ==
  /\ venue \in {v \in [DOMAIN Venue -> UNION ToSet(Venue)] : \A i \in DOMAIN v : v[i] \in Venue[i]}
  /\ browsing = [r \in Readers |-> NoBrowse]
  /\ moves = 0

\* A market closes or its liquidity moves.
VenueChanges(i) ==
  /\ moves < MaxMoves
  /\ \E market \in Venue[i] \ {venue[i]} :
       /\ venue[i].closed => market.closed
       /\ venue' = [venue EXCEPT ![i] = market]
  /\ moves' = moves + 1
  /\ UNCHANGED browsing

\* GammaApiClient.list_markets: the first markets of the venue's own order.
Batch(closed) ==
  LET listed == {i \in DOMAIN venue : venue[i].closed = closed}
  IN  {i \in listed : Cardinality({j \in listed : j < i}) < BatchLimit}

Payload(closed) == [i \in Batch(closed) |-> venue[i]]

\* Of a market in both answers the first one's record stays.
Merged(first, second) ==
  [i \in DOMAIN first \union DOMAIN second |-> IF i \in DOMAIN first THEN first[i] ELSE second[i]]

Matches(query, market) ==
  /\ query.categories # {} => market.category \in query.categories
  /\ market.liquidity >= query.min_liquidity
  /\ query.orderbook_only => market.order_book

Matching(query, payload) ==
  [i \in {i \in DOMAIN payload : Matches(query, payload[i])} |-> payload[i]]

\* Sorted by liquidity, the larger question first among equals.
Ahead(items, i, j) ==
  \/ items[i].liquidity > items[j].liquidity
  \/ items[i].liquidity = items[j].liquidity /\ i > j

Sorted(items) ==
  CHOOSE s \in SetToSeqs(DOMAIN items) :
    \A n, m \in DOMAIN s : n < m => Ahead(items, s[n], s[m])

\* Mutant: page numbers taken to start at 0.
PageOf_FromZero(items, page, size) ==
  SubSeq(items, page * size + 1, IF (page + 1) * size < Len(items) THEN (page + 1) * size ELSE Len(items))

PageOf(items, page, size) ==
  SubSeq(items, (page - 1) * size + 1, IF page * size < Len(items) THEN page * size ELSE Len(items))

total_pages(total, size) == IF total = 0 THEN 1 ELSE (total + size - 1) \div size

StartBrowse(r) ==
  /\ browsing[r] = NoBrowse \/ browsing[r].at = "done"
  /\ \E query \in Queries :
       browsing' = [browsing EXCEPT ![r] =
         [at |-> "first_call", query |-> query, page |-> 1, payload |-> <<>>, shown |-> <<>>,
          began |-> moves, listed |-> {}]]
  /\ UNCHANGED <<venue, moves>>

\* The first, or only, call to Gamma.
FirstCall(r) ==
  LET b == browsing[r]
  IN  /\ b.at = "first_call"
      /\ browsing' = [browsing EXCEPT ![r].at = IF b.query.scope = "all" THEN "second_call" ELSE "show",
                                      ![r].payload = Payload(b.query.scope = "closed")]
      /\ UNCHANGED <<venue, moves>>

\* Scope "all" then asks for the closed markets; the first answer wins.
SecondCall(r) ==
  LET b == browsing[r]
  IN  /\ b.at = "second_call"
      /\ browsing' = [browsing EXCEPT ![r].at = "show",
                                      ![r].payload = Merged(b.payload, Payload(TRUE))]
      /\ UNCHANGED <<venue, moves>>

\* The page, and on to the next one while there is one.
ShowPage(r) ==
  LET b == browsing[r]
      matching == Matching(b.query, b.payload)
      more == b.page < total_pages(Cardinality(DOMAIN matching), b.query.page_size)
  IN  /\ b.at = "show"
      /\ browsing' = [browsing EXCEPT ![r] =
           [b EXCEPT !.at = IF more THEN "first_call" ELSE "done",
                     !.page = IF more THEN @ + 1 ELSE @,
                     !.payload = <<>>,
                     !.shown = @ \o PageOf(Sorted(matching), b.page, b.query.page_size),
                     !.listed = IF b.page = 1 THEN DOMAIN matching ELSE @]]
      /\ UNCHANGED <<venue, moves>>

CatalogueNext ==
  \/ \E i \in DOMAIN venue : VenueChanges(i)
  \/ \E r \in Readers : StartBrowse(r) \/ FirstCall(r) \/ SecondCall(r) \/ ShowPage(r)

CatalogueSpec == CatalogueInit /\ [][CatalogueNext]_catalogueVars

(***************************************************************************)
(* PagesPartition: a reader who has turned all the pages has seen every    *)
(* market the first page counted, each once, unless the venue changed      *)
(* while pages were turned: every page is cut from a new answer.           *)
(***************************************************************************)
PagesPartition ==
  \A r \in Readers :
    browsing[r].at = "done" /\ browsing[r].began = moves =>
      LET shown == browsing[r].shown
      IN  ToSet(shown) = browsing[r].listed /\ Len(shown) = Cardinality(browsing[r].listed)
==============================================================================
