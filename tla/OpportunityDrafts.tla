-------------------------- MODULE OpportunityDrafts --------------------------
(***************************************************************************)
(* draft_opportunities: a run scans the markets of the catalogue, lists    *)
(* the active proposals once, and makes a draft of each opportunity that   *)
(* has none.  Several runs, the operator's decisions and refreshes of the  *)
(* cached snapshots interleave.                                            *)
(***************************************************************************)
EXTENDS TradePolicies, SequencesExt

CONSTANTS
  Drafters,         \* processes that run draft_opportunities
  Markets,          \* the markets of the catalogue
  Quotes,           \* snapshots the exchange may answer with
  DraftRules,       \* the settings of the runs
  DraftLimit,       \* limit of one run
  MaxProposals      \* bound: rows

VARIABLES
  cached,           \* market -> its latest cached snapshot, or none
  trade_proposals,  \* the rows, in the order of their commits
  draftRun          \* process -> the run it is in

draftVars == <<cached, trade_proposals, draftRun>>

NoSnapshot == [mid |-> None]

NoRun == [at |-> "idle", todo |-> {}, found |-> {}, next |-> <<>>, seen |-> {}, listed |-> 0]

DraftsInit ==
  /\ cached = [m \in Markets |-> NoSnapshot]
  /\ trade_proposals = <<>>
  /\ draftRun = [d \in Drafters |-> NoRun]

QuotesOf(m) == {q \in Quotes : q.market.id = m}

\* Another command stores a snapshot of the market.
RefreshSnapshot(m) ==
  /\ \E q \in QuotesOf(m) : cached' = [cached EXCEPT ![m] = q]
  /\ UNCHANGED <<trade_proposals, draftRun>>

\* What the catalogue says of a market is the metadata any of its quotes carries.
Scanned(market) ==
  LET filters == DraftRules.market_filters
  IN  /\ market.category \in filters.allowed_categories
      /\ market.category \notin filters.blocked_categories
      /\ market.orderbook
      /\ market.liquidity >= filters.min_liquidity

\* list_markets may fail: the run then finds nothing.
StartScan(d) ==
  /\ draftRun[d].at = "idle" /\ Len(trade_proposals) < MaxProposals
  /\ draftRun' = [draftRun EXCEPT ![d] = [NoRun EXCEPT !.at = "scan",
                    !.todo = {m \in Markets : \E q \in QuotesOf(m) : Scanned(q.market)}]]
  /\ UNCHANGED <<cached, trade_proposals>>

\* The opportunities a market may be, each as its market and its sort key.
Opportunities(m, q) ==
  UNION {{[market |-> m, edge |-> edge, confidence |-> probability.confidence,
           liquidity |-> q.market.liquidity] : edge \in RoundedShare(Gap(probability.fair, q.mid), 1)} :
         probability \in estimate_probability(q)}

\* inspect_snapshot: the cached one whatever its age, else a live one, which
\* is stored; a market whose live one fails is skipped with a warning.
InspectMarket(d) ==
  \E m \in draftRun[d].todo :
    LET known == IF cached[m] = NoSnapshot THEN QuotesOf(m) ELSE {cached[m]}
        rest == draftRun[d].todo \ {m}
    IN  /\ draftRun[d].at = "scan"
        /\ \/ \E q \in known : \E found \in Opportunities(m, q) :
                /\ cached' = [cached EXCEPT ![m] = q]
                /\ draftRun' = [draftRun EXCEPT ![d].todo = rest, ![d].found =
                     IF found.edge < DraftRules.entry_rules.min_edge_pct
                     THEN @ ELSE @ \cup {found}]
           \/ /\ cached[m] = NoSnapshot
              /\ draftRun' = [draftRun EXCEPT ![d].todo = rest]
              /\ UNCHANGED cached
        /\ UNCHANGED trade_proposals

\* Largest edge first, then confidence, then liquidity.
Better(a, b) ==
  \/ a.edge > b.edge
  \/ a.edge = b.edge /\ a.confidence > b.confidence
  \/ a.edge = b.edge /\ a.confidence = b.confidence /\ a.liquidity > b.liquidity

Active == {Pending, "approved"}

\* Mutant: approved proposals are not counted as active.
ActiveMarkets_PendingOnly ==
  {p.market : p \in {q \in Range(trade_proposals) : q.status = Pending}}

\* list_active_proposals, as the markets they are of.
ActiveMarkets ==
  {p.market : p \in {q \in Range(trade_proposals) : q.status \in Active}}

ListActive(d) ==
  /\ draftRun[d].at = "scan" /\ draftRun[d].todo = {}
  /\ LET ranked == SetToSortSeq(draftRun[d].found, Better)
     IN  draftRun' = [draftRun EXCEPT ![d] = [NoRun EXCEPT !.at = "draft",
           !.next = SubSeq(ranked, 1, Least(DraftLimit, Len(ranked))),
           !.seen = ActiveMarkets, !.listed = Len(trade_proposals)]]
  /\ UNCHANGED <<cached, trade_proposals>>

\* The snapshot is inspected again, and estimated again.
DraftOf(m) ==
  UNION {create_proposal(DraftRules, context) :
           context \in UNION {InFloats(create_default_context(cached[m].market, p, cached[m].mid)) :
                                p \in estimate_probability(cached[m])}}

\* The next opportunity: skipped, or a row and its commit.  The last three fields
\* are history: whether the row ever waited for the operator, how many rows there
\* were when its run listed the active ones, and when it was last set active again.
DraftNext(d) ==
  /\ draftRun[d].at = "draft" /\ draftRun[d].next # <<>>
  /\ LET m == Head(draftRun[d].next).market
         run == [draftRun EXCEPT ![d].next = Tail(@)]
     IN  IF m \in draftRun[d].seen THEN draftRun' = run /\ UNCHANGED trade_proposals
         ELSE \E draft \in DraftOf(m) :
                /\ Len(trade_proposals) < MaxProposals
                /\ trade_proposals' = Append(trade_proposals,
                     [market |-> m, status |-> draft.status, waited |-> draft.status = Pending,
                      listed |-> draftRun[d].listed, revived |-> 0])
                /\ draftRun' = [run EXCEPT ![d].seen = @ \cup {m}]
  /\ UNCHANGED cached

\* The run is through, or its process is interrupted.
EndRun(d) ==
  /\ draftRun[d].at # "idle"
  /\ draftRun' = [draftRun EXCEPT ![d] = NoRun]
  /\ UNCHANGED <<cached, trade_proposals>>

\* The save of an edit, a decision or an expiry: a row that was read while it
\* waited is written whole, whatever its status has become since.  One refused at
\* its approval counts as cancelled: neither is active.
SaveDraft(i) ==
  /\ trade_proposals[i].waited
  /\ \E status \in Active \cup {"cancelled"} :
       /\ status # trade_proposals[i].status
       /\ trade_proposals' = [trade_proposals EXCEPT ![i].status = status, ![i].revived =
            IF status \in Active /\ trade_proposals[i].status \notin Active
            THEN Len(trade_proposals) ELSE @]
  /\ UNCHANGED <<cached, draftRun>>

DraftsNext ==
  \/ \E m \in Markets : RefreshSnapshot(m)
  \/ \E d \in Drafters : StartScan(d) \/ InspectMarket(d) \/ ListActive(d) \/ DraftNext(d) \/ EndRun(d)
  \/ \E i \in DOMAIN trade_proposals : SaveDraft(i)

DraftsSpec == DraftsInit /\ [][DraftsNext]_draftVars

(***************************************************************************)
(* DuplicatesComeFromOverlap: a market has two active drafts only when the *)
(* run of the later one listed the active proposals before the earlier one *)
(* was committed, or while it was decided, and a late save of an edit or   *)
(* of an approval has set it active again since.                           *)
(***************************************************************************)
DuplicatesComeFromOverlap ==
  \A i, j \in DOMAIN trade_proposals :
    LET first == trade_proposals[i]
        second == trade_proposals[j]
    IN  /\ i < j /\ first.market = second.market
        /\ {first.status, second.status} \subseteq Active
        => second.listed < i \/ first.revived >= second.listed
==============================================================================
