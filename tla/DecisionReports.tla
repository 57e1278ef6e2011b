--------------------------- MODULE DecisionReports ---------------------------
(***************************************************************************)
(* What is reported about decisions: decision reviews, execution           *)
(* evaluations, and outcome analyses that group both.  An analysis reads   *)
(* three tables one after the other while other processes decide, simulate *)
(* and report.  Every request, export and digest stores a new row.  Market *)
(* scope differs from proposal scope in how the proposal is found only.    *)
(* Averages and the stored payloads are left out; prices are in 1/10000,   *)
(* sizes in cents, as in PaperExecution.                                   *)
(***************************************************************************)
EXTENDS Integers, FiniteSets, SequencesExt, PaperExecution

CONSTANTS
  Analysts,         \* processes that make reports
  Reported,         \* possible proposals: side, market, category, sources and band
  Orders,           \* simulated orders: size, limit, quotes, base latency
  MaxReported,      \* bound: proposals
  MaxReports        \* bound: reviews, evaluations, and analyses

ASSUME ProposalsAreNamed ==
  \A attributes \in Reported :
    /\ attributes.side \in {"yes", "no"}
    /\ "unknown" \notin {attributes.market, attributes.category, attributes.band}
                         \cup attributes.sources

\* A quote is a price of the venue, at most 1.
Prices == 0 .. 10000

ASSUME OrdersAreQuoted ==
  \A order \in Orders :
    order.price \in Int /\ {order.bid, order.ask} \subseteq Prices \cup {Unquoted}

VARIABLES
  reported,         \* the proposals, in the order of creation: attributes, execution, drift
  decision_reviews,
  execution_evaluations,
  outcome_snapshots,
  report            \* analyst -> the report it makes

reportVars == <<reported, decision_reviews, execution_evaluations, outcome_snapshots, report>>

NoExecution == [stage |-> "none"]
NoReport == [at |-> "idle"]

Statuses == {"pending_manual_confirmation", "approved", "cancelled"}

ReportsInit ==
  /\ reported = <<>> /\ decision_reviews = <<>> /\ execution_evaluations = <<>>
  /\ outcome_snapshots = <<>> /\ report = [a \in Analysts |-> NoReport]

reportsUnchanged ==
  UNCHANGED <<decision_reviews, execution_evaluations, outcome_snapshots, report>>

\* A proposal with its first probability snapshot.
AddProposal(attributes) ==
  /\ Len(reported) < MaxReported
  /\ reported' = Append(reported, [attributes |-> attributes, status |-> "pending_manual_confirmation",
                                   execution |-> NoExecution, drift |-> "none"])
  /\ reportsUnchanged

\* A decision; an approval stores a second snapshot, whose fair probability is
\* higher or lower; an equal one would count as in favor.
DecideProposal(i) ==
  /\ reported[i].status = "pending_manual_confirmation"
  /\ \/ \E drift \in {"up", "down"} :
          reported' = [reported EXCEPT ![i].status = "approved", ![i].drift = drift]
     \/ reported' = [reported EXCEPT ![i].status = "cancelled"]
  /\ reportsUnchanged

\* The paper execution of an intent of an approved proposal, whole.
SimulateOrder(i) ==
  /\ reported[i].status = "approved" /\ reported[i].execution = NoExecution
  /\ \E order \in Orders :
       LET request == [side |-> reported[i].attributes.side, size |-> order.size,
                       price |-> order.price, bid |-> order.bid, ask |-> order.ask,
                       ttl |-> order.ttl, cancel |-> FALSE]
       IN  \E result \in simulate_order(request) :
             reported' = [reported EXCEPT ![i].execution =
               [stage |-> result.stage, request |-> request, filled |-> result.filled,
                latency |-> order.latency * Cardinality(result.fragments),
                price |-> IF result.fragments = {} THEN Unquoted
                          ELSE (CHOOSE f \in result.fragments : TRUE).price]]
  /\ reportsUnchanged

probability_outcome(side, drift) ==
  IF drift = "none" THEN "probability_insufficient_history"
  ELSE IF (side = "yes") = (drift = "up") THEN "probability_moved_in_favor"
  ELSE "probability_moved_against"

execution_outcome(side, execution) ==
  IF execution = NoExecution \/ execution.price = Unquoted THEN "execution_not_simulated"
  ELSE LET reference == ReferencePrice(execution.request)
       IN  IF \/ side = "yes" /\ execution.price <= reference
              \/ side = "no" /\ execution.price >= reference
           THEN "execution_favorable" ELSE "execution_unfavorable"

save_review(row) == decision_reviews' = Append(decision_reviews, row)

save_evaluation(row) == execution_evaluations' = Append(execution_evaluations, row)

save_outcome(row) == outcome_snapshots' = Append(outcome_snapshots, row)

\* create_for_proposal, create_for_market: the drift and the latest execution.
create_review(i) ==
  LET side == reported[i].attributes.side
  IN  /\ Len(decision_reviews) < MaxReports
      /\ save_review([proposal |-> i,
                      probability |-> probability_outcome(side, reported[i].drift),
                      execution |-> execution_outcome(side, reported[i].execution)])
      /\ UNCHANGED <<reported, execution_evaluations, outcome_snapshots, report>>

expected_latency(size) == IF size <= 5000 THEN 250 ELSE IF size <= 10000 THEN 600 ELSE 900

\* Mutant: a price above the limit is what is praised.
BetterPrice_SignSwapped(delta) == delta > 20

\* price_delta < -0.002, whatever the side.
BetterPrice(delta) == delta < -20

\* _verdict; no price is no delta, and an order for nothing fills no share of it.
verdict(execution) ==
  LET request == execution.request
      priced == execution.price # Unquoted
      delta == execution.price - request.price
      late == execution.latency - expected_latency(request.size)
  IN  IF execution.stage = SimulatedExpired THEN "expired"
      ELSE IF execution.stage = SimulatedCancelled THEN "cancelled"
      ELSE IF request.size = 0 \/ execution.filled < request.size THEN "partially_filled"
      ELSE IF priced /\ BetterPrice(delta) /\ late <= 0 THEN "better_than_expected"
      ELSE IF (priced /\ delta > 50) \/ late > 250 THEN "worse_than_expected"
      ELSE "within_expected_range"

\* evaluate_proposal, evaluate_intent, export_execution_evaluation: refused
\* without an execution.
evaluate_proposal(i) ==
  /\ reported[i].execution # NoExecution /\ Len(execution_evaluations) < MaxReports
  /\ save_evaluation([proposal |-> i, verdict |-> verdict(reported[i].execution)])
  /\ UNCHANGED <<reported, decision_reviews, outcome_snapshots, report>>

GroupBys == {"market", "category", "source_type", "confidence_band", "verdict_type"}

\* Mutant: only the proposals that can still be acted on are listed.
ListProposals_Active ==
  {i \in DOMAIN reported : reported[i].status \in {"pending_manual_confirmation", "approved"}}

ListProposals == DOMAIN reported

\* _group_keys of a review or an evaluation; only a review has its market, only
\* an evaluation a verdict.
GroupKeys(by, item, listed) ==
  LET known == item.proposal \in listed
      attributes == reported[item.proposal].attributes
      isReview == "verdict" \notin DOMAIN item
  IN  CASE by = "verdict_type" -> {IF isReview THEN "no_verdict" ELSE item.verdict}
        [] by = "market" -> {IF isReview \/ known THEN attributes.market ELSE "unknown"}
        [] by = "category" -> {IF known THEN attributes.category ELSE "unknown"}
        [] by = "source_type" ->
             IF ~known \/ attributes.sources = {} THEN {"unknown"} ELSE attributes.sources
        [] by = "confidence_band" -> {IF known THEN attributes.band ELSE "unknown"}

\* _build_snapshot: the proposals are listed first.
summarize(a) ==
  /\ report[a] = NoReport /\ Len(outcome_snapshots) < MaxReports
  /\ \E by \in GroupBys :
       report' = [report EXCEPT ![a] = [at |-> "reviews", by |-> by, listed |-> ListProposals,
                                        began |-> Len(reported)]]
  /\ UNCHANGED <<reported, decision_reviews, execution_evaluations, outcome_snapshots>>

\* Then the reviews, of the last hours or all.
list_reviews(a) ==
  /\ report[a].at = "reviews"
  /\ \E since \in 1 .. Len(decision_reviews) + 1 :
       report' = [report EXCEPT ![a] =
         [at |-> "evaluations", by |-> @.by, listed |-> @.listed, began |-> @.began,
          reviews |-> SubSeq(decision_reviews, since, Len(decision_reviews))]]
  /\ UNCHANGED <<reported, decision_reviews, execution_evaluations, outcome_snapshots>>

\* Then the evaluations; every key gets its group.
save_analysis(a) ==
  LET r == report[a]
  IN  /\ r.at = "evaluations"
      /\ \E since \in 1 .. Len(execution_evaluations) + 1 :
           LET items == r.reviews \o SubSeq(execution_evaluations, since, Len(execution_evaluations))
               keys == UNION {GroupKeys(r.by, items[k], r.listed) : k \in DOMAIN items}
               groups == [key \in keys |->
                            {k \in DOMAIN items : key \in GroupKeys(r.by, items[k], r.listed)}]
           IN  save_outcome([by |-> r.by, began |-> r.began, items |-> items, groups |-> groups])
      /\ report' = [report EXCEPT ![a] = NoReport]
      /\ UNCHANGED <<reported, decision_reviews, execution_evaluations>>

ReportsNext ==
  \/ \E attributes \in Reported : AddProposal(attributes)
  \/ \E i \in DOMAIN reported :
       DecideProposal(i) \/ SimulateOrder(i) \/ create_review(i) \/ evaluate_proposal(i)
  \/ \E a \in Analysts : summarize(a) \/ list_reviews(a) \/ save_analysis(a)

ReportsSpec == ReportsInit /\ [][ReportsNext]_reportVars

(***************************************************************************)
(* UnknownIsNewer: an analysis counts an item as unknown only if its       *)
(* proposal was created after the analysis had listed the proposals, or    *)
(* if the proposal names no source: nothing else is lost from its group.   *)
(***************************************************************************)
UnknownIsNewer ==
  \A n \in DOMAIN outcome_snapshots :
    LET snapshot == outcome_snapshots[n]
    IN  "unknown" \in DOMAIN snapshot.groups =>
          \A k \in snapshot.groups["unknown"] :
            LET item == snapshot.items[k]
            IN  \/ item.proposal > snapshot.began
                \/ snapshot.by = "source_type" /\ reported[item.proposal].attributes.sources = {}

(***************************************************************************)
(* PraiseExplained: an execution is better than expected in its evaluation *)
(* and unfavorable in a decision review only if the book's price, or its   *)
(* stand-in, was below the limit: the two measure against another price,   *)
(* and the evaluation takes a lower price for a better one on both sides.  *)
(***************************************************************************)
PraiseExplained ==
  \A evaluation \in ToSet(execution_evaluations), review \in ToSet(decision_reviews) :
    /\ evaluation.proposal = review.proposal
    /\ evaluation.verdict = "better_than_expected"
    /\ review.execution = "execution_unfavorable"
    => LET request == reported[review.proposal].execution.request
       IN  ReferencePrice(request) < request.price
==============================================================================
