------------------------------ MODULE ReportProofs ------------------------------
(***************************************************************************)
(* Theorems about DecisionReports, for any number of analysts, proposals   *)
(* and reports.  Proposals are only added and an execution is never        *)
(* replaced, so what a report said of either stays true of what is stored. *)
(***************************************************************************)
EXTENDS DecisionReports, FiniteSetTheorems, TLAPS

(***************************************************************************)
(* The simulated order.  A fill differs from the price it is measured      *)
(* against by the slippage, at most 8 basis points, and by a rounding.     *)
(***************************************************************************)
LEMMA PriceRange ==
  /\ Prices \subseteq Int
  /\ \A x \in Prices : 0 <= x /\ x <= 10000
  /\ \A x \in Int : ~(x <= 0 \/ x > 10000) => x \in Prices
  /\ \A x \in Int : Clipped(x) \in Prices
<1>1. \A x \in Int : 0 <= Clipped(x) /\ Clipped(x) <= 10000 /\ Clipped(x) \in Int
  BY DEF Clipped
<1>2. \A x \in Int : 0 <= x /\ x <= 10000 => x \in Prices
  BY SMTT(60) DEF Prices
<1>3. \A x \in Prices : x \in Int /\ 0 <= x /\ x <= 10000
  BY DEF Prices
<1> QED
  BY <1>1, <1>2, <1>3

\* A number that is rounded to the nearest exceeds the result by at most a half.
LEMMA NearestBound ==
  ASSUME NEW num \in Int, NEW q \in Nearest(num, 10000)
  PROVE  q \in Int /\ 2 * num <= 20000 * q + 10000
  BY DEF Nearest, Distance

\* k is the slippage of the order's side.
LEMMA RoundedFill ==
  ASSUME NEW ref \in Prices, NEW k \in {-8, -6, -4, 4, 6, 8},
         NEW q \in Nearest(ref * (10000 + k), 10000)
  PROVE  Clipped(q) \in Prices /\ ref <= Clipped(q) + 10
<1> DEFINE num == ref * (10000 + k)
<1>1. ref \in Int /\ 0 <= ref /\ ref <= 10000
  BY PriceRange
<1>2. num \in Int /\ num >= 9992 * ref
  BY <1>1
<1> HIDE DEF num
<1>3. q \in Int /\ 2 * num <= 20000 * q + 10000
  BY <1>2, NearestBound DEF num
<1>4. ref <= q + 10
  BY <1>1, <1>2, <1>3
<1>5. ref <= Clipped(q) + 10
  BY <1>1, <1>3, <1>4 DEF Clipped
<1> QED
  BY <1>3, <1>5, PriceRange

\* A fill is a price, and the reference exceeds it by ten at most.
LEMMA FillIsNearReference ==
  ASSUME NEW r, r.price \in Int, {r.bid, r.ask} \subseteq Prices \cup {Unquoted},
         NEW bps \in {4, 6, 8}, ~Invalid(r), NEW p \in FillPrices(r, bps)
  PROVE  /\ p \in Prices /\ ReferencePrice(r) \in Prices
         /\ ReferencePrice(r) <= p + 10
<1> DEFINE ref == ReferencePrice(r)
<1>1. ref \in Prices
  <2>1. r.price \in Prices
    BY PriceRange DEF Invalid
  <2>2. r.price - 50 \in Int
    OBVIOUS
  <2> QED
    BY <2>1, <2>2, PriceRange DEF ReferencePrice
<1> HIDE DEF ref
<1>2. PICK direction \in {1, -1} :
        \E q \in Nearest(ref * (10000 + direction * bps), 10000) : p = Clipped(q)
  BY DEF FillPrices, ref
<1>3. direction * bps \in {-8, -6, -4, 4, 6, 8}
  OBVIOUS
<1>4. PICK k \in {-8, -6, -4, 4, 6, 8} :
        \E q \in Nearest(ref * (10000 + k), 10000) : p = Clipped(q)
  BY <1>2, <1>3
<1> QED
  BY <1>1, <1>4, RoundedFill DEF ref

(***************************************************************************)
(* The invariant.  What is stored of a proposal only grows, so a row about *)
(* it and a copy an analyst took remain true.                              *)
(***************************************************************************)
Priced(side, e) ==
  /\ e.request.side = side /\ e.request.price \in Int
  /\ e.price # Unquoted =>
       /\ e.price \in Prices /\ ReferencePrice(e.request) \in Prices
       /\ ReferencePrice(e.request) <= e.price + 10

IsReported(p) ==
  /\ p \in [attributes : Reported, status : {p.status}, execution : {p.execution},
            drift : {p.drift}]
  /\ p.execution # NoExecution => Priced(p.attributes.side, p.execution)

Verdicts == {"expired", "cancelled", "partially_filled", "better_than_expected",
             "worse_than_expected", "within_expected_range"}

\* A review or an evaluation of one of the first n proposals.
IsReview(item, n) ==
  item \in [proposal : 1 .. n, probability : {item.probability}, execution : {item.execution}]

IsEvaluation(item, n) == item \in [proposal : 1 .. n, verdict : Verdicts]

IsItem(item, n) == IsReview(item, n) \/ IsEvaluation(item, n)

\* An unfavorable review and a praising evaluation are about the execution
\* that is stored.
ReviewTells(item, p) ==
  item.execution = "execution_unfavorable" =>
    /\ p.execution # NoExecution
    /\ execution_outcome(p.attributes.side, p.execution) = "execution_unfavorable"

EvaluationTells(item, p) ==
  item.verdict = "better_than_expected" =>
    /\ p.execution # NoExecution
    /\ verdict(p.execution) = "better_than_expected"

Rows ==
  /\ \E S : reported \in Seq(S)
  /\ \A i \in DOMAIN reported : IsReported(reported[i])

Reviews ==
  /\ \E S : decision_reviews \in Seq(S)
  /\ \A i \in DOMAIN decision_reviews :
       /\ IsReview(decision_reviews[i], Len(reported))
       /\ ReviewTells(decision_reviews[i], reported[decision_reviews[i].proposal])

Evaluations ==
  /\ \E S : execution_evaluations \in Seq(S)
  /\ \A i \in DOMAIN execution_evaluations :
       /\ IsEvaluation(execution_evaluations[i], Len(reported))
       /\ EvaluationTells(execution_evaluations[i], reported[execution_evaluations[i].proposal])

Copies ==
  /\ report = [a \in Analysts |-> report[a]]
  /\ \A a \in Analysts :
       LET r == report[a]
       IN  r.at # "idle" =>
             /\ r.began \in 0 .. Len(reported) /\ r.listed = 1 .. r.began
             /\ r.by \in GroupBys
             /\ r.at = "evaluations" =>
                  /\ \E S : r.reviews \in Seq(S)
                  /\ \A k \in DOMAIN r.reviews : IsReview(r.reviews[k], Len(reported))

\* A group of unknown items holds nothing that was there to be listed.
UnknownFits(s) ==
  "unknown" \in DOMAIN s.groups =>
    \A k \in s.groups["unknown"] :
      LET item == s.items[k]
      IN  /\ item.proposal \in 1 .. Len(reported)
          /\ \/ item.proposal > s.began
             \/ s.by = "source_type" /\ reported[item.proposal].attributes.sources = {}

Snapshots ==
  /\ \E S : outcome_snapshots \in Seq(S)
  /\ \A n \in DOMAIN outcome_snapshots : UnknownFits(outcome_snapshots[n])

ReportsInv == Rows /\ Reviews /\ Evaluations /\ Copies /\ Snapshots

\* Proposals are added at the end; what is there keeps its attributes and the
\* execution it has.
Grows ==
  /\ Len(reported) \in Nat /\ Len(reported') \in Nat /\ Len(reported) <= Len(reported')
  /\ DOMAIN reported = 1 .. Len(reported) /\ DOMAIN reported' = 1 .. Len(reported')
  /\ \A i \in DOMAIN reported :
       /\ reported'[i].attributes = reported[i].attributes
       /\ reported[i].execution # NoExecution => reported'[i].execution = reported[i].execution

\* A table with one row more.
LEMMA AppendedRows ==
  ASSUME NEW S, NEW rows \in Seq(S), NEW row, NEW new, new = Append(rows, row)
  PROVE  /\ \E T : new \in Seq(T)
         /\ Len(rows) \in Nat /\ DOMAIN rows = 1 .. Len(rows)
         /\ Len(new) = Len(rows) + 1 /\ DOMAIN new = 1 .. Len(rows) + 1
         /\ \A i \in DOMAIN rows : new[i] = rows[i]
         /\ new[Len(rows) + 1] = row
<1>1. rows \in Seq(S \cup {row}) /\ row \in S \cup {row}
  <2>1. Len(rows) \in Nat /\ rows \in [1 .. Len(rows) -> S]
    OBVIOUS
  <2>2. rows \in [1 .. Len(rows) -> S \cup {row}]
    BY <2>1
  <2> QED
    BY <2>1, <2>2
<1>2. Append(rows, row) \in Seq(S \cup {row})
  BY <1>1
<1> QED
  BY <1>1, <1>2

\* A table with one row replaced.
LEMMA ReplacedRow ==
  ASSUME NEW S, NEW rows \in Seq(S), NEW i \in DOMAIN rows, NEW row
  PROVE  /\ \E T : [rows EXCEPT ![i] = row] \in Seq(T)
         /\ DOMAIN [rows EXCEPT ![i] = row] = DOMAIN rows
         /\ Len([rows EXCEPT ![i] = row]) = Len(rows)
         /\ \A j \in DOMAIN rows : [rows EXCEPT ![i] = row][j] = IF j = i THEN row ELSE rows[j]
<1>1. Len(rows) \in Nat /\ rows \in [1 .. Len(rows) -> S] /\ DOMAIN rows = 1 .. Len(rows)
  OBVIOUS
<1>2. [rows EXCEPT ![i] = row] \in [1 .. Len(rows) -> S \cup {row}]
  BY <1>1
<1>3. [rows EXCEPT ![i] = row] \in Seq(S \cup {row})
  BY <1>1, <1>2
<1>4. Len([rows EXCEPT ![i] = row]) = Len(rows)
  BY <1>1, <1>3
<1> QED
  BY <1>1, <1>3, <1>4

\* A proposal without an execution is well formed.
LEMMA NewProposal ==
  ASSUME NEW attributes \in Reported, NEW drift, NEW status
  PROVE  IsReported([attributes |-> attributes, status |-> status,
                     execution |-> NoExecution, drift |-> drift])
  BY DEF IsReported

\* A simulated order leaves an execution whose price is near its reference.
LEMMA ExecutedOrder ==
  ASSUME NEW side, NEW order \in Orders, NEW request, NEW result, NEW e,
         request = [side |-> side, size |-> order.size, price |-> order.price, bid |-> order.bid,
                    ask |-> order.ask, ttl |-> order.ttl, cancel |-> FALSE],
         result \in simulate_order(request),
         e = [stage |-> result.stage, request |-> request, filled |-> result.filled,
              latency |-> order.latency * Cardinality(result.fragments),
              price |-> IF result.fragments = {} THEN Unquoted
                        ELSE (CHOOSE f \in result.fragments : TRUE).price]
  PROVE  Priced(side, e) /\ e # NoExecution
<1>1. /\ request.side = side /\ request.price \in Int
      /\ {request.bid, request.ask} \subseteq Prices \cup {Unquoted}
  BY OrdersAreQuoted
<1>2. e.request = request /\ e.stage = result.stage
      /\ e.price = IF result.fragments = {} THEN Unquoted
                   ELSE (CHOOSE f \in result.fragments : TRUE).price
  OBVIOUS
<1>3. result.stage # "none"
  BY DEF simulate_order, Scenarios, SimulatedRejected, SimulatedCancelled, SimulatedExpired,
         SimulatedFilled
<1>4. ASSUME e.price # Unquoted
      PROVE  /\ e.price \in Prices /\ ReferencePrice(request) \in Prices
             /\ ReferencePrice(request) <= e.price + 10
  <2>1. result.fragments # {} /\ ~Invalid(request)
    <3>1. result.fragments # {}
      BY <1>2, <1>4
    <3>2. Invalid(request) => result.fragments = {}
      BY DEF simulate_order
    <3> QED
      BY <3>1, <3>2
  <2> DEFINE Outcomes(s) == {[stage |-> s.stage, filled |-> Filled(request, s.sizes),
                              fragments |-> Fragments(request, s.sizes, price)] :
                               price \in FillPrices(request, s.bps)}
  <2>7. simulate_order(request) = UNION {Outcomes(s) : s \in Scenarios(request)}
    BY <2>1 DEF simulate_order
  <2>8. PICK s \in Scenarios(request) : result \in Outcomes(s)
    BY <2>7
  <2>2. PICK price \in FillPrices(request, s.bps) :
          result = [stage |-> s.stage, filled |-> Filled(request, s.sizes),
                    fragments |-> Fragments(request, s.sizes, price)]
    BY <2>8
  <2>3. result.fragments = Fragments(request, s.sizes, price)
    BY <2>2
  <2>4. \A f \in result.fragments : f.price = price
    BY <2>3 DEF Fragments
  <2>5. e.price = price
    BY <1>2, <2>1, <2>4
  <2>6. s.bps \in {4, 6, 8}
    BY DEF Scenarios
  <2> QED
    BY <1>1, <2>1, <2>5, <2>6, FillIsNearReference
<1> QED
  BY <1>1, <1>2, <1>3, <1>4 DEF Priced, NoExecution

\* A proposal is added, decided or simulated; the reports are not touched.
ProposalSteps ==
  \/ \E attributes \in Reported : AddProposal(attributes)
  \/ \E i \in DOMAIN reported : DecideProposal(i) \/ SimulateOrder(i)

\* A step that leaves the proposals alone.
LEMMA ProposalsStay ==
  ASSUME Rows, UNCHANGED reported
  PROVE  Rows' /\ Grows
  BY DEF Rows, Grows

\* A step of a proposal keeps its attributes and an execution once made.
LEMMA ProposalsGrow ==
  ASSUME Rows, ProposalSteps
  PROVE  Rows' /\ Grows
<1>0. PICK S : reported \in Seq(S)
  BY DEF Rows
<1>1. ASSUME NEW attributes \in Reported, AddProposal(attributes)
      PROVE  Rows' /\ Grows
  <2> DEFINE new == [attributes |-> attributes, status |-> "pending_manual_confirmation",
                     execution |-> NoExecution, drift |-> "none"]
  <2>1. reported' = Append(reported, new)
    BY <1>1 DEF AddProposal
  <2>2. IsReported(new)
    BY NewProposal
  <2> HIDE DEF new
  <2>3. /\ \E T : reported' \in Seq(T)
        /\ Len(reported) \in Nat /\ DOMAIN reported = 1 .. Len(reported)
        /\ Len(reported') = Len(reported) + 1 /\ DOMAIN reported' = 1 .. Len(reported) + 1
        /\ \A i \in DOMAIN reported : reported'[i] = reported[i]
        /\ reported'[Len(reported) + 1] = new
    BY <1>0, <2>1, AppendedRows
  <2>4. \A i \in DOMAIN reported' : IsReported(reported'[i])
    BY <2>2, <2>3 DEF Rows
  <2> QED
    BY <2>3, <2>4 DEF Rows, Grows
<1>2. ASSUME NEW i \in DOMAIN reported, NEW new, reported' = [reported EXCEPT ![i] = new],
             IsReported(new), new.attributes = reported[i].attributes,
             reported[i].execution # NoExecution => new.execution = reported[i].execution
      PROVE  Rows' /\ Grows
  <2>1. /\ \E T : reported' \in Seq(T)
        /\ DOMAIN reported' = DOMAIN reported /\ Len(reported') = Len(reported)
        /\ Len(reported) \in Nat /\ DOMAIN reported = 1 .. Len(reported)
        /\ \A j \in DOMAIN reported : reported'[j] = IF j = i THEN new ELSE reported[j]
    BY <1>0, <1>2, ReplacedRow
  <2>2. \A j \in DOMAIN reported' : IsReported(reported'[j])
    BY <1>2, <2>1 DEF Rows
  <2> QED
    BY <1>2, <2>1, <2>2 DEF Rows, Grows
<1>3. ASSUME NEW i \in DOMAIN reported, DecideProposal(i)
      PROVE  Rows' /\ Grows
  <2> DEFINE p == reported[i]
  <2>1. IsReported(p)
    BY DEF Rows
  <2>2. PICK status, drift :
          reported' = [reported EXCEPT ![i] = [p EXCEPT !.status = status, !.drift = drift]]
    <3>1. \A drift : [reported EXCEPT ![i].status = "approved", ![i].drift = drift]
             = [reported EXCEPT ![i] = [p EXCEPT !.status = "approved", !.drift = drift]]
      OBVIOUS
    <3>2. [reported EXCEPT ![i].status = "cancelled"]
             = [reported EXCEPT ![i] = [p EXCEPT !.status = "cancelled", !.drift = p.drift]]
      BY <2>1 DEF IsReported
    <3>3. \/ \E drift \in {"up", "down"} :
               reported' = [reported EXCEPT ![i].status = "approved", ![i].drift = drift]
          \/ reported' = [reported EXCEPT ![i].status = "cancelled"]
      BY <1>3 DEF DecideProposal
    <3>4. CASE \E drift \in {"up", "down"} :
                 reported' = [reported EXCEPT ![i].status = "approved", ![i].drift = drift]
      <4>1. PICK drift :
              reported' = [reported EXCEPT ![i].status = "approved", ![i].drift = drift]
        BY <3>4
      <4> QED
        BY <3>1, <4>1
    <3>5. CASE reported' = [reported EXCEPT ![i].status = "cancelled"]
      BY <3>2, <3>5
    <3> QED
      BY <3>3, <3>4, <3>5
  <2> DEFINE new == [p EXCEPT !.status = status, !.drift = drift]
  <2> HIDE DEF p
  <2>3. IsReported(new) /\ new.attributes = p.attributes /\ new.execution = p.execution
    BY <2>1 DEF IsReported
  <2> QED
    BY <1>2, <2>2, <2>3 DEF p
<1>4. ASSUME NEW i \in DOMAIN reported, SimulateOrder(i)
      PROVE  Rows' /\ Grows
  <2> DEFINE p == reported[i]
  <2>1. IsReported(p) /\ p.execution = NoExecution
    BY <1>4 DEF Rows, SimulateOrder
  <2>2. PICK e : /\ reported' = [reported EXCEPT ![i].execution = e]
                 /\ Priced(p.attributes.side, e) /\ e # NoExecution
    <3> DEFINE Request(order) ==
                 [side |-> p.attributes.side, size |-> order.size, price |-> order.price,
                  bid |-> order.bid, ask |-> order.ask, ttl |-> order.ttl, cancel |-> FALSE]
               Execution(order, result) ==
                 [stage |-> result.stage, request |-> Request(order), filled |-> result.filled,
                  latency |-> order.latency * Cardinality(result.fragments),
                  price |-> IF result.fragments = {} THEN Unquoted
                            ELSE (CHOOSE f \in result.fragments : TRUE).price]
    <3>1. PICK order \in Orders : \E result \in simulate_order(Request(order)) :
            reported' = [reported EXCEPT ![i].execution = Execution(order, result)]
      BY <1>4 DEF SimulateOrder
    <3>2. PICK result \in simulate_order(Request(order)) :
            reported' = [reported EXCEPT ![i].execution = Execution(order, result)]
      BY <3>1
    <3>3. Priced(p.attributes.side, Execution(order, result))
          /\ Execution(order, result) # NoExecution
      BY ExecutedOrder
    <3> QED
      BY <3>2, <3>3
  <2> DEFINE new == [p EXCEPT !.execution = e]
  <2>3. reported' = [reported EXCEPT ![i] = new]
    BY <2>2
  <2> HIDE DEF p
  <2>4. IsReported(new) /\ new.attributes = p.attributes
    BY <2>1, <2>2 DEF IsReported
  <2> HIDE DEF new
  <2> QED
    BY <1>2, <2>1, <2>3, <2>4 DEF p
<1> QED
  BY <1>1, <1>3, <1>4 DEF ProposalSteps

(***************************************************************************)
(* What is stored, and what an analyst copied, while proposals grow.       *)
(***************************************************************************)
LEMMA ReviewsStay ==
  ASSUME Rows, Grows, Reviews, UNCHANGED decision_reviews
  PROVE  Reviews'
<1>1. ASSUME NEW i \in DOMAIN decision_reviews
      PROVE  /\ IsReview(decision_reviews[i], Len(reported'))
             /\ ReviewTells(decision_reviews[i], reported'[decision_reviews[i].proposal])
  <2> DEFINE item == decision_reviews[i]
  <2>1. IsReview(item, Len(reported)) /\ ReviewTells(item, reported[item.proposal])
    BY <1>1 DEF Reviews
  <2>2. item.proposal \in DOMAIN reported
    BY <2>1 DEF IsReview, Grows
  <2>3. IsReview(item, Len(reported'))
    BY <2>1 DEF IsReview, Grows
  <2>4. ReviewTells(item, reported'[item.proposal])
    BY <2>1, <2>2 DEF ReviewTells, Grows
  <2> QED
    BY <2>3, <2>4
<1> QED
  BY <1>1 DEF Reviews

\* An evaluation stays true to an execution that never changes.
LEMMA EvaluationsStay ==
  ASSUME Rows, Grows, Evaluations, UNCHANGED execution_evaluations
  PROVE  Evaluations'
<1>1. ASSUME NEW i \in DOMAIN execution_evaluations
      PROVE  /\ IsEvaluation(execution_evaluations[i], Len(reported'))
             /\ EvaluationTells(execution_evaluations[i],
                                reported'[execution_evaluations[i].proposal])
  <2> DEFINE item == execution_evaluations[i]
  <2>1. IsEvaluation(item, Len(reported)) /\ EvaluationTells(item, reported[item.proposal])
    BY <1>1 DEF Evaluations
  <2>2. item.proposal \in DOMAIN reported
    BY <2>1 DEF IsEvaluation, Grows
  <2>3. IsEvaluation(item, Len(reported'))
    BY <2>1 DEF IsEvaluation, Grows
  <2>4. EvaluationTells(item, reported'[item.proposal])
    BY <2>1, <2>2 DEF EvaluationTells, Grows
  <2> QED
    BY <2>3, <2>4
<1> QED
  BY <1>1 DEF Evaluations

\* So does what an analyst has read.
LEMMA CopiesStay ==
  ASSUME Grows, Copies, UNCHANGED report
  PROVE  Copies'
<1>1. ASSUME NEW a \in Analysts, report[a].at # "idle"
      PROVE  LET r == report[a]
             IN  /\ r.began \in 0 .. Len(reported') /\ r.listed = 1 .. r.began
                 /\ r.by \in GroupBys
                 /\ r.at = "evaluations" =>
                      /\ \E S : r.reviews \in Seq(S)
                      /\ \A k \in DOMAIN r.reviews : IsReview(r.reviews[k], Len(reported'))
  <2> DEFINE r == report[a]
  <2>1. /\ r.began \in 0 .. Len(reported) /\ r.listed = 1 .. r.began
        /\ r.by \in GroupBys
        /\ r.at = "evaluations" =>
             /\ \E S : r.reviews \in Seq(S)
             /\ \A k \in DOMAIN r.reviews : IsReview(r.reviews[k], Len(reported))
    BY <1>1 DEF Copies
  <2> HIDE DEF r
  <2>2. Len(reported) \in Nat /\ Len(reported') \in Nat /\ Len(reported) <= Len(reported')
    BY DEF Grows
  <2>3. \A item : IsReview(item, Len(reported)) => IsReview(item, Len(reported'))
    BY <2>2 DEF IsReview
  <2> QED
    BY <2>1, <2>2, <2>3 DEF r
<1> QED
  BY <1>1 DEF Copies

\* So does a stored analysis.
LEMMA SnapshotsStay ==
  ASSUME Grows, Snapshots, UNCHANGED outcome_snapshots
  PROVE  Snapshots'
<1>1. ASSUME NEW n \in DOMAIN outcome_snapshots, "unknown" \in DOMAIN outcome_snapshots[n].groups,
             NEW k \in outcome_snapshots[n].groups["unknown"]
      PROVE  LET item == outcome_snapshots[n].items[k]
             IN  /\ item.proposal \in 1 .. Len(reported')
                 /\ \/ item.proposal > outcome_snapshots[n].began
                    \/ /\ outcome_snapshots[n].by = "source_type"
                       /\ reported'[item.proposal].attributes.sources = {}
  <2> DEFINE item == outcome_snapshots[n].items[k]
  <2>1. /\ item.proposal \in 1 .. Len(reported)
        /\ \/ item.proposal > outcome_snapshots[n].began
           \/ /\ outcome_snapshots[n].by = "source_type"
              /\ reported[item.proposal].attributes.sources = {}
    BY <1>1 DEF Snapshots, UnknownFits
  <2> HIDE DEF item
  <2>2. item.proposal \in 1 .. Len(reported') /\ item.proposal \in DOMAIN reported
    BY <2>1 DEF Grows
  <2> QED
    BY <2>1, <2>2 DEF Grows, item
<1> QED
  BY SMTT(60), <1>1 DEF Snapshots, UnknownFits

\* A new row comes last in its table.
LEMMA ReviewsAppended ==
  ASSUME ReportsInv, Grows, UNCHANGED reported, NEW row, save_review(row),
         IsReview(row, Len(reported)), ReviewTells(row, reported[row.proposal])
  PROVE  Reviews'
<1>1. PICK S : decision_reviews \in Seq(S)
  BY DEF ReportsInv, Reviews
<1>2. /\ \E T : decision_reviews' \in Seq(T)
      /\ DOMAIN decision_reviews = 1 .. Len(decision_reviews)
      /\ DOMAIN decision_reviews' = 1 .. Len(decision_reviews) + 1
      /\ Len(decision_reviews) \in Nat
      /\ \A i \in DOMAIN decision_reviews : decision_reviews'[i] = decision_reviews[i]
      /\ decision_reviews'[Len(decision_reviews) + 1] = row
  BY <1>1, AppendedRows DEF save_review
<1> QED
  BY <1>2 DEF Reviews, ReportsInv

\* A true evaluation may be stored.
LEMMA EvaluationsAppended ==
  ASSUME ReportsInv, Grows, UNCHANGED reported, NEW row, save_evaluation(row),
         IsEvaluation(row, Len(reported)), EvaluationTells(row, reported[row.proposal])
  PROVE  Evaluations'
<1>1. PICK S : execution_evaluations \in Seq(S)
  BY DEF ReportsInv, Evaluations
<1>2. /\ \E T : execution_evaluations' \in Seq(T)
      /\ DOMAIN execution_evaluations = 1 .. Len(execution_evaluations)
      /\ DOMAIN execution_evaluations' = 1 .. Len(execution_evaluations) + 1
      /\ Len(execution_evaluations) \in Nat
      /\ \A i \in DOMAIN execution_evaluations :
           execution_evaluations'[i] = execution_evaluations[i]
      /\ execution_evaluations'[Len(execution_evaluations) + 1] = row
  BY <1>1, AppendedRows DEF save_evaluation
<1> QED
  BY <1>2 DEF Evaluations, ReportsInv

\* An analysis whose unknown items fit may be stored.
LEMMA SnapshotsAppended ==
  ASSUME ReportsInv, Grows, UNCHANGED reported, NEW row, save_outcome(row), UnknownFits(row)
  PROVE  Snapshots'
<1>1. PICK S : outcome_snapshots \in Seq(S)
  BY DEF ReportsInv, Snapshots
<1>2. /\ \E T : outcome_snapshots' \in Seq(T)
      /\ DOMAIN outcome_snapshots = 1 .. Len(outcome_snapshots)
      /\ DOMAIN outcome_snapshots' = 1 .. Len(outcome_snapshots) + 1
      /\ Len(outcome_snapshots) \in Nat
      /\ \A i \in DOMAIN outcome_snapshots : outcome_snapshots'[i] = outcome_snapshots[i]
      /\ outcome_snapshots'[Len(outcome_snapshots) + 1] = row
  BY <1>1, AppendedRows DEF save_outcome
<1>3. \A n \in DOMAIN outcome_snapshots' : UnknownFits(outcome_snapshots'[n])
  BY <1>2 DEF Snapshots, ReportsInv
<1> QED
  BY <1>2, <1>3 DEF Snapshots, UnknownFits

\* The last items of a table are items of the table.
LEMMA LastItems ==
  ASSUME NEW S, NEW t \in Seq(S), NEW since \in 1 .. Len(t) + 1
  PROVE  /\ SubSeq(t, since, Len(t)) \in Seq(S)
         /\ \A k \in DOMAIN SubSeq(t, since, Len(t)) :
              \E i \in DOMAIN t : SubSeq(t, since, Len(t))[k] = t[i]
<1> DEFINE u == SubSeq(t, since, Len(t))
<1>1. /\ u \in Seq(S) /\ Len(u) = Len(t) - since + 1
      /\ \A k \in 1 .. Len(u) : u[k] = t[since + k - 1]
      /\ Len(t) \in Nat /\ DOMAIN t = 1 .. Len(t)
  OBVIOUS
<1> HIDE DEF u
<1>2. DOMAIN u = 1 .. Len(u)
  BY <1>1
<1>3. \A k \in 1 .. Len(u) : since + k - 1 \in 1 .. Len(t)
  BY <1>1
<1>4. u \in Seq(S) /\ \A k \in DOMAIN u : \E i \in DOMAIN t : u[k] = t[i]
  BY <1>1, <1>2, <1>3
<1> QED
  BY <1>4 DEF u

\* An item of two tables together is of one of them.
LEMMA ConcatenatedItems ==
  ASSUME NEW S, NEW T, NEW s \in Seq(S), NEW u \in Seq(T), NEW k \in DOMAIN (s \o u)
  PROVE  \/ \E i \in DOMAIN s : (s \o u)[k] = s[i]
         \/ \E i \in DOMAIN u : (s \o u)[k] = u[i]
<1>1. s \in Seq(S \cup T) /\ u \in Seq(S \cup T)
  OBVIOUS
<1>2. /\ Len(s) \in Nat /\ Len(u) \in Nat
      /\ DOMAIN s = 1 .. Len(s) /\ DOMAIN u = 1 .. Len(u) /\ Len(s \o u) = Len(s) + Len(u)
  BY <1>1
<1>3. DOMAIN (s \o u) = 1 .. Len(s) + Len(u)
  BY <1>1, <1>2
<1>4. \A i \in 1 .. Len(s) + Len(u) :
        (s \o u)[i] = IF i <= Len(s) THEN s[i] ELSE u[i - Len(s)]
  BY <1>1, <1>2
<1>5. k \in 1 .. Len(s) + Len(u)
  BY <1>3
<1>6. CASE k <= Len(s)
  BY <1>2, <1>4, <1>5, <1>6
<1>7. CASE k > Len(s)
  <2>1. (s \o u)[k] = u[k - Len(s)] /\ k - Len(s) \in 1 .. Len(u)
    BY <1>2, <1>4, <1>5, <1>7
  <2> QED
    BY <1>2, <2>1
<1> QED
  BY <1>2, <1>5, <1>6, <1>7

\* An item that falls under "unknown".
LEMMA UnknownItem ==
  ASSUME Rows, DOMAIN reported = 1 .. Len(reported), Len(reported) \in Nat,
         NEW item, IsItem(item, Len(reported)),
         NEW began \in 0 .. Len(reported), NEW by \in GroupBys,
         "unknown" \in GroupKeys(by, item, 1 .. began)
  PROVE  /\ item.proposal \in 1 .. Len(reported)
         /\ \/ item.proposal > began
            \/ by = "source_type" /\ reported[item.proposal].attributes.sources = {}
<1> DEFINE attributes == reported[item.proposal].attributes
<1>1. /\ item.proposal \in 1 .. Len(reported)
      /\ IF "verdict" \in DOMAIN item THEN item.verdict \in Verdicts ELSE TRUE
  BY DEF IsItem, IsReview, IsEvaluation
<1>2. attributes \in Reported
  BY <1>1 DEF Rows, IsReported
<1>3. "unknown" \notin {attributes.market, attributes.category, attributes.band}
                       \cup attributes.sources
  BY <1>2, ProposalsAreNamed
<1>4. item.proposal \notin 1 .. began <=> item.proposal > began
  BY <1>1
<1>5. CASE by = "verdict_type"
  BY <1>1, <1>5 DEF GroupKeys, Verdicts
<1>6. CASE by = "market"
  BY <1>1, <1>3, <1>4, <1>6 DEF GroupKeys
<1>7. CASE by = "category"
  BY <1>1, <1>3, <1>4, <1>7 DEF GroupKeys
<1>8. CASE by = "source_type"
  BY <1>1, <1>3, <1>4, <1>8 DEF GroupKeys
<1>9. CASE by = "confidence_band"
  BY <1>1, <1>3, <1>4, <1>9 DEF GroupKeys
<1> QED
  BY <1>5, <1>6, <1>7, <1>8, <1>9 DEF GroupBys

(***************************************************************************)
(* The steps.                                                              *)
(***************************************************************************)
LEMMA ReviewCreated ==
  ASSUME ReportsInv, Grows, NEW i \in DOMAIN reported, create_review(i)
  PROVE  Reviews'
<1> DEFINE side == reported[i].attributes.side
           row == [proposal |-> i, probability |-> probability_outcome(side, reported[i].drift),
                   execution |-> execution_outcome(side, reported[i].execution)]
<1>1. save_review(row) /\ UNCHANGED reported
  BY DEF create_review
<1>2. IsReview(row, Len(reported))
  BY DEF IsReview, Grows
<1>3. ReviewTells(row, reported[row.proposal])
  BY DEF ReviewTells, execution_outcome
<1> HIDE DEF row
<1> QED
  BY <1>1, <1>2, <1>3, ReviewsAppended

\* A verdict is one of the known ones.
LEMMA VerdictIsKnown == ASSUME NEW e  PROVE verdict(e) \in Verdicts
  BY DEF verdict, Verdicts

\* Evaluating a proposal stores a true evaluation.
LEMMA ProposalEvaluated ==
  ASSUME ReportsInv, Grows, NEW i \in DOMAIN reported, evaluate_proposal(i)
  PROVE  Evaluations'
<1> DEFINE row == [proposal |-> i, verdict |-> verdict(reported[i].execution)]
<1>1. save_evaluation(row) /\ UNCHANGED reported /\ reported[i].execution # NoExecution
  BY DEF evaluate_proposal
<1>2. IsEvaluation(row, Len(reported))
  BY VerdictIsKnown DEF IsEvaluation, Grows
<1>3. EvaluationTells(row, reported[row.proposal])
  BY <1>1 DEF EvaluationTells
<1> HIDE DEF row
<1> QED
  BY <1>1, <1>2, <1>3, EvaluationsAppended

\* An analysis begins with all the proposals there are.
LEMMA AnalysisBegun ==
  ASSUME ReportsInv, Grows, NEW a \in Analysts, summarize(a)
  PROVE  Copies'
<1>1. PICK by \in GroupBys :
        report' = [report EXCEPT ![a] = [at |-> "reviews", by |-> by, listed |-> ListProposals,
                                         began |-> Len(reported)]]
  BY DEF summarize
<1>2. ListProposals = 1 .. Len(reported) /\ Len(reported) \in 0 .. Len(reported)
  BY DEF ListProposals, Grows
<1>3. UNCHANGED reported /\ report = [b \in Analysts |-> report[b]]
  BY DEF summarize, ReportsInv, Copies
<1>4. \A b \in Analysts : report'[b] = IF b = a THEN [at |-> "reviews", by |-> by,
                                          listed |-> ListProposals, began |-> Len(reported)]
                                       ELSE report[b]
  BY <1>1, <1>3
<1>5. report' = [b \in Analysts |-> report'[b]]
  BY <1>1, <1>3
<1> QED
  BY <1>2, <1>3, <1>4, <1>5 DEF ReportsInv, Copies

\* It reads the reviews, which may be about newer proposals.
LEMMA ReviewsListed ==
  ASSUME ReportsInv, Grows, NEW a \in Analysts, list_reviews(a)
  PROVE  Copies'
<1> DEFINE r == report[a]
<1>1. PICK since \in 1 .. Len(decision_reviews) + 1 :
        report' = [report EXCEPT ![a] =
          [at |-> "evaluations", by |-> r.by, listed |-> r.listed, began |-> r.began,
           reviews |-> SubSeq(decision_reviews, since, Len(decision_reviews))]]
  BY DEF list_reviews
<1> DEFINE u == SubSeq(decision_reviews, since, Len(decision_reviews))
           new == [at |-> "evaluations", by |-> r.by, listed |-> r.listed, began |-> r.began,
                   reviews |-> u]
<1>2. UNCHANGED reported /\ report = [b \in Analysts |-> report[b]] /\ r.at = "reviews"
  BY DEF list_reviews, ReportsInv, Copies
<1>3. r.began \in 0 .. Len(reported) /\ r.listed = 1 .. r.began /\ r.by \in GroupBys
  BY <1>2 DEF ReportsInv, Copies
<1>4. PICK S : decision_reviews \in Seq(S)
  BY DEF ReportsInv, Reviews
<1>5. /\ u \in Seq(S)
      /\ \A k \in DOMAIN u : \E i \in DOMAIN decision_reviews : u[k] = decision_reviews[i]
  BY <1>4, LastItems
<1> HIDE DEF u
<1>6. \A k \in DOMAIN u : IsReview(u[k], Len(reported))
  BY <1>5 DEF ReportsInv, Reviews
<1>7. \A b \in Analysts : report'[b] = IF b = a THEN new ELSE report[b]
  BY <1>1, <1>2 DEF u
<1>8. report' = [b \in Analysts |-> report'[b]]
  BY <1>1, <1>2
<1>9. /\ new.at = "evaluations" /\ new.by = r.by /\ new.listed = r.listed /\ new.began = r.began
      /\ new.reviews = u
  OBVIOUS
<1> HIDE DEF new, r
<1> QED
  BY <1>2, <1>3, <1>5, <1>6, <1>7, <1>8, <1>9 DEF ReportsInv, Copies

\* It stores groups in which an unknown item is newer or names no source.
LEMMA AnalysisSaved ==
  ASSUME ReportsInv, Grows, NEW a \in Analysts, save_analysis(a)
  PROVE  Snapshots' /\ Copies'
<1> DEFINE r == report[a]
           items(since) ==
             r.reviews \o SubSeq(execution_evaluations, since, Len(execution_evaluations))
           keys(since) ==
             UNION {GroupKeys(r.by, items(since)[k], r.listed) : k \in DOMAIN items(since)}
           groups(since) ==
             [key \in keys(since) |->
                {k \in DOMAIN items(since) : key \in GroupKeys(r.by, items(since)[k], r.listed)}]
           row(since) == [by |-> r.by, began |-> r.began, items |-> items(since),
                          groups |-> groups(since)]
<1>1. PICK since \in 1 .. Len(execution_evaluations) + 1 : save_outcome(row(since))
  BY DEF save_analysis
<1>2. /\ UNCHANGED reported /\ report = [b \in Analysts |-> report[b]] /\ r.at = "evaluations"
      /\ report' = [report EXCEPT ![a] = NoReport]
  BY DEF save_analysis, ReportsInv, Copies
<1>3. /\ r.began \in 0 .. Len(reported) /\ r.listed = 1 .. r.began /\ r.by \in GroupBys
      /\ \A k \in DOMAIN r.reviews : IsReview(r.reviews[k], Len(reported))
  BY <1>2 DEF ReportsInv, Copies
<1>4. PICK S : r.reviews \in Seq(S)
  BY <1>2 DEF ReportsInv, Copies
<1>5. PICK T : execution_evaluations \in Seq(T)
  BY DEF ReportsInv, Evaluations
<1>6. \A k \in DOMAIN execution_evaluations : IsEvaluation(execution_evaluations[k], Len(reported))
  BY DEF ReportsInv, Evaluations
<1>7. \A k \in DOMAIN items(since) : IsItem(items(since)[k], Len(reported))
  <2> SUFFICES ASSUME NEW k \in DOMAIN items(since)
               PROVE  IsItem(items(since)[k], Len(reported))
    OBVIOUS
  <2>1. \/ \E i \in DOMAIN r.reviews : items(since)[k] = r.reviews[i]
        \/ \E i \in DOMAIN execution_evaluations : items(since)[k] = execution_evaluations[i]
    <3>1. PICK s, u : s = r.reviews
                      /\ u = SubSeq(execution_evaluations, since, Len(execution_evaluations))
      OBVIOUS
    <3>2. s \in Seq(S) /\ u \in Seq(T) /\ items(since) = s \o u
      BY <1>4, <1>5, <3>1, LastItems
    <3>3. \A i \in DOMAIN u : \E j \in DOMAIN execution_evaluations :
            u[i] = execution_evaluations[j]
      BY <1>5, <3>1, LastItems
    <3>4. k \in DOMAIN (s \o u)
      BY <3>2
    <3>5. \/ \E i \in DOMAIN s : (s \o u)[k] = s[i]
          \/ \E i \in DOMAIN u : (s \o u)[k] = u[i]
      BY <3>2, <3>4, ConcatenatedItems
    <3> QED
      BY <3>1, <3>2, <3>3, <3>5
  <2> QED
    BY <1>3, <1>6, <2>1 DEF IsItem
<1> HIDE DEF items
<1>8. UnknownFits(row(since))
  <2> SUFFICES ASSUME "unknown" \in keys(since), NEW k \in groups(since)["unknown"]
               PROVE  LET item == items(since)[k]
                      IN  /\ item.proposal \in 1 .. Len(reported)
                          /\ \/ item.proposal > r.began
                             \/ /\ r.by = "source_type"
                                /\ reported[item.proposal].attributes.sources = {}
    BY DEF UnknownFits
  <2>1. /\ k \in DOMAIN items(since)
        /\ "unknown" \in GroupKeys(r.by, items(since)[k], 1 .. r.began)
    BY <1>3
  <2>2. IsItem(items(since)[k], Len(reported))
    BY <1>7, <2>1
  <2> QED
    BY <1>3, <2>1, <2>2, UnknownItem DEF ReportsInv, Grows
<1> HIDE DEF row
<1>9. Snapshots'
  BY <1>1, <1>2, <1>8, SnapshotsAppended
<1>10. Copies'
  <2>1. \A b \in Analysts : report'[b] = IF b = a THEN NoReport ELSE report[b]
    BY <1>2
  <2>2. report' = [b \in Analysts |-> report'[b]] /\ NoReport.at = "idle"
    BY <1>2 DEF NoReport
  <2> HIDE DEF r
  <2> QED
    BY <1>2, <2>1, <2>2 DEF ReportsInv, Copies
<1> QED
  BY <1>9, <1>10

\* Every step keeps the reports true to the proposals.
LEMMA ReportsStep == ReportsInv /\ [ReportsNext]_reportVars => ReportsInv'
<1> SUFFICES ASSUME ReportsInv, [ReportsNext]_reportVars  PROVE ReportsInv'
  OBVIOUS
<1>1. CASE ProposalSteps
  <2>1. Rows' /\ Grows
    BY <1>1, ProposalsGrow DEF ReportsInv
  <2>2. UNCHANGED <<decision_reviews, execution_evaluations, outcome_snapshots, report>>
    BY <1>1 DEF ProposalSteps, AddProposal, DecideProposal, SimulateOrder, reportsUnchanged
  <2> QED
    BY <2>1, <2>2, ReviewsStay, EvaluationsStay, CopiesStay, SnapshotsStay DEF ReportsInv
<1>2. ASSUME UNCHANGED reported  PROVE Rows' /\ Grows
  BY <1>2, ProposalsStay DEF ReportsInv
<1>3. ASSUME NEW i \in DOMAIN reported, create_review(i)
      PROVE  ReportsInv'
  <2>1. UNCHANGED <<reported, execution_evaluations, outcome_snapshots, report>>
    BY <1>3 DEF create_review
  <2> QED
    BY <1>2, <1>3, <2>1, ReviewCreated, EvaluationsStay, CopiesStay, SnapshotsStay DEF ReportsInv
<1>4. ASSUME NEW i \in DOMAIN reported, evaluate_proposal(i)
      PROVE  ReportsInv'
  <2>1. UNCHANGED <<reported, decision_reviews, outcome_snapshots, report>>
    BY <1>4 DEF evaluate_proposal
  <2> QED
    BY <1>2, <1>4, <2>1, ProposalEvaluated, ReviewsStay, CopiesStay, SnapshotsStay DEF ReportsInv
<1>5. ASSUME NEW a \in Analysts, summarize(a) \/ list_reviews(a)
      PROVE  ReportsInv'
  <2>1. UNCHANGED <<reported, decision_reviews, execution_evaluations, outcome_snapshots>>
    BY <1>5 DEF summarize, list_reviews
  <2> QED
    BY <1>2, <1>5, <2>1, AnalysisBegun, ReviewsListed, ReviewsStay, EvaluationsStay, SnapshotsStay
       DEF ReportsInv
<1>6. ASSUME NEW a \in Analysts, save_analysis(a)
      PROVE  ReportsInv'
  <2>1. UNCHANGED <<reported, decision_reviews, execution_evaluations>>
    BY <1>6 DEF save_analysis
  <2> QED
    BY <1>2, <1>6, <2>1, AnalysisSaved, ReviewsStay, EvaluationsStay DEF ReportsInv
<1>7. CASE UNCHANGED reportVars
  BY <1>2, <1>7, ReviewsStay, EvaluationsStay, CopiesStay, SnapshotsStay DEF ReportsInv, reportVars
<1> QED
  BY <1>1, <1>3, <1>4, <1>5, <1>6, <1>7 DEF ReportsNext, ProposalSteps

\* There are no reports at the start.
LEMMA ReportsBegin == ReportsInit => ReportsInv
<1> SUFFICES ASSUME ReportsInit  PROVE ReportsInv
  OBVIOUS
<1>1. /\ reported \in Seq({}) /\ decision_reviews \in Seq({}) /\ execution_evaluations \in Seq({})
      /\ outcome_snapshots \in Seq({})
      /\ DOMAIN reported = {} /\ DOMAIN decision_reviews = {} /\ DOMAIN execution_evaluations = {}
      /\ DOMAIN outcome_snapshots = {}
  BY DEF ReportsInit
<1>2. report = [a \in Analysts |-> report[a]] /\ \A a \in Analysts : report[a].at = "idle"
  BY DEF ReportsInit, NoReport
<1> QED
  BY <1>1, <1>2 DEF ReportsInv, Rows, Reviews, Evaluations, Copies, Snapshots

\* What an analysis counts as unknown was created after it had listed the
\* proposals, or names no source.
THEOREM UnknownsAreNewer == ReportsSpec => []UnknownIsNewer
<1>1. ReportsInv => UnknownIsNewer
  BY DEF ReportsInv, Snapshots, UnknownFits, UnknownIsNewer
<1> QED
  BY <1>1, ReportsBegin, ReportsStep, PTL DEF ReportsSpec

\* An evaluation praises what a review calls unfavorable only below the limit.
THEOREM PraiseIsExplained == ReportsSpec => []PraiseExplained
<1>1. ASSUME NEW side \in {"yes", "no"}, NEW e, Priced(side, e), e # NoExecution,
             execution_outcome(side, e) = "execution_unfavorable",
             verdict(e) = "better_than_expected"
      PROVE  ReferencePrice(e.request) < e.request.price
  <2> DEFINE ref == ReferencePrice(e.request)
             limit == e.request.price
             price == e.price
  <2>1. price # Unquoted
    BY <1>1 DEF execution_outcome
  <2>2. BetterPrice(price - limit)
    BY <1>1 DEF verdict
  <2>3. /\ price \in Int /\ ref \in Int /\ limit \in Int /\ ref <= price + 10
    <3>1. /\ price \in Prices /\ ref \in Prices /\ ref <= price + 10 /\ limit \in Int
      BY <1>1, <2>1 DEF Priced
    <3>2. Prices \subseteq Int
      BY PriceRange
    <3> QED
      BY <3>1, <3>2
  <2> QED
    BY <2>2, <2>3 DEF BetterPrice
<1>2. ReportsInv => PraiseExplained
  <2> SUFFICES ASSUME ReportsInv, NEW evaluation \in ToSet(execution_evaluations),
                      NEW review \in ToSet(decision_reviews),
                      evaluation.proposal = review.proposal,
                      evaluation.verdict = "better_than_expected",
                      review.execution = "execution_unfavorable"
               PROVE  LET request == reported[review.proposal].execution.request
                      IN  ReferencePrice(request) < request.price
    BY DEF PraiseExplained
  <2>1. PICK i \in DOMAIN execution_evaluations : evaluation = execution_evaluations[i]
    BY DEF ToSet
  <2>2. PICK j \in DOMAIN decision_reviews : review = decision_reviews[j]
    BY DEF ToSet
  <2> DEFINE p == reported[review.proposal]
  <2>3. review.proposal \in 1 .. Len(reported)
    BY <2>2 DEF ReportsInv, Reviews, IsReview
  <2>4. /\ p.execution # NoExecution
        /\ execution_outcome(p.attributes.side, p.execution) = "execution_unfavorable"
        /\ verdict(p.execution) = "better_than_expected"
    BY <2>1, <2>2 DEF ReportsInv, Reviews, Evaluations, ReviewTells, EvaluationTells
  <2>5. IsReported(p)
    BY <2>3 DEF ReportsInv, Rows
  <2>6. p.attributes.side \in {"yes", "no"} /\ Priced(p.attributes.side, p.execution)
    BY <2>4, <2>5, ProposalsAreNamed DEF IsReported
  <2> QED
    BY <1>1, <2>4, <2>6
<1> QED
  BY <1>2, ReportsBegin, ReportsStep, PTL DEF ReportsSpec
==============================================================================
