---------------------------- MODULE TradePolicies ----------------------------
(***************************************************************************)
(* From a market estimate to a draft: the scanner's estimate, the size, the *)
(* four policies and the status a draft starts with, and the estimate an   *)
(* approval replaces it by.  s is a Settings record; prices, shares and    *)
(* confidences are in 1/Unit, finer than the four decimals round() keeps,  *)
(* money in cents, liquidity in dollars.  An operator that rounds returns  *)
(* the set of results round() may give.                                    *)
(***************************************************************************)
EXTENDS Settings, FiniteSets

Pending == "pending_manual_confirmation"
PolicyRejected == "policy_rejected"

Least(a, b) == IF a <= b THEN a ELSE b
Most(a, b) == IF a >= b THEN a ELSE b
Clamp(x, low, high) == Most(low, Least(x, high))
Gap(x, y) == IF x < y THEN y - x ELSE x - y

\* The multiples of 1 that round() may return for num / den, num >= 0: a tie
\* of a binary float goes either way.
Rounded(num, den) ==
  {q \in {num \div den, num \div den + 1} : 2 * Gap(num, q * den) <= den}

\* round(num / den, 4) of a price or a share.
RoundedShare(num, den) == {q * Grain : q \in Rounded(num, den * Grain)}

\* Midpoint and reference price blended; rules, liquidity (10000 is full) and
\* spread (0.03 is none) averaged into a confidence.
estimate_probability(snapshot) ==
  LET mid == snapshot.mid
      reference == IF snapshot.reference = None THEN mid ELSE snapshot.reference
      liquidity == Clamp(snapshot.market.liquidity, 0, 10000)
      spread == Clamp(3 * Unit - 100 * snapshot.spread, 0, 3 * Unit)
  IN  {[fair |-> Clamp(f, 0, Unit), confidence |-> c, agreement |-> 1,
        trusted |-> FALSE, sources |-> {"research"}] :
         f \in RoundedShare(mid + reference, 2),
         c \in RoundedShare(30000 * snapshot.market.rules + 3 * Unit * liquidity + 10000 * spread,
                            90000)}

\* The edge is the exact difference.  The code's is one of two floats, and under
\* says that it came out below an exact one with few decimals: 0.35 - 0.3 < 0.05.
create_default_context(market, probability, price) ==
  [market |-> market, probability |-> probability, price |-> price,
   open |-> 0, unresolved |-> 0, theme |-> 0, orderType |-> "limit_only", age |-> 0,
   edge |-> probability.fair - price, under |-> FALSE, size |-> 0]

InFloats(ctx) == {[ctx EXCEPT !.under = under] : under \in BOOLEAN}

\* In 1/Unit of a cent.
MaxAllowed(s, ctx) ==
  LET bankroll == s.bankroll.total
      limits == s.position_limits
  IN  Least(bankroll * limits.max_position_pct,
        Least(bankroll * (Unit - s.bankroll.reserve_ratio),
              Most(0, bankroll * limits.max_unresolved_exposure_pct - Unit * ctx.unresolved)))

\* A ratio num / den clamped from below by floor; none exceeds 1.
Ratioed(num, den, floor) ==
  IF num * floor[2] <= den * floor[1] THEN floor ELSE <<Least(num, den), den>>

\* The size before its liquidity penalty, as <<numerator, denominator>>.
SizeBeforeRounding(s, ctx) ==
  LET confidence == Ratioed(ctx.probability.confidence - s.entry_rules.min_confidence,
                            Most(Unit \div 100, Unit - s.entry_rules.min_confidence), <<1, 4>>)
      edge == Ratioed(ctx.edge, Most(s.entry_rules.min_edge_pct, Unit \div 100), <<1, 2>>)
      den == confidence[2] * edge[2]
      room == Most(0, s.bankroll.total * s.position_limits.max_theme_exposure_pct
                        - Unit * ctx.theme)
      size == MaxAllowed(s, ctx) * confidence[1] * edge[1]
  IN  <<IF ctx.theme > 0 THEN Least(size, room * den) ELSE size, den>>

\* Both sizes are rounded to cents after every cap was applied; round() is
\* monotone, so the smaller one is not rounded above the other.
size(s, ctx) ==
  LET raw == SizeBeforeRounding(s, ctx)
      penalty == IF 2 * ctx.market.liquidity < 3 * s.market_filters.min_liquidity
                 THEN <<3, 4>> ELSE <<1, 1>>
      recommended == Rounded(raw[1] * penalty[1], Unit * raw[2] * penalty[2])
  IN  {sizing \in [recommended : recommended, max_allowed : Rounded(MaxAllowed(s, ctx), Unit)] :
         sizing.recommended <= sizing.max_allowed}

\* The ids of whitelist.yaml and of blacklist.yaml; a market whose title has a
\* blocked pattern counts among the latter.
MarketPolicy(s, ctx) ==
  LET filters == s.market_filters
      market == ctx.market
  IN  {reason \in {"market_category_blocked", "market_not_whitelisted", "market_blacklisted",
                   "liquidity_too_low", "spread_too_wide", "time_to_resolution_too_short",
                   "rules_unclear", "orderbook_required"} :
         \/ reason = "market_category_blocked" /\ market.category \in filters.blocked_categories
         \/ /\ reason = "market_not_whitelisted"
            /\ \/ market.category \notin filters.allowed_categories
               \/ s.whitelist # {} /\ market.id \notin s.whitelist
         \/ reason = "market_blacklisted" /\ market.id \in s.blacklist
         \/ reason = "liquidity_too_low" /\ market.liquidity < filters.min_liquidity
         \/ reason = "spread_too_wide" /\ market.spread > filters.max_spread_pct
         \/ /\ reason = "time_to_resolution_too_short"
            /\ market.hours < filters.min_time_to_resolution_hours
         \/ /\ reason = "rules_unclear" /\ filters.require_clear_rules
            /\ market.rules < s.ai_policy.min_rules_parser_confidence
         \/ reason = "orderbook_required" /\ filters.require_orderbook /\ ~market.orderbook}

SizeReasons == {"unresolved_exposure_too_high", "theme_exposure_too_high",
                "proposal_size_exceeds_limit"}

RiskPolicy(s, ctx) ==
  LET limits == s.position_limits
      over(used, share) == Unit * (used + ctx.size) > s.bankroll.total * share
  IN  {reason \in SizeReasons \cup {"too_many_open_positions"} :
         \/ reason = "too_many_open_positions" /\ ctx.open >= limits.max_open_positions
         \/ /\ reason = "unresolved_exposure_too_high"
            /\ over(ctx.unresolved, limits.max_unresolved_exposure_pct)
         \/ /\ reason = "theme_exposure_too_high"
            /\ over(ctx.theme, limits.max_theme_exposure_pct)
         \/ reason = "proposal_size_exceeds_limit" /\ over(0, limits.max_position_pct)}

\* stale_after_seconds of the execution policy, 120.
PolicyStaleAfter == 120

ExecutionPolicy(s, ctx) ==
  {reason \in {"kill_switch_active", "order_type_not_allowed", "stale_data"} :
     \/ reason = "kill_switch_active" /\ ~s.safety.kill_switch_enabled
     \/ reason = "order_type_not_allowed" /\ ctx.orderType # s.entry_rules.order_type
     \/ reason = "stale_data" /\ ctx.age > PolicyStaleAfter}

AIPolicy(s, ctx) ==
  LET rules == s.entry_rules
      probability == ctx.probability
  IN  {reason \in {"confidence_below_threshold", "edge_below_threshold",
                   "model_agreement_too_low", "trusted_source_required",
                   "source_type_not_allowed"} :
         \/ reason = "confidence_below_threshold" /\ probability.confidence < rules.min_confidence
         \/ /\ reason = "edge_below_threshold"
            /\ ctx.edge < rules.min_edge_pct \/ (ctx.edge = rules.min_edge_pct /\ ctx.under)
         \/ reason = "model_agreement_too_low" /\ probability.agreement < rules.min_model_agreement
         \/ /\ reason = "trusted_source_required" /\ rules.require_trusted_source
            /\ ~probability.trusted
         \/ /\ reason = "source_type_not_allowed"
            /\ ~(probability.sources \subseteq s.ai_policy.allowed_source_types)}

\* CompositePolicy: allowed when no policy has a reason.
Evaluate(s, ctx) ==
  MarketPolicy(s, ctx) \cup RiskPolicy(s, ctx) \cup ExecutionPolicy(s, ctx) \cup AIPolicy(s, ctx)

\* The last four fields are history: what the draft was made from, and how it was refused.
create_proposal(s, ctx) ==
  {LET reasons == Evaluate(s, [ctx EXCEPT !.size = sizing.recommended])
   IN  [market |-> ctx.market.id,
        action |-> IF ctx.edge > 0 THEN "buy" ELSE "sell",
        side |-> IF ctx.edge > 0 THEN "yes" ELSE "no",
        price |-> ctx.price, fair |-> ctx.probability.fair, edge |-> ctx.edge,
        probability |-> ctx.probability,
        size |-> sizing.recommended, max_allowed |-> sizing.max_allowed, reasons |-> reasons,
        status |-> IF reasons = {} THEN Pending ELSE PolicyRejected,
        ttl |-> s.approvals.proposal_ttl_minutes,
        madeFor |-> ctx.market, madeUnder |-> s, refusedAt |-> None, samePolicies |-> TRUE] :
     sizing \in size(s, ctx)}

\* Mutant: the fair value of the draft is kept, so the edge follows the price.
get_probability_FairKept(proposal, mid) == {proposal.probability}

\* EdgeAdjustedProbabilityProvider: the edge of the draft is carried over to
\* the fresh midpoint, and the sum rounded although the midpoint is not.
get_probability(proposal, mid) ==
  {[proposal.probability EXCEPT !.fair = f] :
     f \in RoundedShare(Clamp(mid + (proposal.fair - proposal.price), 0, Unit), 1)}

\* The contexts approve() may evaluate: fresh market and price, the draft's size,
\* and the exposures its caller gives: none of the callers gives any but 0.
RevalidationContexts(s, proposal, market, mid) ==
  {[create_default_context(market, probability, mid)
      EXCEPT !.size = proposal.size, !.orderType = s.entry_rules.order_type] :
     probability \in get_probability(proposal, mid)}
==============================================================================
