------------------------------- MODULE Settings -------------------------------
(***************************************************************************)
(* load_settings: base.yaml, a profile over it and BOT_MODE make the       *)
(* settings a command runs with, or a ConfigError.  Shares and confidences *)
(* are in 1/Unit, money in cents.  The fields nothing in these modules     *)
(* reads are one flag each: unreadOK, whether they pass their own checks.  *)
(***************************************************************************)
EXTENDS Integers, TLC

CONSTANTS
  Unit,    \* steps of 1.0
  Grain    \* steps of 0.0001, the last decimal that round(x, 4) keeps

ASSUME UnitAssumption == Unit \in Nat /\ Unit >= 100
ASSUME GrainAssumption == Grain \in Nat \ {0} /\ Unit % Grain = 0

None == -1       \* an absent number

Modes == {"paper", "manual_only", "semi_auto", "live_small", "live_full"}

Ratio(x) == x \in 0 .. Unit

\* A two-level document: a section of the profile that is a mapping is
\* merged key by key, any other value replaces the base's.
DeepMerge(base, override) ==
  [section \in DOMAIN base \cup DOMAIN override |->
     IF section \notin DOMAIN override THEN base[section]
     ELSE IF section \notin DOMAIN base \/ section = "mode" THEN override[section]
     ELSE override[section] @@ base[section]]

\* Mutant: the share of one position may exceed the share of its theme.
ValidLimits_NoThemeCheck(limits) ==
  /\ Ratio(limits.max_position_pct) /\ Ratio(limits.max_theme_exposure_pct)
  /\ Ratio(limits.max_unresolved_exposure_pct) /\ limits.max_open_positions >= 1

ValidLimits(limits) ==
  /\ Ratio(limits.max_position_pct) /\ Ratio(limits.max_theme_exposure_pct)
  /\ Ratio(limits.max_unresolved_exposure_pct)
  /\ limits.max_open_positions >= 1
  /\ limits.max_position_pct <= limits.max_theme_exposure_pct

\* Who may send an order without an operator, by mode.
ValidAutomation(s) ==
  /\ s.mode = "semi_auto" => /\ s.approvals.manual_approval_required
                             /\ s.approvals.auto_execute_disabled
                             /\ ~s.gateway.allow_live_order_submission
  /\ ~(s.ai_policy.ai_can_place_orders /\ s.approvals.auto_execute_disabled)
  /\ ~(s.gateway.allow_live_order_submission /\ s.gateway.dry_run)
  /\ s.strategies.auto_execute_min_confidence # None =>
       /\ Ratio(s.strategies.auto_execute_min_confidence)
       /\ ~s.approvals.auto_execute_disabled
  /\ s.strategies.legacy_bidirectional_enabled => s.approvals.auto_execute_disabled

ValidSettings(s) ==
  /\ s.mode \in Modes
  /\ s.bankroll.total \in Nat \ {0} /\ Ratio(s.bankroll.reserve_ratio)
  /\ ValidLimits(s.position_limits)
  /\ s.market_filters.min_liquidity >= 0 /\ Ratio(s.market_filters.max_spread_pct)
  /\ s.market_filters.allowed_categories # {}
  /\ Ratio(s.entry_rules.min_edge_pct) /\ Ratio(s.entry_rules.min_confidence)
  /\ s.entry_rules.min_model_agreement >= 1
  /\ Ratio(s.ai_policy.min_rules_parser_confidence)
  /\ s.ai_policy.allowed_source_types # {}
  /\ s.approvals.proposal_ttl_minutes >= 1
  /\ Ratio(s.strategies.min_confidence) /\ Ratio(s.strategies.max_position_fraction)
  /\ s.unreadOK
  /\ ValidAutomation(s)

ConfigError == [mode |-> "ConfigError"]

\* Mutant: BOT_MODE is applied to settings that were validated without it.
load_settings_ModeUnchecked(base, profile, modeOverride) ==
  LET merged == DeepMerge(base, profile)
  IN  IF ~ValidSettings(merged) THEN ConfigError
      ELSE IF modeOverride = "" THEN merged ELSE [merged EXCEPT !.mode = modeOverride]

\* modeOverride is BOT_MODE, "" when it is not set.
load_settings(base, profile, modeOverride) ==
  LET merged == DeepMerge(base, profile)
      s == IF modeOverride = "" THEN merged ELSE [merged EXCEPT !.mode = modeOverride]
  IN  IF ValidSettings(s) THEN s ELSE ConfigError

semi_auto_strict(s) ==
  /\ s.mode = "semi_auto"
  /\ s.approvals.manual_approval_required
  /\ s.approvals.auto_execute_disabled
==============================================================================
