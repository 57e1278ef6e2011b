------------------------------- MODULE Signals -------------------------------
(***************************************************************************)
(* The signal engine: momentum lag and mean reversion are scored from a    *)
(* snapshot of market features, an admission policy accepts or rejects     *)
(* each signal and sizes what it accepts.  A score and a confidence are    *)
(* in 1/Full, probabilities in 1/1000, moves in 1/10000.  The mispricing   *)
(* scorer is a placeholder that always skips.                              *)
(***************************************************************************)
EXTENDS Integers

CONSTANTS
  StrategyConfigs,  \* the strategies sections the engine may run with
  FeatureSnapshots  \* the market features

Full == 12000

ASSUME FeaturesAreCounts ==
  FeatureSnapshots \subseteq
    [liquidity : Nat, spread : Nat, seconds : Nat, probability : 0 .. 1000,
     btc_move : Int, pm_move : Int, recent_move : Int, news : BOOLEAN]

\* What the loader lets through.
ASSUME ConfigsAreChecked ==
  \A config \in StrategyConfigs :
    /\ {config.min_confidence, config.max_position_fraction} \subseteq 0 .. Full
    /\ {config.max_spread_bps, config.min_liquidity_usd,
        config.min_time_to_resolution_seconds} \subseteq Nat

VARIABLES
  strategies,       \* the configuration
  last_evaluation   \* the features evaluated last, and what was decided on each signal

signalVars == <<strategies, last_evaluation>>

Capped(x, top) == IF x <= 0 THEN 0 ELSE IF x >= top THEN top ELSE x

\* _clamp01(x / saturation)
Strength(x, saturation) == (Full * Capped(x, saturation)) \div saturation

Magnitude(x) == IF x < 0 THEN -x ELSE x

\* _clamp01(0.55 + raw * 0.50), of raw in percent.
Confidence(raw) == Capped((110 * Full + raw) \div 200, Full)

Skip(type) == [type |-> type, direction |-> "skip", confidence |-> 0]

\* Mutant: markets with time left are charged, the ones about to resolve are not.
ResolutionPenalty_Swapped(f) == IF f.seconds >= 1800 THEN Full \div 2 ELSE 0

ResolutionPenalty(f) == IF f.seconds >= 1800 THEN 0 ELSE Full \div 2

score_momentum_lag(f) ==
  LET lag == Magnitude(f.btc_move) - Magnitude(f.pm_move)
      raw == 40 * Strength(Magnitude(f.btc_move), 200) + 30 * Strength(lag, 200)
             + 20 * Strength(f.liquidity, 50000) - 25 * Strength(f.spread, 300)
             - 20 * ResolutionPenalty(f)
  IN  IF Magnitude(f.btc_move) < 30 \/ lag <= 0 THEN Skip("momentum_lag")
      ELSE [type |-> "momentum_lag", direction |-> IF f.btc_move > 0 THEN "yes" ELSE "no",
            confidence |-> Confidence(raw)]

\* Mutant: the extremes are bought, not sold.
ReversionSide_Swapped(f) == IF f.probability >= 800 THEN "yes" ELSE "no"

ReversionSide(f) == IF f.probability >= 800 THEN "no" ELSE "yes"

score_mean_reversion(f) ==
  LET overextension == IF f.probability >= 500 THEN f.probability - 800 ELSE 200 - f.probability
      raw == 45 * Strength(overextension, 150) + 20 * Strength(f.liquidity, 50000)
             - 25 * Strength(f.spread, 300) - 30 * Strength(Magnitude(f.recent_move), 1000)
  IN  IF overextension <= 0 \/ f.news THEN Skip("mean_reversion")
      ELSE [type |-> "mean_reversion", direction |-> ReversionSide(f),
            confidence |-> Confidence(raw)]

strategy_enabled(config, type) ==
  CASE type = "momentum_lag" -> config.momentum_lag_enabled
    [] type = "mean_reversion" -> config.mean_reversion_enabled
    [] type = "mispricing" -> config.mispricing_enabled

\* The first check that fails, or none.
rejection_code(config, signal, f, auto_execute) ==
  IF ~config.enabled THEN "strategies_disabled"
  ELSE IF ~strategy_enabled(config, signal.type) THEN "strategy_type_disabled"
  ELSE IF signal.direction = "skip" THEN "skip_direction"
  ELSE IF auto_execute \/ config.auto_execute THEN "auto_execute_requested"
  ELSE IF f.seconds < config.min_time_to_resolution_seconds THEN "time_to_resolution_too_short"
  ELSE IF f.liquidity < config.min_liquidity_usd THEN "liquidity_too_low"
  ELSE IF f.spread > config.max_spread_bps THEN "spread_too_wide"
  ELSE IF signal.confidence < config.min_confidence THEN "confidence_below_threshold"
  ELSE "none"

\* Linear from min_confidence to 1, up to the cap, which is in 1/Full too.
size_fraction(config, confidence) ==
  IF confidence <= config.min_confidence THEN 0
  ELSE (config.max_position_fraction * (confidence - config.min_confidence))
         \div (Full - config.min_confidence)

\* The enabled scorers' signals.
ScoredSignals(config, f) ==
  {signal \in {score_momentum_lag(f), score_mean_reversion(f), Skip("mispricing")} :
     strategy_enabled(config, signal.type)}

Decision(config, signal, f, auto_execute) ==
  LET code == rejection_code(config, signal, f, auto_execute)
  IN  [signal |-> signal, rejection_code |-> code,
       size_fraction |-> IF code = "none" THEN size_fraction(config, signal.confidence) ELSE 0]

Decisions(config, f, auto_execute) ==
  IF ~config.enabled THEN {}
  ELSE {Decision(config, signal, f, auto_execute) : signal \in ScoredSignals(config, f)}

Accepted(decisions) == {d \in decisions : d.rejection_code = "none"}

SignalsInit ==
  /\ strategies \in StrategyConfigs
  /\ last_evaluation = [made |-> FALSE, features |-> CHOOSE f \in FeatureSnapshots : TRUE,
                        auto |-> FALSE, decisions |-> {}]

\* The command line builds an engine for every evaluation.
evaluate(f, auto_execute) ==
  /\ ~last_evaluation.made
  /\ last_evaluation' = [made |-> TRUE, features |-> f, auto |-> auto_execute,
                         decisions |-> Decisions(strategies, f, auto_execute)]
  /\ UNCHANGED strategies

SignalsNext == \E f \in FeatureSnapshots, auto \in BOOLEAN : evaluate(f, auto)

SignalsSpec == SignalsInit /\ [][SignalsNext]_signalVars

\* The same move in a market that is at least as liquid, tight and long.
NoWorse(f, g) ==
  /\ f = [g EXCEPT !.liquidity = f.liquidity, !.spread = f.spread, !.seconds = f.seconds]
  /\ f.liquidity >= g.liquidity /\ f.spread <= g.spread /\ f.seconds >= g.seconds

(***************************************************************************)
(* BetterMarketsSignalMore: what the engine accepts it would have accepted *)
(* in a more liquid, tighter market with more time too, at the same side   *)
(* and with no smaller size: no weight, penalty, filter or rounding works  *)
(* against the others.                                                     *)
(***************************************************************************)
BetterMarketsSignalMore ==
  \A d \in Accepted(last_evaluation.decisions) :
    \A f \in {g \in FeatureSnapshots : NoWorse(g, last_evaluation.features)} :
      \E e \in Accepted(Decisions(strategies, f, last_evaluation.auto)) :
        /\ e.signal.type = d.signal.type /\ e.signal.direction = d.signal.direction
        /\ e.size_fraction >= d.size_fraction

(***************************************************************************)
(* OppositeSidesExplained: one evaluation accepts both sides of a market   *)
(* only when BTC moves toward an extreme the market has already reached    *)
(* without news: then lag and reversion disagree.  Nothing reconciles them *)
(* although scenarios with both sides are meant to be off.                 *)
(***************************************************************************)
OppositeSidesExplained ==
  LET sides == {d.signal.direction : d \in Accepted(last_evaluation.decisions)}
      f == last_evaluation.features
  IN  {"yes", "no"} \subseteq sides =>
        /\ ~f.news
        /\ \/ f.probability > 800 /\ f.btc_move > 0
           \/ f.probability < 200 /\ f.btc_move < 0
==============================================================================
