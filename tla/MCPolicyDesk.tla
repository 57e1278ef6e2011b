----------------------------- MODULE MCPolicyDesk -----------------------------
\* Values for PolicyDesk: the shipped base.yaml and profiles in 1/100, an
\* operator's own profiles, and markets on both sides of the filters.
EXTENDS PolicyDesk

BaseDoc ==
  [mode |-> "semi_auto",
   bankroll |-> [total |-> 100000, reserve_ratio |-> 20],
   position_limits |-> [max_position_pct |-> 7, max_theme_exposure_pct |-> 15,
                        max_open_positions |-> 4, max_unresolved_exposure_pct |-> 35],
   market_filters |-> [allowed_categories |-> {"politics", "crypto"},
                       blocked_categories |-> {"sports"}, min_liquidity |-> 3000,
                       max_spread_pct |-> 3, min_time_to_resolution_hours |-> 24,
                       require_clear_rules |-> TRUE, require_orderbook |-> TRUE],
   entry_rules |-> [min_edge_pct |-> 5, min_confidence |-> 70, min_model_agreement |-> 2,
                    require_trusted_source |-> TRUE, order_type |-> "limit_only"],
   ai_policy |-> [ai_can_place_orders |-> FALSE, min_rules_parser_confidence |-> 80,
                  allowed_source_types |-> {"official", "regulator", "major_media"}],
   approvals |-> [manual_approval_required |-> TRUE, auto_execute_disabled |-> TRUE,
                  proposal_ttl_minutes |-> 5],
   safety |-> [kill_switch_enabled |-> TRUE],
   gateway |-> [enable_polymarket_gateway |-> FALSE, dry_run |-> TRUE,
                allow_live_order_submission |-> FALSE],
   strategies |-> [auto_execute_min_confidence |-> None, legacy_bidirectional_enabled |-> FALSE,
                   min_confidence |-> 70, max_position_fraction |-> 5],
   whitelist |-> {}, blacklist |-> {"m3"}, unreadOK |-> TRUE]

Aggressive ==
  [position_limits |-> [max_position_pct |-> 10, max_theme_exposure_pct |-> 20,
                        max_open_positions |-> 6],
   entry_rules |-> [min_edge_pct |-> 4, min_confidence |-> 65],
   market_filters |-> [max_spread_pct |-> 4]]

\* An operator's profile under which the scanner's own estimates are enough.
Research ==
  [bankroll |-> [total |-> 100010],
   entry_rules |-> [min_model_agreement |-> 1, require_trusted_source |-> FALSE],
   ai_policy |-> [allowed_source_types |-> {"official", "major_media", "research"}]]

WidePosition == [position_limits |-> [max_position_pct |-> 30]]

Unattended ==
  [mode |-> "live_small",
   approvals |-> [manual_approval_required |-> FALSE, auto_execute_disabled |-> FALSE]]

MCProfiles == {Aggressive, Research, WidePosition, Unattended}

\* A research profile that leaves a tenth of the bankroll to open markets.
Tight == [Research EXCEPT !.bankroll.total = 100000]
           @@ [position_limits |-> [max_unresolved_exposure_pct |-> 10]]

TightProfiles == {Tight}

Crypto(liquidity) ==
  [id |-> "m1", category |-> "crypto", liquidity |-> liquidity, spread |-> 1, hours |-> 48,
   rules |-> 100, orderbook |-> TRUE]

Snapshot(market, mid, reference) ==
  [market |-> market, mid |-> mid, reference |-> reference, spread |-> 1]

MCSnapshots ==
  {Snapshot(Crypto(9000), 40, 60), Snapshot(Crypto(9000), 60, 98), Snapshot(Crypto(9000), 98, None),
   Snapshot(Crypto(9000), 59, None), Snapshot(Crypto(4000), 40, 60), Snapshot(Crypto(2000), 40, 60),
   Snapshot([Crypto(9000) EXCEPT !.id = "m2", !.category = "sports"], 40, 60)}

OneSnapshot == {Snapshot(Crypto(9000), 40, 60)}

Seed == {[fair |-> fair, confidence |-> 90, agreement |-> 3, trusted |-> TRUE,
          sources |-> {"official", "major_media"}] : fair \in {64, 72}}
==============================================================================
