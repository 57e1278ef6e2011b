---------------------------- MODULE MCOperatorDesk ----------------------------
(***************************************************************************)
(* The components around the proposal lifecycle that share no state with   *)
(* one another: one run explores each of them alone, so that their spaces  *)
(* add up instead of multiplying.  desk names the component a behaviour is *)
(* about, the variables of the others keep their initial values.           *)
(***************************************************************************)
EXTENDS MCPolicyDesk, MarketData, OpportunityDrafts, OpportunityAlerts, WebAuth,
        SchemaMigrations, ExecutionPreviews, Signals, DecisionReports, MarketCatalogue,
        SavedViews

CONSTANT Desks

VARIABLE desk

deskVars == <<desk, policyVars, marketVars, draftVars, alertVars, webVars, schemaVars,
              previewVars, signalVars, reportVars, catalogueVars, viewVars>>

MarketQuote(m, mid, reference) == Snapshot([Crypto(9000) EXCEPT !.id = m], mid, reference)

DeskQuotes ==
  {MarketQuote("m1", 40, 60), MarketQuote("m1", 45, 51), MarketQuote("m2", 30, 70)}

DeskRules == load_settings(BaseDoc, Research, "")

\* Two markets that raise alerts of three types, and one that is only sports.
DeskMarkets ==
  <<[id |-> "m1", category |-> "politics", words |-> {}, sports |-> FALSE, liquidity |-> 60,
     days |-> 30, closed |-> FALSE, context |-> FALSE],
    [id |-> "m2", category |-> "sports", words |-> {"iran"}, sports |-> TRUE, liquidity |-> 60,
     days |-> 3, closed |-> FALSE, context |-> TRUE],
    [id |-> "m3", category |-> "world", words |-> {"iran"}, sports |-> FALSE, liquidity |-> 10,
     days |-> 30, closed |-> FALSE, context |-> TRUE]>>

DeskEntityAlerts == {[type |-> "proposal_ttl_nearing", entity |-> "p1"]}

Strategy(confidence, auto) ==
  [enabled |-> TRUE, momentum_lag_enabled |-> TRUE, mean_reversion_enabled |-> TRUE,
   mispricing_enabled |-> FALSE, auto_execute |-> auto, min_confidence |-> confidence,
   min_time_to_resolution_seconds |-> 60, min_liquidity_usd |-> 10000, max_spread_bps |-> 200,
   max_position_fraction |-> 240]

DeskStrategies == {Strategy(7200, FALSE), Strategy(8400, FALSE), Strategy(8400, TRUE)}

\* Both sides of every filter and of the scorers' thresholds.
DeskFeatures ==
  [liquidity : {9999, 10000, 50000}, spread : {0, 150, 201}, seconds : {59, 1799, 1800},
   probability : {100, 500, 900}, btc_move : {-150, 29, 100}, pm_move : {0, 100},
   recent_move : {0}, news : BOOLEAN]

DeskReported ==
  {[side |-> "yes", market |-> "m1", category |-> "politics", sources |-> {"official"},
    band |-> "low"],
   [side |-> "no", market |-> "m2", category |-> "world", sources |-> {}, band |-> "high"]}

\* An order with a better fill, of a book below its limit, and one with a late.
DeskOrders ==
  {[size |-> 8000, price |-> 5000, bid |-> 5100, ask |-> 4900, ttl |-> FALSE, latency |-> 250],
   [size |-> 4000, price |-> 5000, bid |-> Unquoted, ask |-> Unquoted, ttl |-> FALSE,
    latency |-> 600]}

Listed(category, liquidity, closed, book) ==
  [category |-> category, liquidity |-> liquidity, closed |-> closed, order_book |-> book]

DeskVenue ==
  <<{Listed("a", 10, FALSE, TRUE), Listed("a", 30, FALSE, TRUE), Listed("a", 30, TRUE, TRUE)},
    {Listed("a", 20, FALSE, TRUE), Listed("a", 20, TRUE, TRUE)},
    {Listed("b", 20, FALSE, TRUE), Listed("b", 0, FALSE, TRUE)},
    {Listed("a", 20, FALSE, FALSE)}>>

DeskQueries ==
  {[scope |-> "active", categories |-> {}, min_liquidity |-> 0, orderbook_only |-> FALSE,
    page_size |-> 1],
   [scope |-> "all", categories |-> {}, min_liquidity |-> 5, orderbook_only |-> FALSE,
    page_size |-> 2],
   [scope |-> "closed", categories |-> {"a"}, min_liquidity |-> 0, orderbook_only |-> FALSE,
    page_size |-> 1],
   [scope |-> "active", categories |-> {"a"}, min_liquidity |-> 0, orderbook_only |-> TRUE,
    page_size |-> 1]}

DeskSwitches ==
  [text \in {"true", "True", "TRUE", "false", "False"} |->
     IF text \in {"false", "False"} THEN "False" ELSE "True"]

DeskNumbers ==
  ("-1" :> -1) @@ ("0" :> 0) @@ ("1" :> 1) @@ ("5" :> 5) @@ ("20" :> 20) @@ ("50" :> 50)
    @@ ("100" :> 100) @@ ("200" :> 200)

\* A float that is whole, one with a figure too many, one below zero, and ones
\* that str() writes with an exponent, with a point and without.
DeskFloats ==
  ("20.0" :> "20") @@ ("2.50" :> "2.5") @@ ("2.5" :> "2.5") @@ ("-0.5" :> "-0.5")
    @@ ("0.00001" :> "1e-05") @@ ("1e-05" :> "1e-05") @@ ("1.5e-05" :> "1.5e-05")

\* The catalogue as it comes, reset, and with filters of several categories, one,
\* a switch, numbers at their limits and a text that reads as a switch.
DeskCatalogueRequests ==
  {<<>>, [reset |-> <<"1">>], [active |-> <<"0">>, min_liquidity |-> <<"20.0">>],
   [category |-> <<"a", "b">>, scope |-> <<"closed">>, page_size |-> <<"200">>,
    min_liquidity |-> <<"1.5e-05">>],
   [category |-> <<"a">>, limit |-> <<"50">>],
   [orderbook_only |-> <<"true">>, min_liquidity |-> <<"2.50">>, search |-> <<"vote">>],
   [search |-> <<"TRUE">>, sort |-> <<"oldest">>, page_size |-> <<"0">>],
   [min_liquidity |-> <<"-1">>], [min_liquidity |-> <<"0.00001">>]}

WebSave(name, kind, query) == [name |-> name, kind |-> kind, query |-> query]

DeskWebSaves ==
  {WebSave("v1", "proposals_list", [scope |-> <<"active">>, limit |-> <<"5">>]),
   WebSave("v1", "intents_list", [sort |-> <<"status">>]),
   WebSave("v1", "alerts_list", [watchlist_only |-> <<"true">>, state |-> <<"open">>]),
   WebSave("v1", "analysis_learning", [group_by |-> <<"market">>, since_hours |-> <<"5">>]),
   WebSave("v1", "analysis_outcomes", [group_by |-> <<"market">>, since_hours |-> <<"TRUE">>]),
   WebSave("v1", "markets_catalog", <<>>)}

CliSave(name, kind, params) == [name |-> name, kind |-> kind, params |-> params]

DeskCliSaves ==
  {CliSave("v1", "intents_list", [scope |-> One("str", "terminal"), limit |-> One("int", "-1")]),
   CliSave("v1", "alerts_list", [watchlist_only |-> One("bool", "False")]),
   CliSave("v1", "analysis_outcomes",
           [group_by |-> One("str", "category"), since_hours |-> One("bool", "True")])}

DeskViewEdits ==
  {[category |-> <<"a">>],
   [category |-> <<"b", "c">>, limit |-> <<"100">>, min_liquidity |-> <<"2.50">>],
   [orderbook_only |-> <<"false">>], [since_hours |-> <<"20">>], [min_liquidity |-> <<"-0.5">>]}

DeskInit ==
  /\ desk \in Desks
  /\ PolicyInit /\ MarketInit /\ DraftsInit /\ AlertsInit /\ WebInit /\ SchemaInit
  /\ PreviewInit /\ SignalsInit /\ ReportsInit /\ CatalogueInit /\ ViewsInit
  \* A component that rests starts in one state.
  /\ desk = "previews" \/ (gateway = "disabled" /\ previewed.price = 40)
  /\ desk = "signals" \/ strategies = Strategy(7200, FALSE)
  /\ desk = "catalogue" \/ venue = [i \in DOMAIN Venue |-> CHOOSE m \in Venue[i] : TRUE]

DeskNext ==
  /\ UNCHANGED desk
  /\ \/ desk = "policy" /\ PolicyNext
          /\ UNCHANGED <<marketVars, draftVars, alertVars, webVars, schemaVars, previewVars,
                         signalVars, reportVars, catalogueVars, viewVars>>
     \/ desk = "market data" /\ MarketNext
          /\ UNCHANGED <<policyVars, draftVars, alertVars, webVars, schemaVars, previewVars,
                         signalVars, reportVars, catalogueVars, viewVars>>
     \/ desk = "drafts" /\ DraftsNext
          /\ UNCHANGED <<policyVars, marketVars, alertVars, webVars, schemaVars, previewVars,
                         signalVars, reportVars, catalogueVars, viewVars>>
     \/ desk = "alerts" /\ AlertsNext
          /\ UNCHANGED <<policyVars, marketVars, draftVars, webVars, schemaVars, previewVars,
                         signalVars, reportVars, catalogueVars, viewVars>>
     \/ desk = "web" /\ WebNext
          /\ UNCHANGED <<policyVars, marketVars, draftVars, alertVars, schemaVars, previewVars,
                         signalVars, reportVars, catalogueVars, viewVars>>
     \/ desk = "schema" /\ SchemaNext
          /\ UNCHANGED <<policyVars, marketVars, draftVars, alertVars, webVars, previewVars,
                         signalVars, reportVars, catalogueVars, viewVars>>
     \/ desk = "previews" /\ PreviewNext
          /\ UNCHANGED <<policyVars, marketVars, draftVars, alertVars, webVars, schemaVars,
                         signalVars, reportVars, catalogueVars, viewVars>>
     \/ desk = "signals" /\ SignalsNext
          /\ UNCHANGED <<policyVars, marketVars, draftVars, alertVars, webVars, schemaVars,
                         previewVars, reportVars, catalogueVars, viewVars>>
     \/ desk = "reports" /\ ReportsNext
          /\ UNCHANGED <<policyVars, marketVars, draftVars, alertVars, webVars, schemaVars,
                         previewVars, signalVars, catalogueVars, viewVars>>
     \/ desk = "catalogue" /\ CatalogueNext
          /\ UNCHANGED <<policyVars, marketVars, draftVars, alertVars, webVars, schemaVars,
                         previewVars, signalVars, reportVars, viewVars>>
     \/ desk = "views" /\ ViewsNext
          /\ UNCHANGED <<policyVars, marketVars, draftVars, alertVars, webVars, schemaVars,
                         previewVars, signalVars, reportVars, catalogueVars>>

DeskSpec == DeskInit /\ [][DeskNext]_deskVars /\ MarketFairness
==============================================================================
