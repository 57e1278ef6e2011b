-------------------------- MODULE OpportunityAlerts --------------------------
(***************************************************************************)
(* Operator alerts: the scan of the catalogue's markets, the scan of the   *)
(* proposals, and the operator's acknowledge, dismiss and resolve.  Every  *)
(* alert is looked for, then saved; a transition reads the row, then saves *)
(* all of it.  CLI, web and Telegram processes do this at once.            *)
(***************************************************************************)
EXTENDS Integers, SequencesExt

CONSTANTS
  AlertWriters,       \* the processes
  CatalogueMarkets,   \* the markets of one listing, in its order
  TrackedCategories, TrackedKeywords, LiquidityThreshold, ResolvingSoonDays,
  EnabledAlertTypes,  \* the rules of market_opportunity_alerts
  EntityAlerts,       \* alerts of proposals and intents that are due
  MaxAlerts           \* bound: rows

VARIABLES
  operator_alerts,    \* the rows, in the order they were inserted
  alertOp             \* process -> what it does

alertVars == <<operator_alerts, alertOp>>

MarketAlertTypes ==
  <<"new_relevant_market", "high_liquidity_market", "resolving_soon_market",
    "potential_context_market">>

Closed == {"dismissed", "resolved"}

VALID_TRANSITIONS == [open |-> {"acknowledged"} \cup Closed, acknowledged |-> Closed,
                      dismissed |-> {}, resolved |-> {}]

\* Mutant: a dismissed alert may still be resolved.
NextStates_DismissedToo(state) ==
  IF state = "dismissed" THEN {"resolved"} ELSE VALID_TRANSITIONS[state]

NextStates(state) == VALID_TRANSITIONS[state]

Resting == [at |-> "idle", wants |-> <<>>, looked |-> 0, row |-> 0, state |-> "open", fresh |-> TRUE]

AlertsInit ==
  /\ operator_alerts = <<>>
  /\ alertOp = [w \in AlertWriters |-> Resting]

\* A keyword counts for nothing in a sports context, a category does.
relevance_reasons(market) ==
  (TrackedCategories \cap {market.category})
    \cup (IF market.sports THEN {} ELSE TrackedKeywords \cap market.words)

resolving_soon(market) == market.days # -1 /\ ~market.closed /\ market.days <= ResolvingSoonDays

\* The alerts the scan of one market asks for, in the order of the code.
MarketAlerts(market) ==
  LET raised(type) ==
        /\ type \in EnabledAlertTypes
        /\ relevance_reasons(market) # {}
        /\ type = "high_liquidity_market" => market.liquidity >= LiquidityThreshold
        /\ type = "resolving_soon_market" => resolving_soon(market)
        /\ type = "potential_context_market" => market.context
  IN  [i \in 1..Len(SelectSeq(MarketAlertTypes, raised)) |->
         [type |-> SelectSeq(MarketAlertTypes, raised)[i], entity |-> market.id]]

\* A listing that fails is a scan of no market.
scan_markets(w) ==
  /\ alertOp[w].at = "idle"
  /\ alertOp' = [alertOp EXCEPT ![w] = [Resting EXCEPT !.at = "find",
       !.wants = FlattenSeq([i \in DOMAIN CatalogueMarkets |-> MarketAlerts(CatalogueMarkets[i])])]]
  /\ UNCHANGED operator_alerts

\* OperatorNotificationsService.scan, for a proposal that nears its expiry or
\* was approved and passed it, and the alerts of an intent that was superseded
\* or simulated.
scan_proposals(w) ==
  /\ alertOp[w].at = "idle"
  /\ \E alert \in EntityAlerts :
       alertOp' = [alertOp EXCEPT ![w] = [Resting EXCEPT !.at = "find", !.wants = <<alert>>]]
  /\ UNCHANGED operator_alerts

\* Mutant: an alert of a market that was closed is no reason not to raise it again.
SameAlert_ActiveOnly(wanted) ==
  {i \in DOMAIN operator_alerts :
     /\ operator_alerts[i].type = wanted.type /\ operator_alerts[i].entity = wanted.entity
     /\ operator_alerts[i].state \notin Closed}

\* find_any_by_type_and_entity for a market, find_active_... for the others.
SameAlert(wanted) ==
  {i \in DOMAIN operator_alerts :
     /\ operator_alerts[i].type = wanted.type /\ operator_alerts[i].entity = wanted.entity
     /\ wanted.type \in Range(MarketAlertTypes) \/ operator_alerts[i].state \notin Closed}

find_alert(w) ==
  /\ alertOp[w].at = "find" /\ alertOp[w].wants # <<>>
  /\ IF SameAlert(Head(alertOp[w].wants)) # {}
     THEN alertOp' = [alertOp EXCEPT ![w].wants = Tail(@)]
     ELSE alertOp' = [alertOp EXCEPT ![w].at = "save", ![w].looked = Len(operator_alerts)]
  /\ UNCHANGED operator_alerts

save_row(row) == operator_alerts' = Append(operator_alerts, row)

save_alert(w) ==
  /\ alertOp[w].at = "save" /\ Len(operator_alerts) < MaxAlerts
  /\ save_row([type |-> Head(alertOp[w].wants).type, entity |-> Head(alertOp[w].wants).entity,
               state |-> "open", looked |-> alertOp[w].looked, overwrote |-> FALSE])
  /\ alertOp' = [alertOp EXCEPT ![w].at = "find", ![w].wants = Tail(@), ![w].looked = 0]

\* _transition_alert up to its check.
begin_transition(w) ==
  /\ alertOp[w].at = "idle"
  /\ \E i \in DOMAIN operator_alerts : \E state \in NextStates(operator_alerts[i].state) :
       alertOp' = [alertOp EXCEPT ![w] = [Resting EXCEPT
         !.at = "transition", !.row = i, !.state = state]]
  /\ UNCHANGED operator_alerts

\* The row is replaced by the copy that was read; fresh tells whether it still
\* is the row, overwrote that a copy which was not has replaced it.
save_transition(w) ==
  LET row == alertOp[w].row
  IN  /\ alertOp[w].at = "transition"
      /\ operator_alerts' = [operator_alerts EXCEPT
           ![row].state = alertOp[w].state, ![row].overwrote = @ \/ ~alertOp[w].fresh]
      /\ alertOp' = [v \in AlertWriters |->
           IF v = w THEN Resting
           ELSE [alertOp[v] EXCEPT !.fresh = @ /\ alertOp[v].row # row]]

\* A scan is through, or its process ends.
end_alert_op(w) ==
  /\ alertOp[w].at # "idle"
  /\ alertOp' = [alertOp EXCEPT ![w] = Resting]
  /\ UNCHANGED operator_alerts

AlertsNext ==
  \E w \in AlertWriters :
    \/ scan_markets(w) \/ scan_proposals(w) \/ find_alert(w) \/ save_alert(w)
    \/ begin_transition(w) \/ save_transition(w) \/ end_alert_op(w)

AlertsSpec == AlertsInit /\ [][AlertsNext]_alertVars

(***************************************************************************)
(* MarketAlertedOnce: a market has one alert of a type for ever, closed or *)
(* not, and a proposal has one that is active, unless the scans overlapped *)
(* so that the later one looked before the earlier one saved, or a         *)
(* transition was saved over another one.                                  *)
(***************************************************************************)
MarketAlertedOnce ==
  \A i, j \in DOMAIN operator_alerts :
    LET first == operator_alerts[i]
        second == operator_alerts[j]
    IN  /\ i < j /\ first.type = second.type /\ first.entity = second.entity
        /\ first.type \in Range(MarketAlertTypes) \/ {first.state, second.state} \cap Closed = {}
        => second.looked < i \/ first.overwrote

(***************************************************************************)
(* ClosedStaysClosed: a dismissed or resolved alert keeps its state, except *)
(* when an operator who read it before saves a copy over it.               *)
(***************************************************************************)
ClosedStaysClosed ==
  [][\A i \in DOMAIN operator_alerts :
       operator_alerts[i].state \in Closed =>
         \/ operator_alerts'[i].state = operator_alerts[i].state
         \/ operator_alerts'[i].overwrote]_alertVars
==============================================================================
