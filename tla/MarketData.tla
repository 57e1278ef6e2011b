------------------------------ MODULE MarketData ------------------------------
(***************************************************************************)
(* Snapshots of one market and the cache they are kept in.  A client gets  *)
(* a book over REST, or a REST baseline and then an update of the market   *)
(* stream, checks its age and stores it; every network answer and the      *)
(* commit of the row are steps of their own.  Prices are left out: these   *)
(* steps look at times only.                                               *)
(***************************************************************************)
EXTENDS Integers, FiniteSets, FiniteSetsExt

CONSTANTS
  Clients,            \* processes that refresh the market
  StaleAfter,         \* stale_after_seconds, in ticks
  Skew,               \* how far the exchange's clock may be ahead of ours
  MaxAttempts,        \* max_reconnect_attempts
  MaxClock,           \* bound: the last instant
  MaxStored,          \* bound: snapshots in the cache
  MaxEmptyFrames      \* assumption: frames without an update that arrive in one refresh

ASSUME MarketDataAssumption ==
  /\ StaleAfter \in Nat /\ Skew \in Nat /\ MaxAttempts \in Nat \ {0}
  /\ MaxClock \in Nat /\ MaxStored \in Nat /\ MaxEmptyFrames \in Nat

VARIABLES
  clock,              \* utc_now()
  market_data_snapshots,   \* the rows of the market
  refresh             \* client -> the refresh it is in

marketVars == <<clock, market_data_snapshots, refresh>>

NotRefreshing ==
  [at |-> "idle", streams |-> FALSE, observed |-> 0, fetched |-> 0, attempts |-> 0, empty |-> 0]

MarketInit ==
  /\ clock = 0 /\ market_data_snapshots = {}
  /\ refresh = [c \in Clients |-> NotRefreshing]

TimePasses ==
  /\ clock < MaxClock /\ clock' = clock + 1
  /\ UNCHANGED <<market_data_snapshots, refresh>>

Goto(c, step) == refresh' = [refresh EXCEPT ![c].at = step]

\* A refresh that raised is not told from one that returned.
Leave(c) == refresh' = [refresh EXCEPT ![c] = NotRefreshing]

\* fetch_live_snapshot, or refresh_from_websocket, which begins with it.
fetch_live_snapshot(c) ==
  /\ refresh[c].at = "idle" /\ Cardinality(market_data_snapshots) < MaxStored
  /\ \E streams \in BOOLEAN :
       refresh' = [refresh EXCEPT ![c] = [NotRefreshing EXCEPT !.at = "orderbook",
                                                               !.streams = streams]]
  /\ UNCHANGED <<clock, market_data_snapshots>>

\* Mutant: a snapshot of any age is taken.
AgeAllowed_Any(observed) == TRUE

\* A time in the future has age 0.
AgeAllowed(observed) == Max({0, clock - observed}) <= StaleAfter

\* A price with the exchange's own time arrives; one that is too old raises.
TakeAnswer(c) ==
  \E observed \in 0..(clock + Skew) :
    IF AgeAllowed(observed)
    THEN refresh' = [refresh EXCEPT ![c].at = "save", ![c].observed = observed,
                                    ![c].fetched = clock]
    ELSE Leave(c)

\* The metadata, /book with its time, and /midpoint must answer, /price need
\* not; a market without an orderbook and every other error raise.
get_orderbook(c) ==
  /\ refresh[c].at = "orderbook"
  /\ TakeAnswer(c) \/ Leave(c)
  /\ UNCHANGED <<clock, market_data_snapshots>>

\* One row, one commit; a refresh that streams goes on to connect.
persist_snapshot(c) ==
  /\ refresh[c].at = "save"
  /\ market_data_snapshots' = market_data_snapshots \cup
       {[observed |-> refresh[c].observed, fetched |-> refresh[c].fetched]}
  /\ IF refresh[c].streams
     THEN refresh' = [refresh EXCEPT ![c] = [NotRefreshing EXCEPT !.at = "connect"]]
     ELSE Leave(c)
  /\ UNCHANGED clock

\* Mutant: the attempts are counted from nothing after every connection.
Reconnect_Forever(c) == refresh' = [refresh EXCEPT ![c].at = "connect", ![c].attempts = 0]

\* A failed connection or a timeout of recv(): updates are dropped, the
\* attempts of the whole call are not.
Reconnect(c) ==
  IF refresh[c].attempts + 1 >= MaxAttempts THEN Leave(c)
  ELSE refresh' = [refresh EXCEPT ![c].at = "connect", ![c].attempts = @ + 1]

ConnectStream(c) ==
  /\ refresh[c].at = "connect"
  /\ Goto(c, "recv") \/ Reconnect(c)
  /\ UNCHANGED <<clock, market_data_snapshots>>

\* A frame is a list of updates; the caller asks for one message and takes the
\* first of the frame, whatever their order.
ReceiveFrame(c) ==
  /\ refresh[c].at = "recv"
  /\ \/ TakeAnswer(c)
     \/ /\ refresh[c].empty < MaxEmptyFrames
        /\ refresh' = [refresh EXCEPT ![c].empty = @ + 1]
     \/ Leave(c)                        \* PolymarketParseError is not retried
  /\ UNCHANGED <<clock, market_data_snapshots>>

ReceiveTimesOut(c) ==
  /\ refresh[c].at = "recv" /\ Reconnect(c)
  /\ UNCHANGED <<clock, market_data_snapshots>>

RefreshStep(c) ==
  \/ get_orderbook(c) \/ persist_snapshot(c)
  \/ ConnectStream(c) \/ ReceiveFrame(c) \/ ReceiveTimesOut(c)

MarketNext == TimePasses \/ \E c \in Clients : fetch_live_snapshot(c) \/ RefreshStep(c)

\* A request and a recv() have timeouts, so what a client waits for comes to an end.
MarketFairness == \A c \in Clients : WF_marketVars(RefreshStep(c))

MarketSpec == MarketInit /\ [][MarketNext]_marketVars /\ MarketFairness

\* latest_for_market: the row fetched last, any of them when two were at once.
latest_for_market ==
  {row \in market_data_snapshots :
     \A other \in market_data_snapshots : other.fetched <= row.fetched}

(***************************************************************************)
(* CacheRegressIsBounded: refreshes overlap and the exchange answers out   *)
(* of order, so the row a reader is given may be older than another one;   *)
(* never by more than the age limit and the error of the exchange's clock. *)
(***************************************************************************)
CacheRegressIsBounded ==
  \A row \in latest_for_market, other \in market_data_snapshots :
    other.observed - row.observed <= StaleAfter + Skew

(***************************************************************************)
(* RefreshesEnd: every refresh ends, with a row or with an error, provided *)
(* that the stream does not send empty frames for ever.                    *)
(***************************************************************************)
RefreshesEnd == \A c \in Clients : refresh[c].at # "idle" ~> refresh[c].at = "idle"
==============================================================================
